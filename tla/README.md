# Specifications of the ReelBoxNG utilities

TLA+ models of the programs under `src/src-reelvdr/utils`: the daemons,
drivers and libraries that connect a ReelBox host (x86, vdr) with its two decoder
cards, the BSP and the HD extension, with its front panels and with its remote
controls.  The rest of the repository is packaging around prebuilt plugins:
scripts, systemd units, images.

All these programs share one style.  State lives in C structures in shared
memory, across PCI in most cases, or in the static variables of threads; the
parties poll each other's fields and `changed` counters every few (tens of)
milliseconds; hardly anything is locked, and sleeps keep steps apart.  What can
go wrong is therefore hardly ever in one function.  It is in the order of the
steps of two parties, and that is what the models are about.

## Inventory

`PROJECT.json` lists every component with its files and what of it is left out,
and the hazards at their lines; these are the components with logic of their own.

| Component | State | Operations | Interacts with | Hard behaviour | Correct means | Modules |
|---|---|---|---|---|---|---|
| **hdchannel** (`hdshm3/src/hdchannel`): packets over PCI memory | ring of descriptors, `read_entry`, `write_entry`, data area, `invalidate` | `write_start/finish`, `write`, `read_start/finish`, `read`, `invalidate`, `create/open/close` | users on both sides of PCI; areas of the hdshm driver | two sides, no lock, stale samples, timeouts, abandoned writes, flush against publish | packets whole, in order, not overwritten while unread; flush drops exactly what is old; no writer starves | `HdFifo`, `HdChannel`, `ChanOpen` |
| **bspchannel** (`bspshm/channel`) | as hdchannel, and the generation of the BSP's program | as hdchannel, and `check`: open again | BSP; areas of the bspshm driver | as hdchannel; the flush has another order; handles outlive what they map | as hdchannel, but for one known loss; no mapping is forgotten | `BspChannel`, `ChanOpen` |
| **hdshm driver, host library** (`hdshm3/src/driver`, `hostlib`) | area table shared over PCI, its lock, page allocator, mappings per file | get/destroy/map/unmap area, reset, lock | host and extension kernels, every user above | a lock without an atomic operation, reset while files are open, usage counts | areas disjoint, counts match mappings, nothing mapped is destroyed | `HdShm` |
| **bspshm driver, host library** (`bspshm/driver`, `hostlib`) | area table, its lock, mappings per file | as hdshm; a process that does not get the lock gives up | host kernel and BSP | failed tries, processes that end without the lock, page faults by entry number | one party in the table; a fault finds the area that was mapped | `BspShm` |
| **bspd life cycle** (`bspshm/bspd/bspd.c`) | `bsp_status`, `bsp_enable`, `bsp_kill`, watchdog ticks, `demo_running` | main loop, `bsp_thread`, `demo_thread` | vdr, BSP program, video modes, bspchannel | flags set by clients and cleared by threads, watchdog, restart | a hung BSP is replaced, a living one spared, a stopped one stays down | `BspLife` |
| **bspd video modes** (`bspshm/bspd/videomodes.c`, `Focus.c`) | `video_mode`, `video_attributes`, `last_vm`, `last_va`, `hw_video_mode`, encoder registers | `video_check_settings`, `set_video_mode`, `video_set_bsp15` | vdr (settings, acknowledgement), BSP (stream reports, timing), FS453 encoder | live structures read more than once during a switch of seconds; two triggers for one switch; 5 s timeout | what is acknowledged is in force; encoder and BSP use one timing | `BspVideo` |
| **hdctrld** (`hdshm3/src/hdctrld`) | `hdp_enable`, `hdp_running`, `hdp_terminate`, `hd_shutdown`, `changed` counters | command line writes; `hd_daemon`, `hd_thread`, `hdp_kill`, `video_check_settings` | vdr and scripts through hdctrld, hdplayer | one kill routine run by several threads, sleeps as synchronisation, players that hang or crash | one player while enabled, none when not, power-down honoured | `HdCtrld` |
| **shmnetd** (`hdshm3/src/shmnetd`) | two channels, a tun device | copy both ways | two hdchannels | blocking write before read on both sides, restart of one side | no lasting mutual blocking, no packet vanishes | `ShmNet` |
| **reelbox-control: keys** (`rb_control.c`, `external_ctrl.c`) | ring of commands, shift and long-press state, repeat counts, chosen receiver, `power_state` | decode, `put_code`, `ir_send_thread`, commands from the network | receivers, front panels, vdr | lost packets, several producers, ring without overrun check, timeouts, cached state of vdr | a press is one event; only what was pressed repeats; the box obeys | `RbKeys`, `RbPower` |
| **reelbox-control: front panels** (`frontpanel*.c`) | framing of serial messages, table of USB displays, recorded infrared pulses | read a message, refresh the table, show, decode | panel, USB, key decoding | refresh thread against display threads, lost bytes, noise before a code | what is shown to is open; a lost byte does not spoil the stream for good; what is handed out was sent | `FpSerial`, `FpUsb`, `FpIr` |
| **reelbox-control: fan** (`fan_control.c`) | smoothed temperatures, previous speed | `calc_speed` | sensors, fan registers | hysteresis, four board types, small numbers mean fast | hot means fast; no flapping | `RbFan` |

`hdplayer` (on the HD extension), the programs of the BSP and of the front
panels, and vdr are not in this repository; they appear as environment actions,
derived from how this code uses their fields, and are marked external in the map.

## Modules

| Module | Models | Role |
|---|---|---|
| `HdFifo` | the usage rules at the head of `hdchannel.h` | abstract specification: a queue of whole packets, one of them held by the reader, with a flush |
| `HdChannel` | `hdchannel.c`, one writer and one reader | detailed specification, implements `HdFifo` |
| `BspChannel` | `bspchannel.c`, one writer and one reader | instance of `HdChannel` with another flush, compared with `HdFifo` |
| `ChanOpen` | create, open, check and close of both channel libraries | specification |
| `HdShm` | `hdshm.c`, `hdshm_gen.h` on both sides of PCI, and `hdshmlib.c` | specification |
| `BspShm` | `bspshm.c`, `bspshm_gen.h` and `bspshmlib.c`, with the BSP | specification |
| `BspLife` | `bspd.c` | specification |
| `BspVideo` | `videomodes.c` with vdr, BSP and encoder | specification |
| `HdCtrld` | `hdctrld.c`, kill paths of `hdvideo.c` | specification |
| `ShmNet` | `shmnetd.c` on both sides | specification, above the rings of `HdChannel` |
| `RbKeys` | `rb_control.c` from a packet to an input event | specification |
| `RbPower` | the commands for power in `rb_control.c`, `external_ctrl.c` | specification |
| `RbFan` | `fan_control.c` | specification |
| `FpUsb`, `FpIr` | the table of displays and the infrared decoders of `frontpanel_usb.c` | specifications |
| `FpSerial` | `fp_read_msg` of `frontpanel_rs232.c` | specification |
| `MCBspSide`, `MCHost` | the parts that meet nowhere, next to each other | one run each |
| `MCHdChannel`, `MCHdShm`, `MCBspVideo` | | premise, symmetry, and settings for TLC |
| `HdChannel_proofs` (also about `BspChannel`), `HdShm_proofs`, `BspShm_proofs`, `RbKeys_proofs` | | theorems about the modules they are named for |
| `ChanUse_proofs` | `ChanOpen`, `ShmNet`, `BspChannel` | theorems about what uses the channels, and the ones of `HdChannel_proofs` stated of `BspChannel` |
| `RbBox_proofs` | `RbFan`, `FpUsb`, `FpSerial`, `FpIr` | theorems about the parts of reelbox-control that serve the box itself |
| `BspSide_proofs` | `BspLife`, `MCBspSide` | theorems about the life of the BSP, and about the composition, from those of its parts |
| `Host_proofs` | `HdCtrld`, `BspVideo`, `MCHost` | theorems about player and video mode, and about the composition, from those of its parts |

Definitions marked *Slip* are variants of the definition after them with one
plausible programming mistake.  No behaviour uses them; they show which
property notices that mistake.

`MCBspSide` and `MCHost` compose parts that share no variable and call each other
nowhere: the first state chooses the part that moves, and the other parts stay in one
fixed first state.  The behaviours are those of the parts, one at a
time; a product of independent parts would only repeat each state of one for
every state of the others.  What does interact is modelled in one
module: both sides of a channel, daemon, threads and player, two kernels and
the processes above them, vdr, bspd, BSP and encoder.

### HdChannel

The control area is `entries` (descriptors with `offset`, `rsize`, `size`),
`readEntry`, `writeEntry` and `invalidate`; the data area is `mem`.  What a
side keeps in local variables is `wpc`, `wrp` (the sampled `rp` of
`hd_channel_find_space`), `wsize`, and `rpc`, `bwe` (the sampled
`write_entry` of a flush).  An action is a stretch of code with at most one
access to what the other side writes, so every interleaving of such accesses
is a behaviour:

* `WriteStart`, `Reserve` / `WriteRetry` / `WriteTimeout`: `write_start`.
  `find_space` decides with a read entry sampled before; the reader may have
  gone on since.  `Fill`: the copy.  `WriteFinish`: size, then publication.
  `WriteAbandon`: a `write_start` never finished (`demo_thread` of bspd at the
  end of its file).
* `Invalidate`, `InvalidateDone`, `InvalidateTimeout`: `hd_channel_invalidate`.
* `FlushSample`, `FlushClear`, `FlushDrop`: the reader's three steps of a
  flush; `ReadStart`, `ReadTake`, `ReadTimeout`, `ReadFinish`: a read.

Lengths are in blocks of 64 bytes.  `write_start` rounds packets up to whole
blocks and the area is a multiple of 4096 bytes, so block arithmetic is that of
the code.  Assumed: the two sides see each other's stores in program order (the
code uses no barriers; the memory is uncached), an index is read and written
in one access, a side uses a channel from one thread, a caller that got
a packet calls `read_finish`.  `write_start` of 0 bytes is not used.  The model
starts with both sides connected to a freshly created channel.

`HdFifo` is refined by mapping the queue to the contents of the
descriptors from the first one the reader will still deliver (`Pending`), the
held packet to the one between `read_start` and `read_finish`, and the request
to the flag.  `mem` is part of the mapping: a packet overwritten while queued
or held is a step `HdFifo` does not have.

### BspVideo

`vm`, `vmChanged`, `lastChanged` are `video_mode` with `changed` and
`last_changed`; `va`, `vaChanged` are `video_attributes[0]`; `hw` is
`hw_video_mode`; `chip` is what the FS453 was programmed to, `shown` what
the BSP puts out.  vdr and the BSP write a structure and its counter in two
steps.  The daemon's pass is `SampleAttributes`, `CopyAttributes`,
`KeepAttributes` (`video_check_attributes`) and `SampleMode`, `CompareMode`,
`KeepMode` (`video_check_mode`); `Select` (or `SkipSwitch`), `SetupFocus`,
`DownloadSettings`, `RequestTiming` are `set_video_mode`, which both call
and which reads the live structures again.  The choice of the
timing is translated case by case (`SdTiming`, `SdhdTiming`, `PcTiming`).  The
daemon waits up to 5 s for the BSP to take a request and then goes on, so the
steps after a wait are not guarded by the answer.

Copies of a structure are one step.  What the BSP does with a timing is not in this
repository: `TakeTiming` lets it take the whole of it at one moment, as
`video_set_bsp15` expects when it waits for `set` to be cleared.  Picture, SCART and WSS settings, register
files and field synchronisation are left out: nothing in them feeds back into
the modelled state.

### HdCtrld

`enable`, `running`, `terminate`, `shutdown` are the fields of `hd_data_t`;
`modeChanged` says that `video_mode.changed` differs from the copy in
`hdvideo.c`; `player` holds the process that each thread runs.  Daemon and
threads have a place (`at`) each; `hdp_kill`, which both call, has a return address
(`back`).  Players may take `hdp_terminate`, hang, or crash.  `StartFails` is a
`pthread_create` whose failure is not noticed.

The code relies on its sleeps, so the model has them as guards:
`KillSleepOver` says that 200 ms, or the 100 ms after a kill, are enough for a
player that was told to go and for its thread to finish; `StartSleepOver` that
the second after `pthread_create` is enough for the thread to reach its
`system()` or its own three-second sleep; `NextPass` that those three seconds
outlast the daemon's pass.  Without these assumptions the properties do not
hold; the code has nothing else that could make them hold.

The tool may call `-s`, `-k`, `-P` and change the video mode at any time, also
between the two writes of a `-P`; a call that writes what is there already is left out.

After a power-down the sleeps are not enough.  An ordinary `-P` and then `-s` has the new
thread set `hdp_running`, sleep three seconds (line 79) and only then start its player; in
these seconds the daemon meets the mode change it has itself announced (line 111), runs
`hdp_kill`, and clears `hdp_running`.  Then it starts a second thread.  So there are two
players, or one that nobody knows of; threads that end (lines 85-86) kill each other's
players, and this may go on for ever.  Two history variables name what this excuses, and
nothing else is excused:

* `woken`: a thread sleeps or has slept there, and since then there was always some thread.
  `OnePlayer`, `RunningIsTold` and `PoweredDownIsSilent` hold while it is FALSE, and so again
  once the last thread has ended; `EnabledPlays` asks of the time when it is TRUE only that some
  player plays again and again, not that one stays.
* `forgotten`: a thread cleared the `hd_shutdown` of a `-P` that came while a player was being
  started (line 82).  `PowerDownHappens` holds but for that.

`hdctrld_stop` shows the worst of it: a player that no `-k` stops any more.

### HdShm

`ids`, `entries`, `alloc` and `totals` are the table in the memory of the
extension, `lock` its `table_lock`.  A process is its open file: `selected`
and `slots` are `bsf->id` and `bsf->bsm`, `maps` what the process really has
mapped.  `ioctl` and `arg` are the next system call of the library call in
progress, `phase` how far it is: `hd_create_area` is CREATE, GET, SET_ID,
MMAP; `hd_get_area` the last three.  Between two of them other processes run,
and the process may be killed (`Exit`, and then `Release`).

`atomic_dec_and_test` on memory behind PCI is a load (`LockLoad`) and a store
(`LockStore`); processors of one side wait for each other (`BusFree`), those
of the other side do not.  `down` on `table_sem` keeps one process per side in
the loop (`Down`); it is released as soon as the process is in the table.  A failed try is
not undone and a timeout counts as success; `HostTries` is 0 because
`lock_tries` is set only on the extension.  In the table, `create` and `mmap`
have two steps, the search (`...Find`) and the write (`...Claim`): `Reset`,
which takes the semaphore only, and a process that got in by a timeout
can come between.  All other calls read and write the table in one step; what two
intruders do to each other there is not asked, see `raced` below.

Two history variables limit what can be asked: `raced`, that two processes have been in
the table at once, and `wiped`, that a reset has hit an area in use.
Lengths and addresses are in pages, as the allocator counts.  Host memory has
addresses outside the window of the extension (`DmaAssumption`); whether the
host has any is a choice.  Assumed: the extension has booted, a process has one
thread, ids are not 0 and the flags of an area are legal.

### BspChannel

The ring is that of `HdChannel`, taken with INSTANCE; every action but the
three of the flush is one of its actions under the name the code has here.  The
order of the flush differs: `TakeBack` clears the flag before `LookAhead` samples
`write_entry`, and `JumpAhead` goes there.  A writer may be told that the channel
is flushed and write a packet before the reader looks, and lose it.
`LosesOnlyWhenAsked` is the refinement of `HdFifo` with that one additional step
(`DropUnasked`); the queue is mapped so that packets leave it when the
reader looks.

### ChanOpen

`control` and `data` are the two areas of one channel as the driver has them
(a state of the channel, and a size), `generation` counts the runs of the BSP's program.
`doing` is where a process is: `bsp_channel_create` is `CreateControl`,
`CreateData` (or `DataFails`, `ResizeData`, `ResizeFails`), `ClearControl`, `RunChannel`;
`bsp_channel_open_sub` is `GetControl`, `LookState`, `GetData`, and `Failed` says
what its two callers do with a failure.  `handle` is what the process keeps,
`mappings` what it really has mapped.  `Die` is a read through NULL or a second
free of one area.  A driver reset takes both areas away, also between two steps.

### BspShm

The structure is that of `HdShm`, its descendant: `call`, `arg` are the next system
call of a library call in progress, `phase` its way through semaphore and
lock.  What differs: the lock lies in host memory, so that `TryLock` is
atomic; a host process that has failed `LockTries` times sets `lock_timeout` and
gives up (`GiveUp`), and from then on every call fails at once (`FailAtOnce`)
until a reset; nobody enters the table without the lock.  That is why a
call in the table is one step here, which `TableIsExclusive` justifies.  The
BSP locks in the same way and creates areas of its own.  `maps` holds the entry
number that `bspshm_nopage` will look at.  `failed` (history) counts the tries that
found the lock taken; `wiped` says that a reset cleared an area in use;
`counted` that the driver still counts a mapping: unmapping the area selected last
instead of the argument, as the code does, takes the count of another mapping.

### BspLife

`bspd` holds the flags of `bspd_data_t`, `wd` the watchdog's counter and
the copy of it, of which only "the same", "new" and "older" matter.  The main loop
is `Enable`, `Started`, `Kill`, `Killing`, `Watchdog`, `DemoStart`, `Exit`; the
second of sleep after a start is the guard `StartSleepOver`: the new thread has zeroed
the watchdog by then, and the one before it has finished.  Each `bsp_thread` is an element of `starter`
with the phase of the process it waits for in `system()`: the script that loads the
card, `erun` before it reports, running, hung.  `Killed` is killall on `erun`;
the script survives it.  The BSP loads longer than a thread takes to finish.  The
timer of the watchdog (`TenSeconds`) runs out only for a BSP that does not tick.

A start while another BSP comes up leaves two threads that kill each other's
`erun` for ever; `doubled` (history) marks it, and the properties speak of what
happens before.  Left out: what a start or a kill makes
`video_check_settings` force.

### ShmNet

Each peer is one thread: `ReadTun`, `WriteChannel` (or `WriteTimesOut` after ten
seconds), `ReadChannel`, `WriteTun`, `FinishPacket`.  A channel is its ring of
descriptors, with room for `RingRoom` packets; one write or read is one
step, its inside is the matter of `HdChannel`.  The card creates both channels when it starts,
which clears them; `lost` (history) collects what is dropped
knowingly, `torn` says that this happened while the host was inside the channels: then
the host's `read_finish` steps over a packet it has never seen.  `NoPacketVanishes` says where
each packet is that was read from a tun device, at any moment; `NetDelivers` that it gets on.

### RbKeys and RbPower

A key is pressed (`Press`), sends packets (`Signal`), any of which any panel may
miss, and is released.  `dec[p]` is `ir_state_t` with the command of panel `p`'s
thread; `HandleIdle`, `HandleWait`, `HandleChange` and `HandleRelease` are the branches of
`handle_key_timing`, `Silence` its timeout of 300 ms.  `queue` is the ring
`code_queue`; `put_code` does not compare with the reader, so that the command that
catches up empties it.  `TakeCode` and `FakeRepeat` are `ir_send_thread` with
`sendInputEvent` and the filter of repeats.  Time is flags that the clock may set
(`Tick`, `WindowOver`, `Pause`).

History: `events` counts the press events of each press, `faded` says that the
reception had a gap of half a second within a press, `missed` that the first packet of a
key was lost in one of the ways that the decoder does not repair, `crossed` holds the presses
of a key that can be shifted which a panel heard before it was done with another such key: it hands
on the short meaning at once and then waits for the long one.  `odd` marks a repeat flag
that was kept although the key changed.  Of a key only what its flags make of it counts:
`Shifted`, `Repeated`, and `Single` for a key that waits as if it had a second meaning and has none.

`RbPower` has the two threads that act on power commands, `ir_send_thread`
(`send_code`, then `Act`) and the one for the network, with `power_state`
between them, and vdr with its file for standby.

### RbFan

`ReadTemps` reads both sensors, limits and smooths them and computes the speeds
(`calc_speed`, board by board); `SetFan` sends them ten seconds
later and makes the processor fan's speed the one hysteresis looks at.  Smoothed
temperatures are doubles in the code and whole numbers rounded either way
here.  `cooled` (history) is the temperatures at which the fan of an Intel
board was switched off last.
`fan` of `fan_control_thread` is not initialised, and `calc_speed` leaves the processor's
as it is on a cool NCL2: the first speed is any of `Leftovers`.

### FpUsb, FpIr, FpSerial

`FpUsb`: `Wake`, `Scan`, `CleanUp` are the loops of `fp_refresh_usb`, one display
or entry at a time; `Show` and `Shown` are a thread that takes the lock of an
entry and uses its handle.  Displays are plugged in and out at any time.

`FpIr`: a code is sent as the lengths of pulses and gaps, after noise, with one length
wrong, or is missed, for each display differently; `decode_rstep` and
`decode_xmp` work on these lengths as the code does, with its tolerances, its
correction of the first pulses and its division.  `Ask_ir` and `EndOfPass` are
`fp_read_ir` and the ring behind it.  The two control messages that ask a display (lines
492 and 494) are one step: what the display does between them, or after one of them
failed, is not under `src/`.  A display with old firmware does not tell how long its
record is, and the code takes it for as long as an XMP code (`AsRead`; what lies behind
the record is taken to be zeros).  A code is sent only when the one before has been asked
for, and a record of noise alone is left out.  A code of two bits could be found in
an XMP code, so `BITS` is at least 3 (it is 23).

There is no checksum in an r-step code, so the code can read one that nobody sent.  The
model has the records in which this happens, and `Doubtful` says which they are: a short
length heard as long or the other way round; noise as long as a code; a wrong length in an
r-step record as long as an XMP code, which is then handed to `decode_xmp` (line 513); and
a record that old firmware has cut off.  `mistaken` collects what was read from those: it
may be handed out, anything else must have been sent.

`FpSerial`: messages of the panel are sequences of bytes, and any one byte may be lost;
`fp_read_msg` looks at the value of a byte only, so that data may be `5a`, `55`, an
answered command, or the `ff` of a panel in flash mode.  That last one makes
`fp_read_msg` return without a message, and `fp_serial_thread` handles what is left of
the one before once more (`again`).  A byte also knows its message and place, so that it
can be said what was put together (`Message`); no step looks at this.

After a lost byte the reader can stay out of step for as long as the data look like
messages: with a key held down whose last byte is `5a`, that byte is taken for a begin,
the begin of the next message for a command, and so on to the end of the press.  So
`LossIsContained` says two things.  Whatever the data: what was sent before is handled,
and once the reader gets one message right it gets all that follow, in order.  And if the
loss is `Calm`, so that neither of the two messages at the loss has such a byte, it costs
these two at most and makes up one at most.

## Runs

| Run | Asks | Answer |
|---|---|---|
| `hdchannel` | no shared block, no lost publication, the flush; refinement of `HdFifo`; a blocked writer gets its space, every packet leaves | holds |
| `hdchannel_flush` | does 0 from `invalidate` always mean "flush succeeded" | no, when an earlier call timed out |
| `hdshm` | while the lock keeps processes apart: areas, old mappings, usage counts, destroying; with resets and processes that end at any point | holds |
| `hdshm_map` | one mapping per id and process | no: unmapping one area clears the slot of another |
| `hdshm_race` | one process in the table | no: a host process does not wait for the lock |
| `bspside` | `BspLife`: the watchdog spares a living BSP and replaces a hung one, a stopped one stays down. `BspShm`: one party in the table, faults find their area. `BspChannel`: packets are lost only when asked. `ChanOpen`: no mapping is forgotten. `ShmNet`: no packet vanishes between the two, and every packet arrives or is dropped knowingly | holds |
| `channel_reopen` | can a reader whose channel did not come back read again | no: it dies at its next read |
| `bspshm_lock` | is the lock free when nobody is near the table | no, after one failed try |
| `host` | `RbKeys`: one event per press, right repeats, decided presses. `RbFan`: hot means fast, no flapping. `FpUsb`: open while shown, present stays open. `FpIr`: what comes out was sent, doubtful records apart. `FpSerial`: what a lost byte costs. `BspVideo` (vdr waits): acknowledged means switched, chips agree, requests are acknowledged. `HdCtrld`: enabled plays, power-down happens unless a start forgets it; one player, true status and silence when powered down, as long as no thread is left that slept after a power-down | holds |
| `rb_power` | does the box go to standby on Standby | no: the key only changes `power_state` |
| `hdctrld_stop` | does `-k` stop the player | no: after `-P` and `-s` a player may run that nobody stops |
| `bspvideo_impatient` | acknowledgement with a vdr that does not wait | no: settings written during a switch are remembered as applied |

The eight negative answers are described, with the lines of the code and of the
text they disagree with, under `findings`.

**Known and left aside.**  Some things go wrong in a way no text of the
repository denies; the properties exclude them by a named history variable or
exception, so that they hold for the rest: a second start while a BSP comes up
(`doubled`), a card that clears channels in use (`torn`), a reset of areas in use
(`wiped`), presses with a gap, lost first packets and two keys within 300 ms
(`faded`, `missed`, `crossed`),
mappings that unmapping another area has made uncounted (`counted`), two processes in
the table of hdshm (`raced`), a creator that finds a data area of another size and
leaves two mappings behind (`ResizeFails`), the display that ends the search
for those behind it (in `PresentStaysOpen`), a start after a power-down (`woken`) and a `-P`
during a start (`forgotten`), records from which a code may be read that nobody sent (`Doubtful`,
`mistaken`), and a byte lost among data that look like messages (`Calm`).

**Bounds.**  *HdChannel* has no counters; its state is finite for fixed
constants.  Five descriptors and four blocks, with packets of one block and of
the whole area: a packet behind one that started over at 0 occurs at every
position of the ring, and the packet only an empty ring has room for occurs.  One payload suffices: a packet
overwritten by one of another length differs, one by the same length shows as
an overlap of reservations.  *BspChannel* has three descriptors and two blocks: what it adds is
the flush.  *HdShm* bounds library calls (`MaxCalls` 4): two
processes, two areas of the extension and one of the host for two entries and
two slots, three free pages for areas of one or two: entries, slots and
memory run out, ids are used again after a reset, a run that does not fit at one
page fits further on.  The search of `hdshm` ends at `raced`; processes and the
areas of a kind are interchangeable, which is sound since the run has safety
properties only.  `hdshm_race` and `hdshm_map` use fewer.
*BspShm* has two host processes and the BSP, two areas, entries and slots, three library calls, two
tries of the BSP, and gives up after one failed try instead of 600: enough for a
collision, a process that gives up, one that ends afterwards and one that
resets.  *BspLife*: three wishes (enable, the two writes of `-k`, or two starts and a kill), one
fault, two threads for the BSP that dies and the one that follows, one demo that a client
asks for (the daemon does not begin with one).  *ChanOpen*: a creator and
an opener, two sizes, two tries, two resets and two further runs of the BSP, so
that a channel is changed, found missing and found again in one behaviour.
*ShmNet*: rings of three descriptors with room for one packet, two
packets each way, so that both rings are full while both peers write, and one exit.
*BspVideo* bounds two counters (`MaxRequests` 3, `MaxReports` 1; 2 when vdr does not wait):
three requests are needed for one to arrive during the switch for another
and one to be unaffected.  The settings have one of each main mode and pairs
that differ in one option; the modelines lack rates, so that the 60 Hz
fallback occurs, and have a line for each request (assumed and checked in
`MCBspVideo`).  *HdCtrld*: three calls of the tool, one of them a
`-P`, so that one is followed by a start and a stop, two crashes, and two threads, which are
what it takes for two players; with four calls, or three threads, its properties hold too.  *RbKeys*: a
panel and the network, two presses of two packets, a key with two meanings, one
that repeats and a button, one command from the network (a key that repeats); or, in a part of its own
("shift"), two keys that can be shifted, one of them without a second meaning; the queue holds two, so that it
overflows; `MinRepeats` and `FakeRepeats` are 0 and 1 for 3 and 5.  *RbFan*:
all four boards; 40 and 46 degrees for the board, 48 and 93 for the processor, which lie on
both sides of the trip points, with and without a minimum, and a first speed of 0 or of 5000; smoothing reaches the
values between.  *FpUsb*:
three displays for two entries and three pluggings.  *FpIr*: codes of three
bits, or two halves of two groups of three values, two displays, the second with old firmware, two codes, noise of one
pulse or as long as a code, a wrong length at one place, a ring of two; an r-step record as long as an
XMP one does not exist with three bits, so that case is in the theorem only.  *FpSerial*: three
messages of all four lengths and one lost byte; among them are keys with `5a`, with `ff` and with an
answered command in their data.

**Fairness.**  All of it is weak fairness of loops that wait for nothing but time.
`HdChannel`: the reader's loop, and a writer in `write_start` that polls; the
writer's timeout has none and `write_finish` neither, so the liveness does not
rest on giving up.  `BspVideo`: the daemon's loop, the BSP taking requests, and
finishing of a write that has begun.  `HdCtrld`: the daemon, its threads, the
second write of `-P`, and the end of a player that took the message or the signal; a
player need not listen.  `BspLife`: the daemon's loop, its clock, each
thread together with the program it runs (a hung one has no step), each demo.  `ShmNet`: each
peer's loop, its timeout included; the properties rest on it, as the code does.  `RbKeys`: each panel's
thread and its clock, and the thread that takes commands.  `RbPower`: the two
threads while the box is on, and vdr going down.

## Proofs

`HdChannel_proofs` proves for every number of descriptors and
blocks, every set of packet lengths and every payload:

* `TypeCorrect`: `Spec => []TypeOK`.
* `RingInvHolds`: `[]RingInv`, given fewer blocks than descriptors; then the ring
  always has a descriptor to spare (`HasRoom`).
* `NoOverwrite`: `[]RegionsDisjoint`, from `RingInv`.
* `NothingPublishedIsLost`: `PublishIsVisible`, from `RingInv`.
* `FlushLeavesNothing`: `[]FlushEmptiesChannel`, for all sizes.
* `PacketsStayWhole`: `[]PacketInv`, given `[]HasRoom`.
* `FifoWithRoom`, `ChannelIsFifo`: the refinement of `HdFifo` (`ImplementsFifo`), given
  `[]HasRoom`, or fewer blocks than descriptors.
* `BspFifoWithRoom`, `BspTypeCorrect`: the refinement, given `[]HasRoom`, and the types of
  `BspChannel`, with its one additional step (`LosesOnlyWhenAsked`).

That reservations do not overlap is not inductive: `find_space` compares with
the oldest and the newest packet only, so the invariant has to say how those
between lie.  `RingInv` says that the slots in use, from `Base` on, lie in the
area in one rising run, or in a first run that rises to the end and a second one that
started over at 0 and stays below the packet at `Base`.  `Base` is the read entry the
writer has sampled, if it is about to use one, so the layout is
also kept for packets the reader has given back meanwhile; it shrinks when the
writer samples again or is done.  As every packet has at least one block, ring
distance is at most distance in the area (the terms with `gap`); with fewer
blocks than descriptors that gives a free descriptor whenever there are free
blocks, and so `write_finish`, which compares nothing, stays behind the
reader.  The lemmas follow this: ring arithmetic (`Distance...`), what
`find_space` may append (`LayoutAppends`), what a layout bounds
(`LayoutBounded`), moving its base (`LayoutAdvances`, `LayoutRebased`,
`LayoutShrinks`), then one lemma for the writer's and one for the reader's
actions.

Some premise is needed: with as many one-block packets as
descriptors, `write_finish` moves `write_entry` onto `read_entry`, the ring
reads as empty and all unread packets are lost.  Every channel has 1792 descriptors.  shmnetd's areas of 64 KB
(1024 blocks) satisfy the premise on the sizes; an area of 128 KB (2048 blocks), as in the
test code of `hdchannel.c` and in the channels bspd makes with `bspchannel`,
does not, and depends on its users not sending that many small packets.  That is what
`[]HasRoom` says, and all that the proofs take from the sizes.

For the refinement `PacketInv` says what the layout does not: every packet from
`read_entry` on is one payload, no longer than what was reserved for it, and so is
the one that has been filled but not published.  The copy into a reservation
spares the others because the layout keeps them apart (`FillSpares`).  `Queue` is the sequence of the
packets from one position to another; it grows at its end (`QueueAppends`), loses its first
(`QueueAdvances`), and depends on nothing outside (`SameQueue`).  With that
`write_finish` is `Put`, `ReadTake` is `Take`, `ReadFinish` is `Release`, the sampling of
`write_entry` by a flush is `Flush`, setting and clearing the flag are `RequestFlush` and
`Acknowledge`, and every other step is not seen.  For `BspChannel`, whose writer and reader are
shown to be those of `HdChannel` (`SameWriter`, `SameReader`), the sampled `write_entry` is in order only
while the reader is about to jump there (`BspInv`), and looking at `write_entry`
is the step `HdFifo` does not have.

`FlushLeavesNothing` needs no layout, only the order of the three steps
(`FlushInv`): a request that finds the flag clear finds the reader outside a
flush, so `write_entry` is sampled after it, and from then until the call returns
the writer publishes nothing.

`HdShm_proofs` proves for every number of processes on both sides, of areas,
entries, pages and slots, every set of lengths and every number of tries:

* `TypeCorrect`: `[]TypeOK`.
* `AreasStayDisjoint`: `[]AreasDisjoint`.
* `UsageIsEnough`: `[]UsageCounts`.
* `DestroysOnlyUnmapped`: `DestroyedUnmapped`.
* `MappedPagesStaySafe`: `[]MappedPagesSafe`.

The assumptions are those of the module: finitely many processes, each on one
side; 0 is no id; the table's pages are in the window, host memory is not; lengths
are not 0.  Types need `Held`: between its halves a call holds an entry.
Disjointness needs that what a create has found still holds when it writes
(`ClaimValid`): nobody else is in the table, and a `Reset` only takes ids
away, which leaves a free entry free, an unused id unused and unmarked pages unmarked.  Had
reset given pages back, `Separate` would still hold, but not
`MappedPagesSafe`.  It also needs that pages of areas are marked, and that
destroying, which is for host memory only, computes pages outside the window
and clears no mark.  Usage is compared with the files that have noted an area
(`Users`): mmap adds one to each at most, unmap and release take one from
each, and what a file has noted is in the table (`Noted`), so that a new area, with
usage 0, has no users.  `Noted` is what a reset breaks, hence `wiped`; with it,
`DestroysOnlyUnmapped` follows from usage 0 at the guard.  Steps that
change none of this (`QuietSteps`, `SameUseSteps`) are treated together.  For the
mappings, the invariant says of each one, and of a map between its halves
(`HalfwayApart`), that its memory is marked and meets no area of another id
(`Apart`).  Marks of pages are never taken away, and create only takes
pages without one, so that every step keeps this (`StepApart`), also for
mappings whose area a reset has taken out of the table.  This is where it matters that
reset gives no pages back.

`BspShm_proofs` proves for every number of processes, areas, entries, slots and
tries:

* `ShmTypeInvariance`: the types.
* `TableIsExclusive`: `[]TableExclusive`.
* `CountedFaultsFindArea`: `[]FaultsFindArea`.

The lock is a counter that failed tries leave lower for ever.  The invariant counts
them: the counter is -`failed` while somebody is in the table and 1 - `failed`
otherwise, so a try that brings it to 0 is one that nobody is before,
and after the first failure nobody gets in any more (which `bspshm_lock` shows as
a flaw).  Resets, processes that give up and processes that end change neither
side of the equation.  For the faults: an
id is in the table once (`Distinct`), a file that is being released has no mapping
(`Released`), and until a reset clears an area in use, the usage of an
entry is at least the number of files that have noted it (`Counted`), what is noted is in the
table (`Noted`), and a mapping that is still counted names the entry of its area
(`Found`).

`Host_proofs` proves of `HdCtrld`, for every number of threads, calls of the tool and crashes:

* `PlayerTypeInvariance`: the types.
* `OnePlayerAtATime`, `RunningTellsOfThePlayer`, `SilentWhenDown`: `OnePlayer`,
  `RunningIsTold`, `PoweredDownIsSilent`, which make the exception `woken` themselves.

One player is not inductive, because a thread decides to start one long before it
does.  `Turns` says whose turn it is as long as no thread has slept after a power-down:
while a thread prepares, the daemon waits for it, no other thread prepares and nobody
plays; a thread that has been through `hdp_kill`, or plays, has no other beside it
(`Alone`), and then `hdp_running` is set, which is why no player serves once the decoder
is switched off.  When `woken` ends there is no thread, and `Turns` holds again with nobody
at work.

And of `BspVideo`, for every set of settings, streams and modelines and any
number of requests and reports:

* `VideoTypeInvariance`: the types.
* `EncoderAndBspAgree`: `[]ChipsAgree`, without any premise.
* `AcknowledgedIsInForce`: `[]AcknowledgedMeansSwitched`, if vdr waits
  (`Polite`) and the file has a modeline for everything (`ModelinesSuffice`).

For the first, `ChipInv`: outside a switch encoder and request have the same
timing (`ChipsInStep`), and within one the encoder has the timing that was
chosen at its beginning, which the request repeats.  For the second, `AckInv`: `last_changed`
and the daemon's counter agree outside a pass, a request that is not
acknowledged keeps vdr from the next one (`RequestOpen`), so the settings
that the switch reads again are those the pass has seen (`EncoderFollows`), and when
the counters agree the settings are those remembered (`Settled`).
`bspvideo_impatient` shows that the first premise is needed.

`BspSide_proofs` proves of `BspLife`, for any number of starts, faults and wishes of clients,

* `LifeTypeInvariance`: the types.
* `TheLivingAreSpared`: `WatchdogSparesTheLiving`.

Whether the watchdog may kill depends on what the threads before have left behind.  `LifeInv`
says, as long as no second start has come in between (`doubled`), that one BSP
at most is on its way or there (`OneBsp`), that one which is up has reported
(`Reports`), that the thread of the one before has ended or the main loop still sleeps
(`EndsAlone`, `BeginsAlone`), and that the counter and the timer say
nothing of the one before once the sleep is over (`FreshBsp`).  A status without any of this
only says that a BSP is there or has just died (`Reported`), which holds in any case.

`RbBox_proofs` proves of `FpUsb`, for every number of displays, entries and threads:

* `UsbTypeInvariance`: the types.
* `ShownDisplaysAreOpen`: `[]ShownIsOpen`.
* `PresentDisplaysStayOpen`: `PresentStaysOpen`.

A thread shows to an entry that is in use, an entry in use is open
(`UsedIsOpen`), and the cleaning passes over entries being shown to.  What is closed
is an entry the search left at 1: while it searches, all that is left lies ahead
(`ScanInv`), and when it cleans, what is left and on the bus was missed because a known
display lies before it (`CleanInv`); that needs one entry per display
(`OneEntryEach`).

Of `RbFan`, for all temperatures and minima:

* `FanTypeInvariance`: the types.
* `HotFanIsFast`: `[]HotMeansFast`.
* `FanHasSlip`: `FanDoesNotFlap`.

`Computed` ties a speed about to be set to the temperatures and the hysteresis it was
computed from; `Slip` says that a fan that is off went off at 40 and 50 degrees or below,
five below the points at which it goes on again.

Of `FpSerial`, for any number of messages with any bytes and one lost byte anywhere:

* `SerialTypeInvariance`: the types; a message being read never gets longer than the longest
  there is.
* `SerialLossIsContained`: `[]LossIsContained`, whatever the bytes are.

The line is what the panel has sent and nobody has read, in order, but for
the lost byte (`LineInv`).  Before a loss, and again after the first message that was got
right, the reader has a beginning of the message it reads (`Whole`).  After a calm loss it
skips what is left of the message it has given up (`Skips`), or has one byte less than it
counts and will take the first byte of the next message for its last (`Lacks`).  After any
other it is `Astray`: it rests in the middle of a message, or what it collects can be none
any more (`Spoils`), so that nothing is handled as sent until a begin is taken for what it is.
`AgainOK` says that what `ff` has handled again is the last message.

And of `FpIr`, for every number of bits (more than two), groups of bits and displays, all codes
and noise, and wherever a length is heard wrong:

* `IrTypeInvariance`: the types.
* `IrHeard`: `[]HeardAsSent`.

The decoders are recursive functions over the lengths of a record.  `UpTo` is induction up to a
number for a set instead of an operator, from the least number that is not in it, and `Recursion`
says that what is defined step by step exists; `Decoder`, `Encoded` and `Sums` are then
known by their steps.  For r-step codes the decoder is followed bit by bit (`NextTold`): it is in step
with what was sent (`InStep`), or, since a length it could not read, too late to complete a code in this
record (`Behind`, because each move takes the time of a bit and the record ends with the code).  Noise
that is not doubtful is shorter than a code and ends with a gap that no code has, which leaves the decoder as new
(`NoiseBefore`).  An XMP code has no long pulses and no short gaps, so no r-step code is found
in it (`NoWord`).  Of an XMP code one wrong length moves the groups next to it: `HeardReads` says
that at most one group is too high by 1, or the first two, or one is none of the 16 values; the sum of
the half shows all of these (`CheckedIs`).  The first pulses are corrected from each other, which is
why a wrong one there changes up to three sums (`SumOfPulses`).  `IrInv` then says that
nothing is left of a code when the next is sent, that what a pass has found is of the code
sent last or was read from a doubtful record (`FoundOK`), and that the codes in the ring are,
but for those, of frames sent in that order (`Traced`).

`RbKeys_proofs` proves for all tables of keys, lengths of the queue and bounds:

* `KeysTypeCorrect`: `[]KeysTypeOK`.
* `RepeatsAreOfTheLastPress`: `[]RepeatsTheLastPress`, for any number of panels.
* `OneEventOfAPress`: `[]OnePressEach`, for one panel.

For the repeats, the invariant follows a key from the panel to the event: each
repeat in the queue has the last command of its origin before it, or the last
press event if there is none, for the same key, unless `missed` says so (`RepeatsQueued`); what a
panel will compare with is the last it has queued (`KeysHeard`); and what the sender repeats of
itself is what it was sent last (`RepeatSent`).  For the presses, packets arrive in the
order of their presses (`PressesInOrder`), and `PressOnce` says of each press how far it
is: while the panel waits nothing has been queued and no event made; when it no longer waits
only the first command of the press can make one; and after half a second nothing of it is on
the way, which is where `faded` is needed.  The second panel is left out for a reason: two panels may both
hear a press, and whether the second report counts depends on which one the
sender listens to (a hazard without a property).

`ChanUse_proofs` proves of `ChanOpen`, for every number of openers, sizes, tries, resets and
runs of the BSP:

* `OpenTypeInvariance`: the types.
* `NoMappingIsLost`: `[]MappedOnce`.

`Fits` says for each place in the code which of the two areas the handle names; only
with it is it known that an area is mapped into a handle that has none.

Of `ShmNet`, for rings of every size, any number of packets and of daemons that end:

* `NetTypeInvariance`: the types.
* `PacketsAreKept`: `[]NoPacketVanishes`.

A daemon looks at a packet in the ring, writes it to its tun device and only then gives it back.
`Buffered` says that one about to be written to the channel is in the buffer.  As long as no ring
was cleared under the host (`torn`), `Readable` says that a ring has no more packets than
room, that it holds the packet a daemon has in hand, and that it is given back only when it
has been handed on; `Kept` that each packet read is in the buffer, the ring, with
the other side or dropped, and that nothing else is in ring or tun device.

And of `BspChannel`, for all sizes, what `HdChannel_proofs` has shown:

* `BspChannelLosesOnlyWhenAsked`: `LosesOnlyWhenAsked`, given `[]HasRoom`: as long as the ring
  has a descriptor to spare, which the areas of the code (2048 and 4096 blocks for 1792
  descriptors) do not ensure by their size.
* `ChanTypeInvariance`: the types.

The lemmas before these two say that the module means the same by itself as it does
when `HdChannel_proofs` has it beside `HdChannel`.

The compositions are theorems too.  In `BspSide_proofs`, of `MCBspSide`:

* `SideIsItsParts`: a behaviour of the whole is one of each part.  A step of the whole is a step
  of the part that moves and a stutter of the others; so are a daemon that is gone and a driver that nobody
  can open.
* `SideTypeInvariance`: `[]TypeOK`, from the parts' types.
* `SideIsSafe`: `TableExclusive`, `FaultsFindArea`, `MappedOnce`, `NoPacketVanishes` and
  `WatchdogSparesTheLiving`, in the composition.
* `SideLosesOnlyWhenAsked`: `LosesOnlyWhenAsked`, given `[]HasRoom`.

In `Host_proofs`, of `MCHost`, the same: `HostIsItsParts`, `HostTypeInvariance` (`[]TypeOK`), `HostIsSafe`
(`RepeatsTheLastPress`, `HotMeansFast`, `ShownIsOpen`, `HeardAsSent`, `LossIsContained`,
`ChipsAgree`, `FanDoesNotFlap`, `PresentStaysOpen`, with the exceptions these name),
`HostRunsOnePlayer` (`OnePlayer`, `RunningIsTold`, `PoweredDownIsSilent`) and, each with the condition
its part has,
`HostPressesOnce` (`OnePressEach`; one panel) and `HostAcknowledges` (`AcknowledgedMeansSwitched`;
`Polite` and `ModelinesSuffice`).  So each safety property that the runs `bspside` and `host` check is a
theorem of what they check.

**Only model-checked.**  Liveness, all of it, rests on fairness, which this prover has no rules for:
`BlockedWriterProceeds`, `EveryPacketLeaves`, `HungIsReplaced`, `KillSticks`, `NetDelivers`,
`ShiftIsDecided`, `VideoIsSet`, `EnabledPlays`, `PowerDownHappens`.  No theorem is about a
state in which the drivers' locks have failed (`raced`) or a reset has cleared areas in
use (`wiped`).

## Not modelled

* `reelfpctl`: sends one command to the panel and ends; it keeps no state.
* `hdboot`: loads the extension in one sequence, alone, before anything else runs.
* `hdfbctl`, `hdtsplay`, `cmdline`, `bspecho`, `osddump`, `ppmtofb`: tools that only use the
  drivers and channels; `hd_fb.h` and `config.h` declare.
* `frontpanel_ice.c`, `frontpanel_nc.c`, and the commands of the other panels: single
  writes of bytes without a state that anything depends on.
* Letters typed with number keys, LEDs, raw infrared over UDP, the choice between two
  input devices, options, files of status: no one else's state depends on them.
* The second fan thread that boxes with two panels have: it shares the variables of the
  first, unlocked, and any of its writes is possible at any time; nothing
  is promised of it.
* In `FpUsb`, the infrared thread, which uses an open display without its lock: the
  code promises nothing there either.
* Picture, WSS and SCART settings, register files, field synchronisation, and what
  the HD decoder's settings do: nothing comes back from them into the modelled state.
* `hd_channel_check`: all calls of it are compiled out.  `bsp_channel_check` is in `ChanOpen`.
* Threads of one process that share the library's one file: the programs
  here use the libraries from one thread.
* PCI probing, the boot flag, DMA transfers, event and debug calls, the frame buffer's
  memory; the allocator of areas on the BSP, which is not in this repository.
* Scripts and systemd units: they order the start of programs and keep nothing the
  programs share.

## What is left

In the order of what it would add: `OnePressEach` with two panels, once there is a condition
on when they hear a press; `TableIsExclusive` with the semaphore's holder
killed; `hdboot` with an
extension that restarts under open files, which would join `HdShm`'s `Reset`, `ChanOpen`
and `ShmNet`'s restart of the card; the infrared thread of `FpUsb`, with what libusb
does with a handle that is closed meanwhile.
