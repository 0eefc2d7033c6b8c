------------------------------- MODULE RbKeys -------------------------------
(***************************************************************************)
(* The way of a key in reelbox-ctrld (rb_control.c): the remote control    *)
(* and the buttons are heard by several front panels, each with a thread   *)
(* that tells a short from a long press and puts commands into a queue; one*)
(* thread takes them out, ignores the panels it is not listening to, makes *)
(* presses and repeats of them and hands these to the input device.        *)
(*                                                                         *)
(* Time is a set of flags that the clock may set: 300 ms without the vendor*)
(* code, a second since the press began, half a second since the source was*)
(* chosen, half a second between two commands.                             *)
(*                                                                         *)
(* Left out: which of two input devices gets an event, the LEDs, and the   *)
(* expansion of letters into presses of the number keys.  What some keys do*)
(* besides is in RbPower.  MinRepeats and FakeRepeats are 3 and 5 in the   *)
(* code; only their order matters.                                         *)
(***************************************************************************)
EXTENDS Naturals, Sequences, FiniteSets

CONSTANTS Panels,       \* the front panels: "serial", "usb"
          Buttons,      \* keys of the front panel (kb_kbdx)
          Remote,       \* keys of the remote control (ir_kbdx)
          Shifted,      \* the keys with KEY_SHIFT
          Single,       \* those of them without a second meaning (shift_fn)
          Repeated,     \* the keys with KEY_REPEAT
          NoKey,
          QUEUELEN,
          MinRepeats, FakeRepeats,
          MaxPresses,   \* bound on the presses
          MaxSignals,   \* bound on the packets of one press
          MaxExternal   \* bound on the commands from the network

ASSUME KeysAssumption ==
  /\ Panels \subseteq {"serial", "usb"}
  /\ Remote \cap Buttons = {} /\ NoKey \notin Remote \cup Buttons
  /\ Single \subseteq Shifted /\ Shifted \subseteq Remote /\ Shifted \cap Repeated = {}
  /\ MinRepeats \in Nat /\ FakeRepeats \in Nat /\ MinRepeats < FakeRepeats
  /\ QUEUELEN \in Nat /\ QUEUELEN > 1
  /\ MaxPresses \in Nat /\ MaxSignals \in Nat /\ MaxExternal \in Nat

VARIABLES held,     \* the key that somebody presses, and its packets so far
          air,      \* what each panel has received and not yet handled
          dec,      \* ir_state_t and the ir_cmd_t of each panel's thread
          queue,    \* code_queue between the rp of ir_send_thread and code_w
          snd,      \* the other variables of ir_send_thread
          external, \* how many commands came from the network
          pressed,  \* the key of the last press event, for each origin
          repeated, \* the key of a repeat after that, if there was one
          missed,   \* history: see RepeatsTheLastPress
          events,   \* history: press events for each press
          crossed,  \* history: presses of a key that can be shifted which a
                    \* panel heard before it was done with another such key
          faded     \* history: a panel heard nothing during a press

outVars == <<pressed, repeated, missed, events>>
keyHistory == <<crossed, faded>>
keyVars == <<held, air, dec, queue, snd, external, outVars, keyHistory>>
Presses == 1..MaxPresses

(* A command; odd is history: a repeat of a key that never was pressed.    *)
Nothing == [key |-> NoKey, press |-> 0, repeat |-> FALSE, from |-> "",
            odd |-> FALSE]

(* The network counts as the panel at the serial line.                     *)
Origins == Panels \cup {"udp"}
Source(from) == IF from = "udp" THEN "serial" ELSE from

(* The tables ir_kbdx and kb_kbdx.  What counts of a key is what its flags *)
(* and its table make of it.                                               *)
ir_kbdx == [k \in Remote |-> [shift |-> k \in Shifted, repeat |-> k \in Repeated,
                              second |-> k \in Shifted \ Single]]
kb_kbdx == [k \in Buttons |-> [shift |-> FALSE, repeat |-> k \in Repeated,
                               second |-> FALSE]]
find_key(k) == IF k \in Remote THEN ir_kbdx[k] ELSE kb_kbdx[k]

(* main and server_thread: the threads start with cleared state.           *)
KeysInit ==
  /\ held = [key |-> NoKey, press |-> 0, n |-> 0]
  /\ air = [p \in Panels |-> Nothing]
  /\ dec = [p \in Panels |-> [state |-> "idle", reel |-> "no", long |-> FALSE,
                              cmd |-> Nothing]]
  /\ queue = << >>
  /\ snd = [count |-> 0, source |-> "", window |-> FALSE, gap |-> TRUE,
            cmd |-> Nothing]
  /\ external = 0
  /\ pressed = [o \in Origins |-> NoKey] /\ repeated = [o \in Origins |-> NoKey]
  /\ missed = [o \in Origins |-> FALSE]
  /\ events = [n \in Presses |-> 0] /\ crossed = {} /\ faded = FALSE

-----------------------------------------------------------------------------
(* The user.  A key is sent until it is released; a panel may miss any     *)
(* packet.  The same key can be pressed again at once.                     *)
Press(k) ==
  /\ held.key = NoKey /\ held.press < MaxPresses
  /\ \A p \in Panels : air[p] = Nothing
  /\ held' = [key |-> k, press |-> held.press + 1, n |-> 0]
  /\ UNCHANGED <<air, dec, queue, snd, external, outVars, keyHistory>>

Signal ==
  /\ held.key # NoKey /\ held.n < MaxSignals
  /\ \A p \in Panels : air[p] = Nothing
  /\ held' = [held EXCEPT !.n = @ + 1]
  /\ \E S \in SUBSET Panels :
       air' = [p \in Panels |->
                 IF p \in S THEN [key |-> held.key, press |-> held.press,
                                  repeat |-> held.n > 0, from |-> p, odd |-> FALSE]
                 ELSE Nothing]
  /\ UNCHANGED <<dec, queue, snd, external, outVars, keyHistory>>

ReleaseKey ==
  /\ held.key # NoKey /\ held' = [held EXCEPT !.key = NoKey]
  /\ UNCHANGED <<air, dec, queue, snd, external, outVars, keyHistory>>

(* The clock.                                                              *)
Tick(p) ==
  /\ \/ /\ dec[p].reel = "fresh" /\ air[p] = Nothing
        /\ dec' = [dec EXCEPT ![p].reel = "old"]
     \/ ~dec[p].long /\ dec[p].state = "wait" /\ dec' = [dec EXCEPT ![p].long = TRUE]
  /\ UNCHANGED <<held, air, queue, snd, external, outVars, keyHistory>>

WindowOver ==
  /\ snd.window /\ snd' = [snd EXCEPT !.window = FALSE]
  /\ UNCHANGED <<held, air, dec, queue, external, outVars, keyHistory>>

(* Half a second between two commands.  In the middle of a press that is a *)
(* gap in the reception, but for a key that may become a long press.       *)
Pause ==
  /\ ~snd.gap /\ snd' = [snd EXCEPT !.gap = TRUE]
  /\ faded' = (\/ faded \/ queue # << >> \/ \E p \in Panels : air[p] # Nothing
               \/ held.key \notin Shifted \cup {NoKey})
  /\ UNCHANGED <<held, air, dec, queue, external, outVars, crossed>>

-----------------------------------------------------------------------------
(* The writer gets to where the reader is.                                 *)
Laps == Len(queue) = QUEUELEN - 1

(* Slip: the index of the writer does not wrap.                            *)
put_codeUnwrapped(c) ==
  queue' = Append(queue, c) /\ UNCHANGED missed

(* put_code: under its mutex.  It does not look at where the reader is: the*)
(* command that makes code_w equal to it empties the queue.                *)
put_code(c) ==
  /\ queue' = IF Laps THEN << >> ELSE Append(queue, c)
  /\ missed' = [o \in Origins |-> missed[o] \/ Laps]

(* What a panel knows after a packet: cmd_last and cmd_start_shift are the *)
(* key of the last command.                                                *)
Knows(p, d, c) == dec' = [dec EXCEPT ![p] = [d EXCEPT !.cmd = c]]

(* Slip: a key whose first packet was lost stays a repeat.                 *)
RepeatsAsSent(d, c) == c.repeat

(* "Clear repeat state if initial packet gets lost".                       *)
Repeats(d, c) == c.repeat /\ c.key = d.cmd.key

(* A key that shift does not apply to goes at once.                        *)
HandleIdle(p, d, c) ==
  /\ d.state = "idle"
  /\ IF find_key(c.key).shift
     THEN /\ Knows(p, [d EXCEPT !.state = "wait"], c)
          /\ UNCHANGED <<queue, missed>>
     ELSE /\ Knows(p, d, c)
          /\ put_code([c EXCEPT !.repeat = Repeats(d, c)])

(* Slip: that the press was a long one is not remembered.                  *)
HandleWaitOn(p, d, c) ==
  /\ d.state = "wait" /\ c.key = d.cmd.key
  /\ Knows(p, d, c)
  /\ IF d.long THEN put_code([c EXCEPT !.repeat = FALSE])
     ELSE UNCHANGED <<queue, missed>>

(* Long enough: the second meaning of the key, once.  A key without one    *)
(* waits on.                                                               *)
HandleWait(p, d, c) ==
  /\ d.state = "wait" /\ c.key = d.cmd.key
  /\ IF d.long /\ find_key(c.key).second
     THEN /\ Knows(p, [d EXCEPT !.state = "release", !.long = FALSE], c)
          /\ put_code([c EXCEPT !.repeat = FALSE])
     ELSE Knows(p, d, c) /\ UNCHANGED <<queue, missed>>

(* Another key comes in between: the one that waited is forgotten, and the *)
(* new one goes at once, whether shift applies to it or not, with its      *)
(* repeat flag even if its first packet was lost.                          *)
Changes(d, c) == d.state \in {"wait", "release"} /\ c.key # d.cmd.key
HandleChange(p, d, c) ==
  /\ Changes(d, c)
  /\ Knows(p, [d EXCEPT !.state = "idle", !.long = FALSE], c)
  /\ put_code([c EXCEPT !.odd = c.repeat])

HandleRelease(p, d, c) ==
  /\ d.state = "release" /\ c.key = d.cmd.key
  /\ Knows(p, d, c) /\ UNCHANGED <<queue, missed>>

(* handle_ir_key: a key of the remote control comes after the vendor code, *)
(* here in one packet.                                                     *)
handle_ir_key(p, c) ==
  IF c.key \in Buttons THEN dec[p]
  ELSE [dec[p] EXCEPT !.reel = "fresh"]

(* fp_serial_thread and fp_usb_thread: a packet, then handle_key_timing.   *)
HandlePacket(p) ==
  LET c == air[p]
      d == handle_ir_key(p, c)
  IN
  /\ c # Nothing /\ air' = [air EXCEPT ![p] = Nothing]
  /\ \/ HandleIdle(p, d, c) \/ HandleWait(p, d, c)
     \/ HandleChange(p, d, c) \/ HandleRelease(p, d, c)
  /\ crossed' = crossed \cup {n \in {c.press} : Changes(d, c) /\ find_key(c.key).shift}
  /\ UNCHANGED <<held, snd, external, pressed, repeated, events, faded>>

(* Slip: the vendor code is forgotten, but not what the key waits for.     *)
SilenceWaits(p) ==
  /\ air[p] = Nothing /\ dec[p].reel = "old"
  /\ dec' = [dec EXCEPT ![p].reel = "no"]
  /\ UNCHANGED <<held, air, queue, snd, external, outVars, keyHistory>>

(* No packet for 300 ms: a press that was not long enough is a short one,  *)
(* with the flags of its last packet.                                      *)
Silence(p) ==
  LET d == dec[p] IN
  /\ air[p] = Nothing /\ d.reel = "old"
  /\ dec' = [dec EXCEPT ![p].reel = "no", ![p].state = "idle", ![p].long = FALSE]
  /\ IF d.state = "wait" THEN put_code(d.cmd) ELSE UNCHANGED <<queue, missed>>
  /\ faded' = (faded \/ (held.key # NoKey /\ d.cmd.press = held.press))
  /\ UNCHANGED <<held, air, snd, external, pressed, repeated, events, crossed>>

(* external_send_raw: a key by its name, once.                             *)
ExternalKey(k) ==
  /\ external < MaxExternal /\ external' = external + 1
  /\ put_code([Nothing EXCEPT !.key = k, !.from = "udp"])
  /\ UNCHANGED <<held, air, dec, snd, pressed, repeated, events, keyHistory>>

-----------------------------------------------------------------------------
(* sendInputEvent: a press is followed by a release at once; the first     *)
(* repeats, and those of a key without KEY_REPEAT, are ignored.            *)
Value(c, count) ==
  CASE count = 0 -> "press"
    [] count > MinRepeats /\ find_key(c.key).repeat -> "repeat"
    [] OTHER -> "none"

sendInputEvent(c, count) ==
  CASE Value(c, count) = "press" ->
         /\ pressed' = [pressed EXCEPT ![c.from] = c.key]
         /\ repeated' = [repeated EXCEPT ![c.from] = NoKey]
         /\ events' = [n \in Presses |-> events[n] + IF n = c.press THEN 1 ELSE 0]
    [] Value(c, count) = "repeat" ->
         /\ repeated' = [repeated EXCEPT ![c.from] = c.key]
         /\ UNCHANGED <<pressed, events>>
    [] OTHER -> UNCHANGED <<pressed, repeated, events>>

Counted(n) == IF n > FakeRepeats THEN n ELSE n + 1

Ignore(c) == snd.window /\ Source(c.from) # snd.source

(* Reset repeat count.  For the buttons only time does it.                 *)
Count(c) == IF snd.gap \/ (c.key \in Remote /\ ~c.repeat) THEN 0 ELSE snd.count

(* ir_send_thread takes a command.  For half a second it listens to the    *)
(* source of the first one only.                                           *)
TakeCode ==
  LET c == Head(queue) IN
  /\ queue # << >> /\ queue' = Tail(queue)
  /\ IF Ignore(c)
     THEN /\ missed' = [missed EXCEPT ![c.from] = @ \/ ~c.repeat \/ c.odd]
          /\ UNCHANGED <<snd, pressed, repeated, events>>
     ELSE /\ sendInputEvent(c, Count(c))
          /\ snd' = [count |-> Counted(Count(c)), cmd |-> c, window |-> TRUE,
                     source |-> Source(c.from), gap |-> FALSE]
          /\ missed' = [missed EXCEPT ![c.from] =
                          Count(c) # 0 /\ (@ \/ c.odd \/ c.key \in Buttons)]
  /\ UNCHANGED <<held, air, dec, external, keyHistory>>

(* Nothing to take: a key that is held is repeated faster than it is sent. *)
FakeRepeat ==
  /\ queue = << >>
  /\ ~snd.gap /\ snd.count > FakeRepeats
  /\ sendInputEvent(snd.cmd, snd.count)
  /\ snd' = [snd EXCEPT !.count = Counted(@)]
  /\ UNCHANGED <<held, air, dec, queue, external, missed, keyHistory>>

-----------------------------------------------------------------------------
User == \/ \E k \in Remote \cup Buttons : Press(k)
        \/ \E k \in Remote : ExternalKey(k)
        \/ Signal \/ ReleaseKey
PanelThread(p) == HandlePacket(p) \/ Silence(p)
KeyThreads == \/ (\E p \in Panels : PanelThread(p))
              \/ TakeCode \/ FakeRepeat
KeyClock == WindowOver \/ Pause \/ \E p \in Panels : Tick(p)
KeysNext == User \/ KeyThreads \/ KeyClock

KeysSpec == KeysInit /\ [][KeysNext]_keyVars

-----------------------------------------------------------------------------
(* Everything has a value of its type.                                     *)
KeysTypeOK ==
  LET keys == Remote \cup Buttons \cup {NoKey}
      cmds == [key : keys, press : 0..MaxPresses, repeat : BOOLEAN,
               from : Origins \cup {""}, odd : BOOLEAN]
  IN
  /\ held \in [key : keys, press : 0..MaxPresses, n : 0..MaxSignals]
  /\ air \in [Panels -> cmds]
  /\ dec \in [Panels -> [state : {"idle", "wait", "release"}, long : BOOLEAN,
                         reel : {"no", "fresh", "old"}, cmd : cmds]]
  /\ queue \in Seq(cmds) /\ Len(queue) < QUEUELEN
  /\ snd \in [count : 0..(FakeRepeats + 1), source : {"serial", "usb", ""},
              window : BOOLEAN, gap : BOOLEAN, cmd : cmds]
  /\ pressed \in [Origins -> keys] /\ repeated \in [Origins -> keys]
  /\ missed \in [Origins -> BOOLEAN]
  /\ crossed \subseteq 0..MaxPresses /\ faded \in BOOLEAN
  /\ events \in [Presses -> Nat] /\ external \in 0..MaxExternal

(* A press that one panel hears is at most one press event, short or long  *)
(* and never both, however long the key is held - unless a gap in the      *)
(* reception makes two presses of it, or a panel that was not yet done with*)
(* another key (300 ms) handed on the short meaning at once and then waits *)
(* for the long one.                                                       *)
OnePressEach == ~faded => \A n \in Presses \ crossed : events[n] <= 1

(* What is repeated is the key that was pressed last at that panel, also   *)
(* when it missed the first packets of the key.  Exceptions: the first     *)
(* packet was missed after a key that can be shifted, came from the source *)
(* that was not listened to or was lost in a full queue, and buttons, for  *)
(* which the count goes on for half a second.                              *)
RepeatsTheLastPress ==
  \A o \in Origins : missed[o] \/ repeated[o] \in {NoKey, pressed[o]}

(* A press that may become a long one is decided: no panel waits for ever. *)
ShiftIsDecided ==
  \A p \in Panels : dec[p].state = "wait" ~> dec[p].state # "wait"
=============================================================================
