------------------------------ MODULE BspVideo ------------------------------
(***************************************************************************)
(* The video mode management of bspd (videomodes.c).  Three parties share  *)
(* the bspd_data_t structure without a lock: vdr writes the settings it    *)
(* wants into video_mode and increments video_mode.changed; the BSP        *)
(* reports the stream it decodes in video_attributes and takes its timing  *)
(* from hw_video_mode; the daemon polls both "changed" counters every      *)
(* 50 ms and, when one moved, reprograms the FS453 ("Focus") encoder chip  *)
(* and hands a new timing to the BSP, which takes seconds.                 *)
(*                                                                         *)
(* A copy of one of the structures is one step, and so is the writing of   *)
(* its settings by vdr or the BSP; the increment of "changed" is another.  *)
(* Picture, SCART and WSS controls are not modelled.                       *)
(***************************************************************************)
EXTENDS Naturals

CONSTANTS Settings,    \* what vdr asks for: [main, norm, res, rate]
          Streams,     \* what the BSP reports: [height, fps, interlace]
          Modelines,   \* the timings in the modelines file
          NoTiming,    \* no timing programmed yet
          Off,         \* video output switched off
          Polite,      \* vdr waits for last_changed before it asks again
          MaxRequests, MaxReports   \* bounds on the two "changed" counters

ASSUME VideoAssumption ==
  /\ Settings # {} /\ Streams # {}
  /\ NoTiming \notin Modelines /\ Off \notin Modelines
  /\ Polite \in BOOLEAN
  /\ MaxRequests \in Nat \ {0} /\ MaxReports \in Nat

VARIABLES
  vm, vmChanged,        \* video_mode: the settings, and .changed
  lastChanged,          \* video_mode.last_changed, the acknowledgement
  asking,               \* vdr wrote settings and did not count them yet
  va, vaChanged,        \* video_attributes[0] and .changed
  reporting,            \* the BSP wrote attributes and did not count them yet
  lastVm, lastVmChanged,  \* last_vm
  lastVa, lastVaChanged,  \* last_va[0]
  pc, return,           \* where the daemon is, and where set_video_mode ends
  sampled,              \* vm_changed or va_changed
  force,                \* video_check_settings(1)
  snapshot,             \* va[0] of video_check_attributes
  need,                 \* the argument of set_video_mode
  chosen,               \* the settings and the timing it works with
  chip,                 \* what the FS453 is programmed to
  hw,                   \* hw_video_mode: [set, mode, timing]
  shown                 \* the timing the BSP puts out

settings == <<vm, vmChanged, asking>>
stream == <<va, vaChanged, reporting>>
last == <<lastVm, lastVmChanged, lastVa, lastVaChanged>>
devices == <<chip, hw, shown>>
control == <<pc, return, sampled, force, snapshot, need, chosen>>
videoVars == <<settings, lastChanged, stream, last, control, devices>>

-----------------------------------------------------------------------------
(* The timing for given settings and a given stream, <<width, height, fps, *)
(* interlaced>> (first half of set_video_mode).                            *)

SdTiming(s, a) ==
  IF /\ a.height = 480 \/ a.fps \in {30, 60} \/ s.norm = "NTSC"
     /\ s.norm # "PAL50"
    THEN <<720, 480, 60, TRUE>>
    ELSE <<720, 576, a.fps, TRUE>>

NativeTiming(a) ==
  CASE a.height <= 480 -> <<720, 480, a.fps, a.interlace>>
    [] a.height > 480 /\ a.height <= 576 -> <<720, 576, a.fps, a.interlace>>
    [] a.height > 576 /\ a.height <= 720 -> <<1280, 720, a.fps, FALSE>>
    [] a.height > 720 /\ a.height <= 1088 -> <<1920, 1080, a.fps, TRUE>>
    [] OTHER -> <<720, 576, a.fps, TRUE>>

SdhdTiming(s, a) ==
  IF s.res > 0 /\ a.interlace /\ a.height \in {480, 576}
    THEN IF s.res = 2 THEN <<1280, 720, a.fps, FALSE>>
                      ELSE <<1920, 1080, a.fps, TRUE>>
    ELSE NativeTiming(a)

PcRate(s, a) ==
  CASE s.rate = "AUTO1" -> IF a.fps = 50 THEN 75 ELSE a.fps
    [] s.rate = "AUTO3" -> IF a.fps = 50 THEN 67 ELSE a.fps
    [] s.rate = "50" -> 50
    [] s.rate = "60" -> 60
    [] s.rate = "67" -> 67
    [] s.rate = "75" -> 75
    [] OTHER -> a.fps

PcTiming(s, a) ==
  LET size == <<<<640, 480>>, <<800, 600>>, <<1024, 768>>, <<1280, 720>>>>
  IN  <<size[s.res + 1][1], size[s.res + 1][2], PcRate(s, a), FALSE>>

Timing(s, a) ==
  CASE s.main = "SD" -> SdTiming(s, a)
    [] s.main = "SDHD" -> SdhdTiming(s, a)
    [] s.main = "PC" -> PcTiming(s, a)

At60(t) == <<t[1], t[2], 60, t[4]>>

(* video_search_modeline, first for the frame rate, then for 60 Hz: the    *)
(* modelines found, at most one.                                           *)
Search(t) == IF t \in Modelines THEN {t} ELSE {At60(t)} \cap Modelines

(* The daemon's memory is cleared; the settings come from vdr's setup      *)
(* file and the stream is taken for 576i50 (video_default).                *)
NoAttributes == [height |-> 0, fps |-> 50, interlace |-> FALSE]
Default == [height |-> 576, fps |-> 50, interlace |-> TRUE]
Blank == [main |-> "SD", norm |-> "PAL50_60", res |-> 0, rate |-> "AUTO1"]
Unprogrammed == [wanted |-> Blank, timing |-> NoTiming]

VideoInit ==
  /\ vm \in Settings /\ vmChanged = 1 /\ lastChanged = 0
  /\ asking = FALSE
  /\ va = Default /\ vaChanged = 0
  /\ reporting = FALSE
  /\ lastVm = Blank /\ lastVmChanged = 0
  /\ lastVa = NoAttributes /\ lastVaChanged = 0
  /\ pc = "attributes" /\ return = "mode" /\ sampled = 0 /\ force = TRUE
  /\ snapshot = NoAttributes /\ need = 0
  /\ chosen = Unprogrammed
  /\ chip = Unprogrammed
  /\ hw = [set |-> FALSE, mode |-> "OFF", timing |-> NoTiming]
  /\ shown = NoTiming

-----------------------------------------------------------------------------
(* vdr.                                                                    *)
Ask(s) ==
  /\ ~asking /\ vmChanged < MaxRequests
  /\ Polite => lastChanged = vmChanged
  /\ vm' = s /\ asking' = TRUE
  /\ UNCHANGED <<vmChanged, lastChanged, stream, last, control, devices>>

CountRequest ==
  /\ asking
  /\ vmChanged' = vmChanged + 1 /\ asking' = FALSE
  /\ UNCHANGED <<vm, lastChanged, stream, last, control, devices>>

(* The BSP: a new stream, and the timing it is told to use.                *)
Report(a) ==
  /\ ~reporting /\ vaChanged < MaxReports
  /\ va' = a /\ reporting' = TRUE
  /\ UNCHANGED <<vaChanged, settings, lastChanged, last, control, devices>>

CountReport ==
  /\ reporting
  /\ vaChanged' = vaChanged + 1 /\ reporting' = FALSE
  /\ UNCHANGED <<va, settings, lastChanged, last, control, devices>>

TakeTiming ==
  /\ hw.set
  /\ shown' = IF hw.mode = "OFF" THEN Off ELSE hw.timing
  /\ hw' = [hw EXCEPT !.set = FALSE]
  /\ UNCHANGED <<settings, lastChanged, stream, last, control, chip>>

-----------------------------------------------------------------------------
(* The daemon: video_check_attributes, then video_check_mode.              *)

SampleAttributes ==
  /\ pc = "attributes"
  /\ sampled' = vaChanged
  /\ pc' = IF vaChanged # lastVaChanged THEN "copyAttributes" ELSE "mode"
  /\ UNCHANGED <<settings, lastChanged, stream, last, devices,
                 return, force, snapshot, need, chosen>>

(* video_check_res_change: only the SDHD modes follow the stream.          *)
ResolutionChanged(a) ==
  /\ vm.main = "SDHD"
  /\ lastVa.height # 0
  /\ a.height # lastVa.height \/ a.interlace # lastVa.interlace

(* The rate in settings[2], 0 before the first download.                   *)
HwRate == IF hw.timing = NoTiming THEN 0 ELSE hw.timing[3]

SwitchFor(a) ==
  CASE force \/ ResolutionChanged(a) -> 1
    [] OTHER -> IF a.fps # lastVa.fps /\ HwRate # a.fps THEN 2 ELSE 0

CopyAttributes ==
  /\ pc = "copyAttributes"
  /\ snapshot' = va
  /\ need' = SwitchFor(va)
  /\ pc' = IF SwitchFor(va) = 0 THEN "keepAttributes" ELSE "select"
  /\ return' = "keepAttributes"
  /\ UNCHANGED <<settings, lastChanged, stream, last, devices, sampled, force,
                 chosen>>

KeepAttributes ==
  /\ pc = "keepAttributes"
  /\ lastVa' = snapshot /\ lastVaChanged' = sampled
  /\ snapshot' = NoAttributes
  /\ pc' = "mode"
  /\ UNCHANGED <<settings, lastChanged, stream, devices, lastVm,
                 lastVmChanged, return, sampled, force, need, chosen>>

SampleMode ==
  /\ pc = "mode"
  /\ sampled' = vmChanged
  /\ IF vmChanged # lastVmChanged \/ force
       THEN pc' = "compare" /\ force' = force
       ELSE pc' = "attributes" /\ force' = FALSE
  /\ UNCHANGED <<settings, lastChanged, stream, last, devices,
                 return, snapshot, need, chosen>>

(* Slip: a new frame rate alone is not noticed                             *)
(* (AcknowledgedMeansSwitched).                                            *)
CompareModeNoRate ==
  /\ pc = "compare"
  /\ need' = 1 /\ return' = "keepMode"
  /\ pc' = IF force \/ [vm EXCEPT !.rate = ""] # [lastVm EXCEPT !.rate = ""]
             THEN "select" ELSE "keepMode"
  /\ UNCHANGED <<settings, lastChanged, stream, last, devices,
                 sampled, force, snapshot, chosen>>

(* The settings of the moment against those of the last switch.            *)
CompareMode ==
  /\ pc = "compare"
  /\ need' = 1 /\ return' = "keepMode"
  /\ pc' = IF force \/ vm # lastVm THEN "select" ELSE "keepMode"
  /\ UNCHANGED <<settings, lastChanged, stream, last, devices,
                 sampled, force, snapshot, chosen>>

(* Slip: the request is remembered but not acknowledged                    *)
(* (RequestsAcknowledged).                                                 *)
KeepModeSilently ==
  /\ pc = "keepMode"
  /\ lastVm' = vm /\ lastVmChanged' = sampled
  /\ force' = FALSE
  /\ pc' = "attributes"
  /\ UNCHANGED <<settings, lastChanged, stream, devices, lastVa,
                 lastVaChanged, return, sampled, snapshot, need, chosen>>

(* The settings, as they are now, become last_vm under the counter seen at *)
(* the start, and that counter is acknowledged.                            *)
KeepMode ==
  /\ pc = "keepMode"
  /\ lastVm' = vm /\ lastVmChanged' = sampled
  /\ lastChanged' = sampled
  /\ force' = FALSE
  /\ pc' = "attributes"
  /\ UNCHANGED <<settings, stream, devices, lastVa, lastVaChanged,
                 return, sampled, snapshot, need, chosen>>

-----------------------------------------------------------------------------
(* set_video_mode, called from either check.                               *)

(* Nothing to do, or no modeline at all: return without a switch.          *)
NoSwitch ==
  \/ need = 2 /\ Timing(vm, va)[3] = HwRate
  \/ Search(Timing(vm, va)) = {}

SkipSwitch ==
  /\ pc = "select" /\ NoSwitch
  /\ pc' = return
  /\ UNCHANGED <<settings, lastChanged, stream, last, devices,
                 return, sampled, force, snapshot, need, chosen>>

(* The timing is chosen from the settings and the attributes of the        *)
(* moment, and the BSP told to switch its output off.                      *)
Select ==
  /\ pc = "select" /\ ~NoSwitch
  /\ \E t \in Search(Timing(vm, va)) :
       chosen' = [wanted |-> vm, timing |-> t]
  /\ hw' = [hw EXCEPT !.set = TRUE, !.mode = "OFF"]
  /\ pc' = "focus"
  /\ UNCHANGED <<settings, lastChanged, stream, last, chip, shown,
                 return, sampled, force, snapshot, need>>

(* The BSP has switched off, or did not answer within 5 s: program the     *)
(* encoder (video_setup_focus).                                            *)
SetupFocus ==
  /\ pc = "focus"
  /\ chip' = chosen
  /\ pc' = "settings"
  /\ UNCHANGED <<settings, lastChanged, stream, last, hw, shown,
                 return, sampled, force, snapshot, need, chosen>>

(* Slip: the BSP is told to use the timing it had (ChipsAgree).            *)
DownloadNothing ==
  /\ pc = "settings"
  /\ pc' = "request"
  /\ UNCHANGED <<settings, lastChanged, stream, last, devices,
                 return, sampled, force, snapshot, need, chosen>>

(* video_set_bsp15 for the new mode: the settings, then mode and request.  *)
DownloadSettings ==
  /\ pc = "settings"
  /\ hw' = [hw EXCEPT !.timing = chosen.timing]
  /\ pc' = "request"
  /\ UNCHANGED <<settings, lastChanged, stream, last, chip, shown,
                 return, sampled, force, snapshot, need, chosen>>

RequestTiming ==
  /\ pc = "request"
  /\ hw' = [hw EXCEPT !.set = TRUE, !.mode = "CUSTOM"]
  /\ pc' = return /\ chosen' = Unprogrammed
  /\ UNCHANGED <<settings, lastChanged, stream, last, chip, shown,
                 return, sampled, force, snapshot, need>>

-----------------------------------------------------------------------------
CheckSettings ==
  \/ SampleAttributes \/ CopyAttributes \/ KeepAttributes
  \/ SampleMode \/ CompareMode \/ KeepMode
  \/ SkipSwitch \/ Select \/ SetupFocus \/ DownloadSettings \/ RequestTiming

VideoNext ==
  \/ \E s \in Settings : Ask(s)
  \/ CountRequest
  \/ \E a \in Streams : Report(a)
  \/ CountReport
  \/ TakeTiming
  \/ CheckSettings

VideoSpec == VideoInit /\ [][VideoNext]_videoVars

(* The daemon's loop never stops, and neither does that of the BSP; vdr    *)
(* and the BSP finish what they have begun to write.                       *)
VideoFairSpec ==
  /\ VideoSpec
  /\ WF_videoVars(CheckSettings) /\ WF_videoVars(TakeTiming)
  /\ WF_videoVars(CountRequest) /\ WF_videoVars(CountReport)

-----------------------------------------------------------------------------
Programmed == [wanted : Settings \cup {Blank},
               timing : Modelines \cup {NoTiming}]

VideoTypeOK ==
  /\ vm \in Settings /\ va \in Streams \cup {Default}
  /\ lastVm \in Settings \cup {Blank}
  /\ {lastVa, snapshot} \subseteq Streams \cup {Default, NoAttributes}
  /\ {vmChanged, lastChanged, lastVmChanged} \subseteq 0 .. MaxRequests
  /\ {vaChanged, lastVaChanged} \subseteq 0 .. MaxReports
  /\ sampled \in Nat
  /\ {asking, reporting, force, hw.set} \subseteq BOOLEAN
  /\ pc \in {"attributes", "copyAttributes", "keepAttributes", "mode",
             "compare", "keepMode", "select", "focus", "settings", "request"}
  /\ return \in {"mode", "keepAttributes", "keepMode"}
  /\ need \in {0, 1, 2}
  /\ {chip, chosen} \subseteq Programmed
  /\ hw.mode \in {"OFF", "CUSTOM"}
  /\ hw.timing \in Modelines \cup {NoTiming}
  /\ shown \in Modelines \cup {NoTiming, Off}

(* bspshm_user_structs.h says of last_changed "== .changed when major mode *)
(* switch done": once the counters agree, the encoder works with the       *)
(* settings in video_mode.                                                 *)
AcknowledgedMeansSwitched ==
  lastChanged = vmChanged /\ ~asking => chip.wanted = vm

(* Outside set_video_mode, a BSP that has taken the last request puts out  *)
(* the timing the encoder expects, whatever was answered late or not at    *)
(* all before.                                                             *)
Switching == pc \in {"focus", "settings", "request"}
ChipsAgree == ~Switching /\ ~hw.set => shown = chip.timing

(* Every request of vdr is acknowledged (the loop in bsp_daemon).          *)
RequestsAcknowledged ==
  \A n \in 1 .. MaxRequests : vmChanged >= n ~> lastChanged >= n
=============================================================================
