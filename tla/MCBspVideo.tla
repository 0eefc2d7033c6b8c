----------------------------- MODULE MCBspVideo -----------------------------
(* Instances of BspVideo for TLC.                                          *)
EXTENDS BspVideo

(* One setting of each main mode, and two that differ in one option only.  *)
MCSettings ==
  { [main |-> "SD",   norm |-> "PAL50_60", res |-> 0, rate |-> "AUTO1"],
    [main |-> "SDHD", norm |-> "PAL50_60", res |-> 2, rate |-> "AUTO1"],
    [main |-> "PC",   norm |-> "PAL50_60", res |-> 1, rate |-> "AUTO1"],
    [main |-> "PC",   norm |-> "PAL50_60", res |-> 1, rate |-> "60"] }

(* PAL and NTSC broadcasts and a film in high definition.                  *)
MCStreams ==
  { [height |-> 576,  fps |-> 50, interlace |-> TRUE],
    [height |-> 480,  fps |-> 30, interlace |-> TRUE],
    [height |-> 1080, fps |-> 50, interlace |-> TRUE] }

(* No 30 Hz modes, and none of 67 Hz: those fall back to 60 Hz.            *)
MCModelines ==
  { <<720, 576, 50, TRUE>>, <<720, 480, 60, TRUE>>, <<1920, 1080, 50, TRUE>>,
    <<1280, 720, 50, FALSE>>, <<1280, 720, 60, FALSE>>,
    <<800, 600, 75, FALSE>>, <<800, 600, 60, FALSE>> }

(* The modelines file has a timing for everything that can be asked for.   *)
ASSUME EveryModeHasATiming ==
  \A s \in MCSettings, a \in MCStreams \cup {Default} :
    {Timing(s, a), At60(Timing(s, a))} \cap MCModelines # {}
=============================================================================
