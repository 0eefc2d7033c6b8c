------------------------------ MODULE ChanOpen ------------------------------
(***************************************************************************)
(* Creating, opening, closing and opening again of a channel (bspchannel.c *)
(* and hdchannel.c, which have the same functions).  A channel has two     *)
(* areas of shared memory, for control and for data.  One process creates  *)
(* it, others open it; a handle holds a mapping of each area.  Areas vanish*)
(* when the driver is reset, and come back when the channel is created     *)
(* again, by the BSP in its next run or by a daemon that starts again.     *)
(*                                                                         *)
(* A channel of the HD card behaves like one in main memory here:          *)
(* hd_channel_check is compiled out of the functions that would call it.   *)
(* What goes through an open channel is in HdChannel and BspChannel, how   *)
(* areas are found and mapped in HdShm and BspShm.                         *)
(***************************************************************************)
EXTENDS Naturals

CONSTANTS Locations,       \* where the channel may be: "MAIN" or "BSP"
          Creator, Openers,
          Sizes,           \* sizes of the data area
          Tries,           \* the timeout of bsp_channel_check
          MaxResets, MaxGenerations

ASSUME OpenAssumption ==
  /\ Locations \subseteq {"MAIN", "BSP"} /\ Creator \notin Openers
  /\ Sizes \subseteq Nat \ {0} /\ Sizes # {} /\ Tries \in Nat
  /\ {MaxResets, MaxGenerations} \subseteq Nat

VARIABLES location,    \* of the channel: its creator is on that side
          control,     \* the state in the control area, "none" without one
          data,        \* the size of the data area, 0 without one
          generation,  \* bspd->generation, the run of the program on the BSP
          resets,
          wanted,      \* the size that the creator asks for
          doing,       \* what each process does next
          checking,    \* it is in bsp_channel_check, not in bsp_channel_open
          left,        \* tries left in bsp_channel_check
          handle,      \* its two areas: "null", "open" or "freed"
          mappings     \* how many areas it has mapped

openVars == <<location, control, data, generation, resets, wanted, doing,
              checking, left, handle, mappings>>
shared == <<location, control, data, generation, resets, wanted>>
local == <<checking, left>>
Users == Openers \cup {Creator}

NoHandle == [control |-> "null", data |-> "null", generation |-> 0]

OpenInit ==
  /\ location \in Locations
  /\ control = "none" /\ data = 0 /\ generation = 0 /\ resets = 0
  /\ wanted = CHOOSE size \in Sizes : TRUE
  /\ doing = [p \in Users |-> "out"] /\ checking = [p \in Users |-> FALSE]
  /\ left = [p \in Users |-> 0]
  /\ handle = [p \in Users |-> NoHandle]
  /\ mappings = [p \in Users |-> 0]

Does(p, what) == doing' = [doing EXCEPT ![p] = what]
Maps(p, area) == /\ handle' = [handle EXCEPT ![p][area] = "open"]
                 /\ mappings' = [mappings EXCEPT ![p] = @ + 1]
Forgets(p) == handle' = [handle EXCEPT ![p] = NoHandle]

-----------------------------------------------------------------------------
(* The driver forgets all areas.                                           *)
ResetDriver ==
  /\ resets < MaxResets /\ resets' = resets + 1
  /\ control' = "none" /\ data' = 0
  /\ UNCHANGED <<location, generation, wanted, doing, local, handle, mappings>>

(* A process starts: the kernel has taken the mappings of the one before.  *)
Fresh(p) == /\ Does(p, "out") /\ Forgets(p)
            /\ mappings' = [mappings EXCEPT ![p] = 0]

(* The BSP begins another run.                                             *)
NextRun ==
  /\ generation < MaxGenerations /\ generation' = generation + 1
  /\ IF location = "BSP" THEN Fresh(Creator) ELSE UNCHANGED <<doing, handle, mappings>>
  /\ UNCHANGED <<location, control, data, resets, wanted, local>>

-----------------------------------------------------------------------------
(* bsp_channel_create: an area that exists already is taken as it is, and  *)
(* the memory of a new one is not cleared.                                 *)
CreateControl(size) ==
  /\ doing[Creator] = "out" /\ Does(Creator, "createData")
  /\ wanted' = size
  /\ IF control = "none" THEN control' \in {"stopped", "running"}
     ELSE UNCHANGED control
  /\ Maps(Creator, "control")
  /\ UNCHANGED <<location, data, generation, resets, local>>

CreateData ==
  /\ doing[Creator] \in {"createData", "createAgain"} /\ data \in {0, wanted}
  /\ data' = wanted /\ Maps(Creator, "data") /\ Does(Creator, "clear")
  /\ UNCHANGED <<location, control, generation, resets, wanted, local>>

(* There is no room for the data area.                                     *)
DataFails ==
  /\ doing[Creator] \in {"createData", "createAgain"} /\ data = 0
  /\ Does(Creator, "out") /\ Forgets(Creator)
  /\ mappings' = [mappings EXCEPT ![Creator] = @ - 1]
  /\ UNCHANGED <<shared, local>>

(* A data area of another size is mapped, destroyed and freed.  The driver *)
(* of the host does not destroy what is mapped; the BSP has its own.       *)
ResizeData ==
  /\ doing[Creator] = "createData" /\ data \notin {0, wanted}
  /\ data' \in {data} \cup IF location = "BSP" THEN {0} ELSE {}
  /\ Does(Creator, "createAgain")
  /\ UNCHANGED <<location, control, generation, resets, wanted, local, handle, mappings>>

(* It still has another size: "if (retry_count) return NULL", and nothing  *)
(* is freed.                                                               *)
ResizeFails ==
  /\ doing[Creator] = "createAgain" /\ data \notin {0, wanted}
  /\ Does(Creator, "lost") /\ Forgets(Creator)
  /\ mappings' = [mappings EXCEPT ![Creator] = @ + 1]
  /\ UNCHANGED <<shared, local>>

(* The control area is cleared while others may have it open.              *)
ClearControl ==
  /\ doing[Creator] = "clear" /\ Does(Creator, "run")
  /\ control' = IF control = "none" THEN "none" ELSE "stopped"
  /\ UNCHANGED <<location, data, generation, resets, wanted, local, handle, mappings>>

RunChannel ==
  /\ doing[Creator] = "run" /\ Does(Creator, "ready")
  /\ control' = IF control = "none" THEN "none" ELSE "running"
  /\ handle' = [handle EXCEPT ![Creator].generation = generation]
  /\ UNCHANGED <<location, data, generation, resets, wanted, local, mappings>>

-----------------------------------------------------------------------------
(* bsp_channel_open                                                        *)
Open(p) ==
  /\ doing[p] = "out" /\ p \in Openers /\ Does(p, "get")
  /\ checking' = [checking EXCEPT ![p] = FALSE]
  /\ UNCHANGED <<shared, left, handle, mappings>>

(* bsp_channel_open_sub has failed: bsp_channel_open returns NULL and      *)
(* forgets the handle; bsp_channel_check tries again and at last returns 1.*)
Failed(p, h) ==
  CASE ~checking[p] -> /\ Does(p, "out") /\ UNCHANGED left
                       /\ handle' = [handle EXCEPT ![p] = NoHandle]
    [] checking[p] /\ left[p] > 1 ->
         /\ Does(p, "get") /\ handle' = [handle EXCEPT ![p] = h]
         /\ left' = [left EXCEPT ![p] = @ - 1]
    [] OTHER -> /\ Does(p, "ready") /\ handle' = [handle EXCEPT ![p] = h]
                /\ left' = [left EXCEPT ![p] = 0]

(* bsp_channel_open_sub: without a control area there is nothing to do.    *)
GetControl(p) ==
  LET h == [handle[p] EXCEPT !.control = "null", !.data = "null"] IN
  /\ doing[p] = "get"
  /\ IF control = "none" THEN Failed(p, h) /\ UNCHANGED mappings
     ELSE /\ handle' = [handle EXCEPT ![p] = [h EXCEPT !.control = "open"]]
          /\ mappings' = [mappings EXCEPT ![p] = @ + 1]
          /\ Does(p, "look") /\ UNCHANGED left
  /\ UNCHANGED <<shared, checking>>

(* Slip: a channel that does not run keeps its control area mapped.        *)
FreeControlForgotten(p) ==
  /\ Failed(p, [handle[p] EXCEPT !.control = "null"]) /\ UNCHANGED mappings

(* The control area is freed again when the channel cannot be opened.      *)
FreeControl(p) ==
  /\ Failed(p, [handle[p] EXCEPT !.control = "freed"])
  /\ mappings' = [mappings EXCEPT ![p] = @ - 1]

(* The memory of an area that was lost meanwhile may say anything.         *)
LookState(p) ==
  /\ doing[p] = "look"
  /\ \/ /\ control \in {"running", "none"} /\ Does(p, "getData")
        /\ UNCHANGED <<left, handle, mappings>>
     \/ control \in {"stopped", "none"} /\ FreeControl(p)
  /\ UNCHANGED <<shared, checking>>

(* The generation is looked at when everything is open.                    *)
GetData(p) ==
  /\ doing[p] = "getData"
  /\ IF data = 0 THEN FreeControl(p)
     ELSE /\ handle' = [handle EXCEPT ![p].data = "open", ![p].generation = generation]
          /\ mappings' = [mappings EXCEPT ![p] = @ + 1]
          /\ Does(p, "ready") /\ UNCHANGED left
  /\ UNCHANGED <<shared, checking>>

-----------------------------------------------------------------------------
(* bsp_channel_free_areas begins to read in the control area of the handle:*)
(* without one the process dies.  "Died" stands also for what may happen   *)
(* when the same area is freed a second time.                              *)
Freeable(p) == handle[p].control = "open" /\ handle[p].data = "open"

Die(p) == /\ doing[p] = "ready" /\ ~Freeable(p) /\ Does(p, "dead")
          /\ UNCHANGED <<shared, checking, left, handle, mappings>>

(* It does not write the state: what it clears for the creator is in the   *)
(* descriptor of the area, not in the area.                                *)
FreeAreas(p) == mappings' = [mappings EXCEPT ![p] = @ - 2]

Close(p) ==
  /\ doing[p] = "ready" /\ Freeable(p) /\ FreeAreas(p)
  /\ Does(p, "out") /\ handle' = [handle EXCEPT ![p] = NoHandle]
  /\ UNCHANGED <<shared, checking, left>>

(* A channel of the BSP, from another run than the handle.                 *)
Changed(p) == location = "BSP" /\ handle[p].generation # generation

(* bsp_channel_check, at the begin of every read on the host.              *)
CheckChannel(p) ==
  /\ doing[p] = "ready" /\ p \in Openers /\ Changed(p) /\ Freeable(p) /\ FreeAreas(p)
  /\ Does(p, "get") /\ checking' = [checking EXCEPT ![p] = TRUE]
  /\ left' = [left EXCEPT ![p] = Tries]
  /\ handle' = [handle EXCEPT ![p].control = "freed", ![p].data = "freed"]
  /\ UNCHANGED shared

(* The process is started again.                                           *)
Restart(p) ==
  /\ doing[p] \in {"dead", "lost"} /\ Fresh(p)
  /\ UNCHANGED <<shared, local>>

-----------------------------------------------------------------------------
OpenUser(p) == \/ Open(p) \/ GetControl(p) \/ LookState(p) \/ GetData(p)
               \/ Close(p) \/ CheckChannel(p) \/ Die(p) \/ Restart(p)
OpenNext ==
  \/ ResetDriver \/ NextRun
  \/ \E size \in Sizes : CreateControl(size)
  \/ CreateData \/ DataFails \/ ResizeData \/ ResizeFails
  \/ ClearControl \/ RunChannel
  \/ \E p \in Users : OpenUser(p)

OpenSpec == OpenInit /\ [][OpenNext]_openVars

-----------------------------------------------------------------------------
(* Everything has a value of its type.                                     *)
OpenTypeOK ==
  LET areas == {"null", "open", "freed"} IN
  /\ location \in Locations /\ wanted \in Sizes
  /\ control \in {"none", "stopped", "running"} /\ data \in Sizes \cup {0}
  /\ generation \in 0..MaxGenerations /\ resets \in 0..MaxResets
  /\ doing \in [Users -> {"out", "createData", "createAgain", "clear", "run",
                          "get", "look", "getData", "ready", "lost", "dead"}]
  /\ checking \in [Users -> BOOLEAN] /\ left \in [Users -> 0..Tries]
  /\ handle \in [Users -> [control : areas, data : areas,
                           generation : 0..MaxGenerations]]
  /\ mappings \in [Users -> 0..2]

(* However often a channel cannot be created or opened, is found changed   *)
(* and opened again, a process has only those areas mapped that its handle *)
(* knows: it does not lose one at every try.  The creator that finds a data*)
(* area of another size and cannot destroy it is the exception (ResizeFails*)
(* above).                                                                 *)
MappedOnce ==
  \A p \in Users : doing[p] \notin {"dead", "lost"} =>
    mappings[p] = (IF handle[p].control = "open" THEN 1 ELSE 0)
                  + (IF handle[p].data = "open" THEN 1 ELSE 0)

(* "Checks for changed BSP15-created channels and re-opens them": a process*)
(* that could not open the channel again when it read can read again.      *)
ReadsAgain == \A p \in Users : doing[p] # "dead"
=============================================================================
