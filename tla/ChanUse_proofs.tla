--------------------------- MODULE ChanUse_proofs ---------------------------
(***************************************************************************)
(* How channels are used.                                                  *)
(*                                                                         *)
(* ChanOpen, for any number of processes, sizes, tries, resets and runs of *)
(* the BSP: the types, and that a process has mapped exactly the areas that*)
(* its handle knows.                                                       *)
(*                                                                         *)
(* ShmNet, for rings of every size, any number of packets and of ends of a *)
(* daemon: the types, and that no packet vanishes.                         *)
(*                                                                         *)
(* BspChannel, for areas with fewer blocks than the ring has descriptors:  *)
(* packets leave whole, in order and once.                                 *)
(***************************************************************************)
EXTENDS ChanOpen, ShmNet, BspChannel, TLAPS

-----------------------------------------------------------------------------
(* The areas of a channel.                                                 *)

Areas == {"null", "open", "freed"}
Handle == [control : Areas, data : Areas, generation : 0..MaxGenerations]
Steps == {"out", "createData", "createAgain", "clear", "run", "get", "look",
          "getData", "ready", "lost", "dead"}

SharedType ==
  /\ location \in Locations /\ wanted \in Sizes
  /\ control \in {"none", "stopped", "running"} /\ data \in Sizes \cup {0}
  /\ generation \in 0..MaxGenerations /\ resets \in 0..MaxResets

DoingType == doing \in [Users -> Steps]
CheckType == checking \in [Users -> BOOLEAN]
LeftType == left \in [Users -> 0..Tries]
HandleType == handle \in [Users -> Handle]
MappingType == mappings \in [Users -> 0..2]

One(area) == IF area = "open" THEN 1 ELSE 0

(* What the handle and the mappings of a process are, at each place.       *)
Fits(does, h, mapped) ==
  /\ does \notin {"dead", "lost"} => mapped = One(h.control) + One(h.data)
  /\ does = "out" => h = NoHandle
  /\ does = "get" => h.control # "open" /\ h.data # "open"
  /\ does \in {"createData", "createAgain", "look", "getData"}
       => h.control = "open" /\ h.data # "open"

AllFit == \A p \in Users : Fits(doing[p], handle[p], mappings[p])

OpenInv == /\ SharedType /\ DoingType /\ CheckType /\ LeftType /\ HandleType
           /\ MappingType /\ AllFit

LEMMA OpenBegins == OpenInit => OpenInv
<1> SUFFICES ASSUME OpenInit PROVE OpenInv
  OBVIOUS
<1>1. SharedType
  <2>1. Locations # {} /\ 0 \in 0..MaxGenerations /\ 0 \in 0..MaxResets
    BY OpenAssumption DEF OpenInit
  <2>2. wanted \in Sizes
    BY OpenAssumption DEF OpenInit
  <2> QED BY <2>1, <2>2 DEF OpenInit, SharedType
<1>2. DoingType /\ LeftType /\ HandleType /\ MappingType
  BY OpenAssumption DEF OpenInit, DoingType, LeftType, HandleType, MappingType,
     Steps, Handle, Areas, NoHandle
<1>3. CheckType
  BY DEF OpenInit, CheckType
<1>4. AllFit
  BY DEF OpenInit, AllFit, Fits, NoHandle, One
<1> QED BY <1>1, <1>2, <1>3, <1>4 DEF OpenInv

(* The steps of each kind.                                                 *)
CreatorSteps == (\E size \in Sizes : CreateControl(size)) \/ CreateData \/ DataFails
                \/ ResizeData \/ ResizeFails \/ ClearControl \/ RunChannel

-----------------------------------------------------------------------------
(* Types.                                                                  *)
LEMMA SharedStep ==
  ASSUME SharedType, [OpenNext]_openVars
  PROVE  SharedType'
<1> USE DEF SharedType
<1>1. CASE UNCHANGED openVars
  BY <1>1 DEF openVars
<1>2. CASE ResetDriver \/ NextRun
  BY <1>2, OpenAssumption DEF ResetDriver, NextRun
<1>3. CASE CreatorSteps
  BY <1>3 DEF CreatorSteps, CreateControl, CreateData, DataFails, ResizeData, ResizeFails,
     ClearControl, RunChannel, shared
<1>4. ASSUME NEW p \in Users, OpenUser(p) PROVE SharedType'
  BY <1>4 DEF OpenUser, Open, GetControl, LookState, GetData, Close, CheckChannel, Die,
     Restart, shared
<1> QED BY <1>1, <1>2, <1>3, <1>4 DEF OpenNext, CreatorSteps

LEMMA CheckStep ==
  ASSUME CheckType, [OpenNext]_openVars
  PROVE  CheckType'
<1> USE DEF CheckType
<1>1. CASE UNCHANGED openVars
  BY <1>1 DEF openVars, local
<1>2. CASE ResetDriver \/ NextRun
  BY <1>2 DEF ResetDriver, NextRun, local
<1>3. CASE CreatorSteps
  BY <1>3 DEF CreatorSteps, CreateControl, CreateData, DataFails, ResizeData, ResizeFails,
     ClearControl, RunChannel, local
<1>4. ASSUME NEW p \in Users, OpenUser(p) PROVE CheckType'
  BY <1>4 DEF OpenUser, Open, GetControl, LookState, GetData, Close, CheckChannel, Die,
     Restart, local
<1> QED BY <1>1, <1>2, <1>3, <1>4 DEF OpenNext, CreatorSteps

LEMMA LeftStep ==
  ASSUME LeftType, [OpenNext]_openVars
  PROVE  LeftType'
<1> USE OpenAssumption DEF LeftType
<1>1. CASE UNCHANGED openVars
  BY <1>1 DEF openVars, local
<1>2. CASE ResetDriver \/ NextRun
  BY <1>2 DEF ResetDriver, NextRun, local
<1>3. CASE CreatorSteps
  BY <1>3 DEF CreatorSteps, CreateControl, CreateData, DataFails, ResizeData, ResizeFails,
     ClearControl, RunChannel, local
<1>4. ASSUME NEW p \in Users, NEW h, Failed(p, h) PROVE LeftType'
  BY <1>4 DEF Failed
<1>5. ASSUME NEW p \in Users, OpenUser(p) PROVE LeftType'
  <2>1. CASE Open(p) \/ Close(p) \/ CheckChannel(p) \/ Die(p) \/ Restart(p)
    BY <1>5, <2>1 DEF Open, Close, CheckChannel, Die, Restart, local
  <2>2. CASE GetControl(p) \/ LookState(p) \/ GetData(p)
    BY <1>4, <2>2 DEF GetControl, LookState, GetData, FreeControl
  <2> QED BY <1>5, <2>1, <2>2 DEF OpenUser
<1> QED BY <1>1, <1>2, <1>3, <1>5 DEF OpenNext, CreatorSteps

-----------------------------------------------------------------------------
(* One process goes to another place with another handle.                  *)
Goes(p, does, h, mapped) ==
  /\ doing' = [doing EXCEPT ![p] = does]
  /\ handle' = [handle EXCEPT ![p] = h]
  /\ mappings' = [mappings EXCEPT ![p] = mapped]

Local == DoingType /\ HandleType /\ MappingType /\ AllFit

LEMMA MovesFit ==
  ASSUME Local, NEW p \in Users, NEW does \in Steps, NEW h \in Handle,
         NEW mapped \in 0..2, Goes(p, does, h, mapped), Fits(does, h, mapped)
  PROVE  Local'
<1> USE DEF Local, DoingType, HandleType, MappingType, Goes
<1>1. DoingType' /\ HandleType' /\ MappingType'
  OBVIOUS
<1>2. ASSUME NEW q \in Users PROVE Fits(doing'[q], handle'[q], mappings'[q])
  <2>1. CASE q = p
    BY <2>1
  <2>2. CASE q # p
    BY <2>2 DEF AllFit
  <2> QED BY <2>1, <2>2
<1>3. AllFit'
  BY <1>2 DEF AllFit
<1> QED BY <1>1, <1>3

LEMMA NothingMoves ==
  ASSUME Local, UNCHANGED <<doing, handle, mappings>>
  PROVE  Local'
BY DEF Local, DoingType, HandleType, MappingType, AllFit

(* What is kept is what is put in again.                                   *)
LEMMA Same ==
  ASSUME Local, NEW p \in Users
  PROVE  /\ doing = [doing EXCEPT ![p] = doing[p]]
         /\ handle = [handle EXCEPT ![p] = handle[p]]
         /\ mappings = [mappings EXCEPT ![p] = mappings[p]]
         /\ doing[p] \in Steps /\ handle[p] \in Handle /\ mappings[p] \in 0..2
         /\ Fits(doing[p], handle[p], mappings[p])
BY DEF Local, DoingType, HandleType, MappingType, AllFit

LEMMA NoHandleIs == NoHandle \in Handle /\ NoHandle.control = "null" /\ NoHandle.data = "null"
BY OpenAssumption DEF NoHandle, Handle, Areas

LEMMA CreatorFits ==
  ASSUME Local, SharedType, CreatorSteps
  PROVE  Local'
<1> DEFINE p == Creator
           h == handle[p]
           m == mappings[p]
<1>0. p \in Users
  BY DEF Users
<1>1. /\ h \in Handle /\ m \in 0..2 /\ Fits(doing[p], h, m)
      /\ handle = [handle EXCEPT ![p] = h] /\ mappings = [mappings EXCEPT ![p] = m]
  BY <1>0, Same
<1> USE NoHandleIs DEF Fits, One, Goes, Does, Maps, Forgets
<1>2. ASSUME NEW size \in Sizes, CreateControl(size) PROVE Local'
  <2> DEFINE g == [h EXCEPT !.control = "open"]
  <2>1. doing[p] = "out" /\ Goes(p, "createData", g, m + 1)
    BY <1>2 DEF CreateControl
  <2>2. g \in Handle /\ m + 1 \in 0..2 /\ Fits("createData", g, m + 1)
    BY <1>1, <2>1 DEF Handle, Areas
  <2> QED BY <1>0, <2>1, <2>2, MovesFit DEF Steps
<1>3. CASE CreateData
  <2> DEFINE g == [h EXCEPT !.data = "open"]
  <2>1. doing[p] \in {"createData", "createAgain"} /\ Goes(p, "clear", g, m + 1)
    BY <1>3 DEF CreateData
  <2>2. g \in Handle /\ m + 1 \in 0..2 /\ Fits("clear", g, m + 1)
    BY <1>1, <2>1 DEF Handle, Areas
  <2> QED BY <1>0, <2>1, <2>2, MovesFit DEF Steps
<1>4. CASE DataFails
  <2>1. doing[p] \in {"createData", "createAgain"} /\ Goes(p, "out", NoHandle, m - 1)
    BY <1>4 DEF DataFails
  <2>2. m - 1 \in 0..2 /\ Fits("out", NoHandle, m - 1)
    BY <1>1, <2>1
  <2> QED BY <1>0, <2>1, <2>2, MovesFit DEF Steps
<1>5. CASE ResizeData
  <2>1. doing[p] = "createData" /\ Goes(p, "createAgain", h, m)
    BY <1>1, <1>5 DEF ResizeData
  <2>2. Fits("createAgain", h, m)
    BY <1>1, <2>1
  <2> QED BY <1>0, <1>1, <2>1, <2>2, MovesFit DEF Steps
<1>6. CASE ResizeFails
  <2>1. doing[p] = "createAgain" /\ Goes(p, "lost", NoHandle, m + 1)
    BY <1>6 DEF ResizeFails
  <2>2. m + 1 \in 0..2 /\ Fits("lost", NoHandle, m + 1)
    BY <1>1, <2>1
  <2> QED BY <1>0, <2>1, <2>2, MovesFit DEF Steps
<1>7. CASE ClearControl
  <2>1. doing[p] = "clear" /\ Goes(p, "run", h, m)
    BY <1>1, <1>7 DEF ClearControl
  <2>2. Fits("run", h, m)
    BY <1>1, <2>1
  <2> QED BY <1>0, <1>1, <2>1, <2>2, MovesFit DEF Steps
<1>8. CASE RunChannel
  <2> DEFINE g == [h EXCEPT !.generation = generation]
  <2>1. doing[p] = "run" /\ Goes(p, "ready", g, m)
    BY <1>1, <1>8 DEF RunChannel
  <2>2. g \in Handle /\ Fits("ready", g, m)
    BY <1>1, <2>1 DEF Handle, Areas, SharedType
  <2> QED BY <1>0, <1>1, <2>1, <2>2, MovesFit DEF Steps
<1> QED BY <1>2, <1>3, <1>4, <1>5, <1>6, <1>7, <1>8 DEF CreatorSteps

(* A try that fails leaves nothing mapped.                                 *)
LEMMA FailedFits ==
  ASSUME Local, NEW p \in Users, NEW h \in Handle, Failed(p, h),
         h.control # "open", h.data # "open",
         mappings' = [mappings EXCEPT ![p] = 0]
  PROVE  Local'
<1>0. 0 \in 0..2 /\ {"out", "get", "ready"} \subseteq Steps
  BY DEF Steps
<1>1. CASE ~checking[p]
  <2>1. Goes(p, "out", NoHandle, 0)
    BY <1>1 DEF Failed, Goes, Does
  <2>2. Fits("out", NoHandle, 0)
    BY NoHandleIs DEF Fits, One
  <2> QED BY <1>0, <2>1, <2>2, NoHandleIs, MovesFit
<1>2. CASE checking[p]
  <2>1. Goes(p, "get", h, 0) \/ Goes(p, "ready", h, 0)
    BY <1>2 DEF Failed, Goes, Does
  <2>2. Fits("get", h, 0) /\ Fits("ready", h, 0)
    BY DEF Fits, One
  <2> QED BY <1>0, <2>1, <2>2, MovesFit
<1> QED BY <1>1, <1>2

LEMMA UserFits ==
  ASSUME Local, SharedType, NEW p \in Users, OpenUser(p)
  PROVE  Local'
<1> DEFINE h == handle[p]
           m == mappings[p]
<1>1. /\ h \in Handle /\ m \in 0..2 /\ Fits(doing[p], h, m) /\ doing[p] \in Steps
      /\ handle = [handle EXCEPT ![p] = h] /\ mappings = [mappings EXCEPT ![p] = m]
  BY Same
<1>0. 0 \in 0..2 /\ 1 \in 0..2
  OBVIOUS
<1> USE NoHandleIs DEF Fits, One, Goes, Does, Forgets, FreeAreas, Freeable
(* FreeControl: what is left is not mapped.                                *)
<1>2. ASSUME FreeControl(p), doing[p] \in {"look", "getData"} PROVE Local'
  <2> DEFINE g == [h EXCEPT !.control = "freed"]
  <2>1. m = 1 /\ g \in Handle /\ g.control # "open" /\ g.data # "open"
    BY <1>1, <1>2 DEF Handle, Areas
  <2>2. Failed(p, g) /\ mappings' = [mappings EXCEPT ![p] = 0]
    BY <1>2, <2>1 DEF FreeControl
  <2> QED BY <2>1, <2>2, FailedFits
<1>3. CASE Open(p)
  <2>1. doing[p] = "out" /\ Goes(p, "get", h, m)
    BY <1>1, <1>3 DEF Open
  <2>2. Fits("get", h, m)
    BY <1>1, <2>1
  <2> QED BY <1>1, <2>1, <2>2, MovesFit DEF Steps
<1>4. CASE GetControl(p)
  <2> DEFINE g == [h EXCEPT !.control = "null", !.data = "null"]
             k == [g EXCEPT !.control = "open"]
  <2>1. doing[p] = "get" /\ m = 0
    BY <1>1, <1>4 DEF GetControl
  <2>4. /\ g \in Handle /\ g.control # "open" /\ g.data # "open"
        /\ k \in Handle /\ k.control = "open" /\ k.data # "open"
    BY <1>1 DEF Handle, Areas
  <2>2. CASE control = "none"
    <3>1. Failed(p, g) /\ mappings' = [mappings EXCEPT ![p] = 0]
      BY <1>1, <1>4, <2>1, <2>2 DEF GetControl
    <3> QED BY <2>4, <3>1, FailedFits
  <2>3. CASE control # "none"
    <3>1. Goes(p, "look", k, 1)
      BY <1>4, <2>1, <2>3 DEF GetControl
    <3>2. Fits("look", k, 1)
      BY <2>4
    <3> QED BY <1>0, <2>4, <3>1, <3>2, MovesFit DEF Steps
  <2> QED BY <2>2, <2>3
<1>5. CASE LookState(p)
  <2>1. CASE FreeControl(p)
    BY <1>2, <1>5, <2>1 DEF LookState
  <2>2. CASE ~FreeControl(p)
    <3>1. doing[p] = "look" /\ Goes(p, "getData", h, m)
      BY <1>1, <1>5, <2>2 DEF LookState
    <3>2. Fits("getData", h, m)
      BY <1>1, <3>1
    <3> QED BY <1>1, <3>1, <3>2, MovesFit DEF Steps
  <2> QED BY <2>1, <2>2
<1>6. CASE GetData(p)
  <2>1. CASE data = 0
    BY <1>2, <1>6, <2>1 DEF GetData
  <2>2. CASE data # 0
    <3> DEFINE g == [h EXCEPT !.data = "open", !.generation = generation]
    <3>1. doing[p] = "getData" /\ Goes(p, "ready", g, m + 1)
      BY <1>6, <2>2 DEF GetData
    <3>2. g \in Handle /\ g.control = h.control /\ g.data = "open"
      BY <1>1 DEF Handle, Areas, SharedType
    <3>3. m + 1 \in 0..2 /\ Fits("ready", g, m + 1)
      BY <1>1, <3>1, <3>2
    <3> QED BY <3>1, <3>2, <3>3, MovesFit DEF Steps
  <2> QED BY <2>1, <2>2
<1>7. CASE Close(p)
  <2>1. Goes(p, "out", NoHandle, m - 2) /\ m = 2
    BY <1>1, <1>7 DEF Close
  <2>2. m - 2 \in 0..2 /\ Fits("out", NoHandle, m - 2)
    BY <2>1
  <2> QED BY <2>1, <2>2, MovesFit DEF Steps
<1>8. CASE CheckChannel(p)
  <2> DEFINE g == [h EXCEPT !.control = "freed", !.data = "freed"]
  <2>1. Goes(p, "get", g, m - 2)
    BY <1>8 DEF CheckChannel
  <2>2. m = 2
    BY <1>1, <1>8 DEF CheckChannel
  <2>3. g \in Handle /\ g.control = "freed" /\ g.data = "freed"
    BY <1>1 DEF Handle, Areas
  <2>4. m - 2 \in 0..2 /\ Fits("get", g, m - 2)
    BY <2>2, <2>3
  <2> QED BY <2>1, <2>3, <2>4, MovesFit DEF Steps
<1>9. CASE Die(p)
  <2>1. Goes(p, "dead", h, m)
    BY <1>1, <1>9 DEF Die
  <2> QED BY <1>1, <2>1, MovesFit DEF Steps
<1>10. CASE Restart(p)
  <2>1. Goes(p, "out", NoHandle, 0) /\ Fits("out", NoHandle, 0)
    BY <1>10 DEF Restart, Fresh
  <2> QED BY <1>0, <2>1, MovesFit DEF Steps
<1> QED BY <1>3, <1>4, <1>5, <1>6, <1>7, <1>8, <1>9, <1>10 DEF OpenUser

LEMMA LocalStep ==
  ASSUME Local, SharedType, [OpenNext]_openVars
  PROVE  Local'
<1>1. CASE UNCHANGED openVars
  BY <1>1, NothingMoves DEF openVars
<1>2. CASE ResetDriver
  BY <1>2, NothingMoves DEF ResetDriver
<1>3. CASE NextRun
  <2>1. CASE location = "BSP"
    <3>1. Goes(Creator, "out", NoHandle, 0) /\ Fits("out", NoHandle, 0)
      BY <1>3, <2>1, NoHandleIs DEF NextRun, Fresh, Does, Forgets, Goes, Fits, One
    <3> QED BY <3>1, NoHandleIs, MovesFit DEF Steps, Users
  <2>2. CASE location # "BSP"
    BY <1>3, <2>2, NothingMoves DEF NextRun
  <2> QED BY <2>1, <2>2
<1>4. CASE CreatorSteps
  BY <1>4, CreatorFits
<1>5. ASSUME NEW p \in Users, OpenUser(p) PROVE Local'
  BY <1>5, UserFits
<1> QED BY <1>1, <1>2, <1>3, <1>4, <1>5 DEF OpenNext, CreatorSteps

LEMMA OpenStays == OpenSpec => []OpenInv
<1>1. OpenInv /\ [OpenNext]_openVars => OpenInv'
  BY SharedStep, CheckStep, LeftStep, LocalStep DEF OpenInv, Local
<1> QED BY <1>1, OpenBegins, PTL DEF OpenSpec

(* The areas, the tries and the handles (bspchannel.c) keep their types.   *)
THEOREM OpenTypeInvariance == OpenSpec => []OpenTypeOK
<1>1. OpenInv => OpenTypeOK
  BY DEF OpenInv, SharedType, DoingType, CheckType, LeftType, HandleType, MappingType,
     OpenTypeOK, Handle, Areas, Steps
<1> QED BY <1>1, OpenStays, PTL

(* However often bsp_channel_create, bsp_channel_open or bsp_channel_check *)
(* fails, a process has mapped what its handle knows, and no more.         *)
THEOREM NoMappingIsLost == OpenSpec => []MappedOnce
<1>1. OpenInv => MappedOnce
  BY DEF OpenInv, AllFit, Fits, One, MappedOnce
<1> QED BY <1>1, OpenStays, PTL

-----------------------------------------------------------------------------
(* The rings of the network.                                               *)

Stored == 0..MaxPackets
NetRing == [r : Slots, w : Slots, box : [Slots -> Stored]]

(* The remainder, where one round at most is to be taken off.              *)
LEMMA RoundValue ==
  ASSUME NEW x \in Nat, x < 2 * RingSize
  PROVE  /\ x % RingSize = IF x < RingSize THEN x ELSE x - RingSize
         /\ x % RingSize \in Slots
<1>1. RingSize \in Nat /\ RingSize > 1
  BY NetAssumption
<1>2. CASE x < RingSize
  BY <1>1, <1>2 DEF Slots
<1>3. CASE x >= RingSize
  <2>1. x = RingSize + (x - RingSize) /\ x - RingSize \in 0..(RingSize - 1)
    BY <1>1, <1>3
  <2>2. x % RingSize = x - RingSize
    BY <1>1, <2>1
  <2> QED BY <1>1, <1>3, <2>2 DEF Slots
<1> QED BY <1>1, <1>2, <1>3

(* Step and Used without remainders.                                       *)
LEMMA RingValues ==
  /\ \A k \in Slots : /\ Step(k) = IF k = RingSize - 1 THEN 0 ELSE k + 1
                      /\ Step(k) \in Slots
  /\ \A c : c.r \in Slots /\ c.w \in Slots =>
       /\ Used(c) = IF c.w >= c.r THEN c.w - c.r ELSE c.w + RingSize - c.r
       /\ Used(c) \in 0..(RingSize - 1)
<1>1. RingSize \in Nat /\ RingSize > 1
  BY NetAssumption
<1>2. ASSUME NEW k \in Slots
      PROVE  /\ Step(k) = IF k = RingSize - 1 THEN 0 ELSE k + 1
             /\ Step(k) \in Slots
  <2> DEFINE x == k + 1
  <2>1. x \in Nat /\ x < 2 * RingSize /\ k \in Nat /\ k <= RingSize - 1
    BY <1>1 DEF Slots
  <2>2. x % RingSize = IF x < RingSize THEN x ELSE x - RingSize
    <3> HIDE DEF x
    <3> QED BY <2>1, RoundValue
  <2>3. Step(k) = IF x < RingSize THEN x ELSE x - RingSize
    BY <2>2 DEF Step
  <2> QED BY <1>1, <2>1, <2>3 DEF Slots
<1>3. ASSUME NEW c, c.r \in Slots, c.w \in Slots
      PROVE  /\ Used(c) = IF c.w >= c.r THEN c.w - c.r ELSE c.w + RingSize - c.r
             /\ Used(c) \in 0..(RingSize - 1)
  <2> DEFINE x == c.w + RingSize - c.r
  <2>1. x \in Nat /\ x < 2 * RingSize /\ c.r \in Nat /\ c.w \in Nat
        /\ c.r <= RingSize - 1 /\ c.w <= RingSize - 1
    BY <1>1, <1>3 DEF Slots
  <2>2. Used(c) = IF x < RingSize THEN x ELSE x - RingSize
    BY <2>1, RoundValue DEF Used
  <2> QED BY <1>1, <2>1, <2>2
<1> QED BY <1>2, <1>3

(* The place of the packet that is read k packets from now.                *)
Place(r, k) == (r + k) % RingSize

LEMMA PlaceValue ==
  ASSUME NEW r \in Slots, NEW k \in Slots
  PROVE  /\ Place(r, k) = IF r + k < RingSize THEN r + k ELSE r + k - RingSize
         /\ Place(r, k) \in Slots
<1>1. RingSize \in Nat /\ RingSize > 1
  BY NetAssumption
<1>2. r + k \in Nat /\ r + k < 2 * RingSize
  BY <1>1 DEF Slots
<1>3. PICK x \in Nat : x = r + k
  BY <1>2
<1>4. x < 2 * RingSize
  BY <1>1, <1>2, <1>3
<1>5. /\ x % RingSize = IF x < RingSize THEN x ELSE x - RingSize
      /\ x % RingSize \in Slots
  BY <1>1, <1>3, <1>4, RoundValue
<1>6. Place(r, k) = x % RingSize
  BY <1>3 DEF Place
<1> QED BY <1>1, <1>3, <1>5, <1>6 DEF Slots

(* What a write makes of a ring.                                           *)
Put(c, n) == [c EXCEPT !.box[c.w] = n, !.w = Step(@)]

(* A packet put into a ring that is not full comes behind the others.      *)
LEMMA PutAppends ==
  ASSUME NEW c \in NetRing, NEW d \in NetRing, NEW n \in Stored, Used(c) + 1 < RingSize,
         d = Put(c, n)
  PROVE  /\ Used(d) = Used(c) + 1
         /\ Unread(d) = Unread(c) \cup {n}
         /\ d.r = c.r /\ (Used(c) > 0 => d.box[d.r] = c.box[c.r])
<1> DEFINE u == Used(c)
<1>0. /\ RingSize \in Nat /\ RingSize > 1 /\ c.r \in Slots /\ c.w \in Slots
      /\ c.box \in [Slots -> Stored]
  BY NetAssumption DEF NetRing
<1>1. /\ d.r = c.r /\ d.w = Step(c.w) /\ d.w \in Slots
      /\ d.box = [c.box EXCEPT ![c.w] = n]
  BY <1>0, RingValues DEF NetRing, Put
<1>2. u \in Nat /\ u = IF c.w >= c.r THEN c.w - c.r ELSE c.w + RingSize - c.r
  BY <1>0, RingValues
<1>3. Used(d) = u + 1
  <2>1. d.w = IF c.w = RingSize - 1 THEN 0 ELSE c.w + 1
    BY <1>0, <1>1, RingValues
  <2>2. Used(d) = IF d.w >= c.r THEN d.w - c.r ELSE d.w + RingSize - c.r
    BY <1>0, <1>1, RingValues
  <2>3. c.r \in Nat /\ c.w \in Nat /\ c.r < RingSize /\ c.w < RingSize
    BY <1>0 DEF Slots
  <2> HIDE DEF u
  <2>4. u + 1 < RingSize
    BY DEF u
  <2> QED BY <1>0, <1>2, <2>1, <2>2, <2>3, <2>4
<1>4. \A k \in 0..(u - 1) : Place(c.r, k) \in Slots /\ Place(c.r, k) # c.w
  <2> TAKE k \in 0..(u - 1)
  <2>1. k \in Slots
    BY <1>0, <1>2 DEF Slots
  <2>2. /\ Place(c.r, k) = IF c.r + k < RingSize THEN c.r + k ELSE c.r + k - RingSize
        /\ Place(c.r, k) \in Slots
    BY <1>0, <2>1, PlaceValue
  <2> QED BY <1>0, <1>2, <2>1, <2>2, SMTT(40) DEF Slots
<1>5. Place(c.r, u) = c.w
  <2>1. u \in Slots
    BY <1>0, <1>2 DEF Slots
  <2> HIDE DEF u
  <2>2. Place(c.r, u) = IF c.r + u < RingSize THEN c.r + u ELSE c.r + u - RingSize
    BY <1>0, <2>1, PlaceValue
  <2>3. c.r \in Nat /\ c.w \in Nat /\ c.r < RingSize /\ c.w < RingSize
    BY <1>0 DEF Slots
  <2>4. CASE c.w >= c.r
    BY <1>0, <1>2, <2>2, <2>3, <2>4
  <2>5. CASE c.w < c.r
    BY <1>0, <1>2, <2>2, <2>3, <2>5
  <2> QED BY <2>3, <2>4, <2>5
<1>6. \A k : Place(d.r, k) = Place(c.r, k)
  BY <1>1 DEF Place
<1>7. \A k \in 0..(u - 1) : d.box[Place(c.r, k)] = c.box[Place(c.r, k)]
  BY <1>0, <1>1, <1>4
<1>8. d.box[c.w] = n
  BY <1>0, <1>1
<1>9. /\ Unread(c) = {c.box[Place(c.r, k)] : k \in 0..(u - 1)}
      /\ Unread(d) = {d.box[Place(d.r, k)] : k \in 0..((u + 1) - 1)}
  BY <1>3 DEF Unread, Place
<1>10. 0..((u + 1) - 1) = 0..(u - 1) \cup {u}
  BY <1>2
<1> HIDE DEF u
<1>11. Unread(d) = {d.box[Place(d.r, k)] : k \in 0..(u - 1)} \cup {d.box[Place(d.r, u)]}
  BY <1>9, <1>10
<1>12. {d.box[Place(d.r, k)] : k \in 0..(u - 1)} = Unread(c)
  BY <1>6, <1>7, <1>9
<1>13. d.box[Place(d.r, u)] = n
  BY <1>5, <1>6, <1>8
<1>14. u > 0 => c.w # c.r
  BY <1>0, <1>2 DEF Slots
<1>15. u > 0 => d.box[d.r] = c.box[c.r]
  BY <1>0, <1>1, <1>14
<1> QED BY <1>1, <1>3, <1>11, <1>12, <1>13, <1>15 DEF u

(* A packet given back is the first of them.                               *)
LEMMA FinishRemoves ==
  ASSUME NEW c \in NetRing, NEW d \in NetRing, Used(c) > 0, d = [c EXCEPT !.r = Step(@)]
  PROVE  /\ Used(d) = Used(c) - 1
         /\ Unread(c) = Unread(d) \cup {c.box[c.r]}
<1> DEFINE u == Used(c)
<1>0. /\ RingSize \in Nat /\ RingSize > 1 /\ c.r \in Slots /\ c.w \in Slots
  BY NetAssumption DEF NetRing
<1>1. d.r = Step(c.r) /\ d.r \in Slots /\ d.w = c.w /\ d.box = c.box
  BY <1>0, RingValues DEF NetRing
<1>2. /\ u \in 1..(RingSize - 1)
      /\ u = IF c.w >= c.r THEN c.w - c.r ELSE c.w + RingSize - c.r
      /\ d.r = IF c.r = RingSize - 1 THEN 0 ELSE c.r + 1
  BY <1>0, <1>1, RingValues
<1>3. Used(d) = u - 1
  <2>1. Used(d) = IF d.w >= d.r THEN d.w - d.r ELSE d.w + RingSize - d.r
    BY <1>0, <1>1, RingValues
  <2> QED BY <1>0, <1>1, <1>2, <2>1 DEF Slots
<1>4. \A k \in 0..(u - 2) : Place(d.r, k) = Place(c.r, k + 1)
  <2> TAKE k \in 0..(u - 2)
  <2>1. k \in Slots /\ k + 1 \in Slots
    BY <1>0, <1>2 DEF Slots
  <2>2. /\ Place(d.r, k) = IF d.r + k < RingSize THEN d.r + k ELSE d.r + k - RingSize
        /\ Place(c.r, k + 1) = IF c.r + (k + 1) < RingSize THEN c.r + (k + 1)
                             ELSE c.r + (k + 1) - RingSize
    BY <1>0, <1>1, <2>1, PlaceValue
  <2> QED BY <1>0, <1>2, <2>1, <2>2 DEF Slots
<1>5. Place(c.r, 0) = c.r
  <2>1. 0 \in Slots
    BY <1>0 DEF Slots
  <2>2. Place(c.r, 0) = IF c.r + 0 < RingSize THEN c.r + 0 ELSE c.r + 0 - RingSize
    BY <1>0, <2>1, PlaceValue
  <2> QED BY <1>0, <2>2 DEF Slots
<1>6. /\ Unread(c) = {c.box[Place(c.r, k)] : k \in 0..(u - 1)}
      /\ Unread(d) = {c.box[Place(d.r, k)] : k \in 0..((u - 1) - 1)}
  BY <1>1, <1>3 DEF Unread, Place
<1>7. (u - 1) - 1 = u - 2
  BY <1>2
<1>8. Unread(d) = {c.box[Place(c.r, k + 1)] : k \in 0..(u - 2)}
  BY <1>4, <1>6, <1>7
<1>9. Unread(c) \subseteq Unread(d) \cup {c.box[c.r]}
  <2> SUFFICES ASSUME NEW k \in 0..(u - 1)
               PROVE  c.box[Place(c.r, k)] \in Unread(d) \cup {c.box[c.r]}
    BY <1>6
  <2>1. CASE k = 0
    BY <1>5, <2>1
  <2>2. CASE k # 0
    <3>1. k - 1 \in 0..(u - 2) /\ (k - 1) + 1 = k
      BY <1>2, <2>2
    <3> QED BY <1>8, <3>1
  <2> QED BY <2>1, <2>2
<1>10. Unread(d) \subseteq Unread(c)
  <2> SUFFICES ASSUME NEW k \in 0..(u - 2)
               PROVE  c.box[Place(c.r, k + 1)] \in Unread(c)
    BY <1>8
  <2>1. k + 1 \in 0..(u - 1)
    BY <1>2
  <2> QED BY <1>6, <2>1
<1>11. c.box[c.r] \in Unread(c)
  <2>1. 0 \in 0..(u - 1)
    BY <1>2
  <2> QED BY <1>5, <1>6, <2>1
<1> QED BY <1>3, <1>9, <1>10, <1>11

(* A cleared ring has nothing in it.                                       *)
LEMMA ClearedIsEmpty ==
  Cleared \in NetRing /\ Used(Cleared) = 0 /\ Unread(Cleared) = {}
<1>1. 0 \in Slots /\ 0 \in Stored
  BY NetAssumption DEF Slots, Stored
<1>2. Cleared \in NetRing
  BY <1>1 DEF Cleared, NetRing
<1>3. Used(Cleared) = 0
  BY <1>1, RingValues DEF Cleared
<1>4. 0..(Used(Cleared) - 1) = {}
  BY <1>3
<1> QED BY <1>2, <1>3, <1>4 DEF Unread

-----------------------------------------------------------------------------
(* The network: types.                                                     *)

Sides == {"start", "tun", "write", "read", "deliver", "finish"}

NetTyped ==
  /\ net \in [Peers -> Sides] /\ made \in BOOLEAN /\ ring \in [Peers -> NetRing]
  /\ sending \in [Peers -> Stored] /\ sent \in [Peers -> Stored]
  /\ got \in [Peers -> SUBSET Stored] /\ lost \in [Peers -> SUBSET Stored]
  /\ torn \in BOOLEAN /\ exits \in 0..MaxExits

LEMMA UnreadType ==
  ASSUME NEW c \in NetRing
  PROVE  Unread(c) \subseteq Stored
<1>1. RingSize \in Nat /\ c.r \in Slots /\ c.w \in Slots /\ c.box \in [Slots -> Stored]
  BY NetAssumption DEF NetRing
<1>2. Used(c) \in 0..(RingSize - 1)
  BY <1>1, RingValues
<1>3. ASSUME NEW k \in 0..(Used(c) - 1) PROVE c.box[Place(c.r, k)] \in Stored
  <2>1. k \in Slots
    BY <1>1, <1>2 DEF Slots
  <2> QED BY <1>1, <2>1, PlaceValue
<1> QED BY <1>3 DEF Unread, Place

LEMMA OtherPeer ==
  \A p \in Peers : Other(p) \in Peers /\ Other(p) # p /\ Other(Other(p)) = p
BY DEF Peers, Other

LEMMA PutType ==
  ASSUME NEW c \in NetRing, NEW n \in Stored
  PROVE  Put(c, n) \in NetRing
<1>1. Step(c.w) \in Slots /\ [c.box EXCEPT ![c.w] = n] \in [Slots -> Stored]
  BY RingValues DEF NetRing
<1> QED BY <1>1 DEF NetRing, Put

LEMMA WriteIsPut ==
  ASSUME NetTyped, NEW p \in Peers, WriteChannel(p)
  PROVE  ring' = [ring EXCEPT ![Other(p)] = Put(ring[Other(p)], sending[p])]
<1>1. ring' = [ring EXCEPT ![Other(p)].box[ring[Other(p)].w] = sending[p],
                           ![Other(p)].w = Step(@)]
  BY DEF WriteChannel
<1> QED BY <1>1, OtherPeer DEF Put, NetTyped, NetRing

LEMMA NetTypeInit == NetInit => NetTyped
<1> SUFFICES ASSUME NetInit PROVE NetTyped
  OBVIOUS
<1>1. 0 \in Stored /\ 0 \in 0..MaxExits
  BY NetAssumption DEF Stored
<1> QED BY <1>1, ClearedIsEmpty DEF NetInit, NetTyped, Sides

LEMMA NetTypeStep ==
  ASSUME NetTyped, [NetNext]_netVars
  PROVE  NetTyped'
<1> USE DEF NetTyped, Moves, Sides
<1>1. ASSUME NEW p \in Peers, CreateOrOpen(p) PROVE NetTyped'
  <2>1. \A q \in Peers : Unread(ring[Other(q)]) \subseteq Stored
    BY OtherPeer, UnreadType
  <2>2. net' \in [Peers -> Sides]
    BY <1>1 DEF CreateOrOpen
  <2>3. CASE p = "card"
    <3>1. /\ lost' = [q \in Peers |-> lost[q] \cup Unread(ring[Other(q)])]
          /\ made' = TRUE /\ ring' = [q \in Peers |-> Cleared] /\ torn' \in BOOLEAN
          /\ UNCHANGED <<sending, sent, got, exits>>
      BY <1>1, <2>3 DEF CreateOrOpen
    <3>2. lost' \in [Peers -> SUBSET Stored]
      BY <2>1, <3>1
    <3>3. ring' \in [Peers -> NetRing]
      BY <3>1, ClearedIsEmpty
    <3> QED BY <2>2, <3>1, <3>2, <3>3
  <2>4. CASE p # "card"
    BY <1>1, <2>2, <2>4 DEF CreateOrOpen
  <2> QED BY <2>3, <2>4
<1>2. ASSUME NEW p \in Peers, ReadTun(p) PROVE NetTyped'
  BY <1>2, NetAssumption DEF ReadTun, Stored
<1>3. ASSUME NEW p \in Peers, WriteChannel(p) PROVE NetTyped'
  <2>1. ring' \in [Peers -> NetRing]
    <3>1. Other(p) \in Peers /\ ring[Other(p)] \in NetRing /\ sending[p] \in Stored
      BY OtherPeer
    <3>2. Put(ring[Other(p)], sending[p]) \in NetRing
      BY <3>1, PutType
    <3>3. ring' = [ring EXCEPT ![Other(p)] = Put(ring[Other(p)], sending[p])]
      BY <1>3, WriteIsPut
    <3> QED BY <3>1, <3>2, <3>3
  <2>2. 0 \in Stored
    BY NetAssumption DEF Stored
  <2> QED BY <1>3, <2>1, <2>2 DEF WriteChannel
<1>4. ASSUME NEW p \in Peers, WriteTimesOut(p) PROVE NetTyped'
  BY <1>4, NetAssumption DEF WriteTimesOut, Stored
<1>5. ASSUME NEW p \in Peers, ReadChannel(p) PROVE NetTyped'
  BY <1>5 DEF ReadChannel
<1>6. ASSUME NEW p \in Peers, WriteTun(p) PROVE NetTyped'
  <2>1. ring[p].box[ring[p].r] \in Stored
    BY DEF NetRing
  <2> QED BY <1>6, <2>1, NetAssumption DEF WriteTun
<1>7. ASSUME NEW p \in Peers, FinishPacket(p) PROVE NetTyped'
  <2>1. ring' \in [Peers -> NetRing]
    BY <1>7, RingValues DEF FinishPacket, NetRing
  <2> QED BY <1>7, <2>1 DEF FinishPacket
<1>8. CASE UNCHANGED netVars
  BY <1>8 DEF netVars
<1> QED BY <1>1, <1>2, <1>3, <1>4, <1>5, <1>6, <1>7, <1>8 DEF NetNext, NetPeer

(* Every variable of the two daemons always has a value of its type.       *)
THEOREM NetTypeInvariance == NetSpec => []NetTypeOK
<1>1. NetTyped => NetTypeOK
  BY DEF NetTyped, NetTypeOK, Sides, NetRing, Stored
<1>2. NetTyped /\ [NetNext]_netVars => NetTyped'
  BY NetTypeStep
<1> QED BY <1>1, <1>2, NetTypeInit, PTL DEF NetSpec

-----------------------------------------------------------------------------
(* The packets of the network.                                             *)

(* In the buffer is the packet that is about to be written.                *)
Buffered(p) == IF net[p] = "write" THEN sending[p] \in 1..sent[p] ELSE sending[p] = 0

(* There is room in the ring that p reads, there is something in it while p*)
(* has a packet in its hands, and p has handed it on when it gives it back.*)
Readable(p) ==
  /\ Used(ring[p]) <= RingRoom
  /\ net[p] \in {"deliver", "finish"} => Used(ring[p]) > 0
  /\ net[p] = "finish" => ring[p].box[ring[p].r] \in got[p]

(* Where the packets are that p has read from its tun device.              *)
Kept(p) ==
  /\ 1..sent[p] \subseteq {sending[p]} \cup Unread(ring[Other(p)])
                            \cup got[Other(p)] \cup lost[p]
  /\ Unread(ring[Other(p)]) \cup got[Other(p)] \subseteq 1..sent[p]

NetInv ==
  /\ NetTyped /\ \A p \in Peers : Buffered(p)
  /\ torn \/ \A p \in Peers : Readable(p) /\ Kept(p)

LEMMA RoomIsRoom == RingRoom \in Nat /\ RingRoom + 1 <= RingSize /\ RingSize \in Nat
BY NetAssumption

LEMMA NetBegins == NetInit => NetInv
<1> SUFFICES ASSUME NetInit PROVE NetInv
  OBVIOUS
<1>1. \A p \in Peers : /\ ring[p] = Cleared /\ ring[Other(p)] = Cleared /\ net[p] = "start"
                        /\ sending[p] = 0 /\ sent[p] = 0 /\ got[Other(p)] = {}
  BY OtherPeer DEF NetInit
<1> QED
  BY <1>1, NetTypeInit, ClearedIsEmpty, RoomIsRoom DEF NetInv, Buffered, Readable, Kept

(* The start of the card takes what is in the rings away, knowingly.       *)
LEMMA StartKeeps ==
  ASSUME NetInv, NetTyped', NEW p \in Peers, CreateOrOpen(p)
  PROVE  NetInv'
<1>1. \A q \in Peers : Buffered(q)'
  BY DEF CreateOrOpen, Moves, NetInv, NetTyped, Buffered
<1>2. CASE p # "card"
  <2>1. /\ UNCHANGED <<ring, sending, sent, got, lost, torn>>
        /\ net' = [net EXCEPT ![p] = "tun"]
    BY <1>2 DEF CreateOrOpen, Moves
  <2>2. ASSUME ~torn, NEW q \in Peers PROVE Readable(q)' /\ Kept(q)'
    <3>1. Readable(q) /\ Kept(q)
      BY <2>2 DEF NetInv
    <3>2. net'[q] = "tun" \/ net'[q] = net[q]
      BY <2>1 DEF NetInv, NetTyped
    <3> QED BY <2>1, <3>1, <3>2 DEF Readable, Kept
  <2> QED BY <1>1, <2>1, <2>2 DEF NetInv
<1>3. CASE p = "card"
  <2> SUFFICES ASSUME ~torn' PROVE \A q \in Peers : Readable(q)' /\ Kept(q)'
    BY <1>1 DEF NetInv
  <2> TAKE q \in Peers
  <2>1. /\ net["host"] \notin {"deliver", "finish"} /\ ~torn /\ net' = [net EXCEPT ![p] = "tun"]
        /\ ring' = [o \in Peers |-> Cleared] /\ UNCHANGED <<sending, sent, got>>
        /\ lost' = [o \in Peers |-> lost[o] \cup Unread(ring[Other(o)])]
    BY <1>3 DEF CreateOrOpen, Moves
  <2>2. net'[q] \notin {"deliver", "finish"} /\ ring'[q] = Cleared /\ ring'[Other(q)] = Cleared
    BY <1>3, <2>1, OtherPeer DEF NetInv, NetTyped, Peers
  <2>3. Readable(q)'
    BY <2>2, ClearedIsEmpty, RoomIsRoom DEF Readable
  <2>4. lost'[q] = lost[q] \cup Unread(ring[Other(q)]) /\ Kept(q)
    BY <2>1 DEF NetInv
  <2>5. Kept(q)'
    BY <2>1, <2>2, <2>4, ClearedIsEmpty DEF Kept
  <2> QED BY <2>3, <2>5
<1> QED BY <1>2, <1>3

LEMMA TunKeeps ==
  ASSUME NetInv, NetTyped', NEW p \in Peers, ReadTun(p) \/ WriteTimesOut(p) \/ ReadChannel(p)
  PROVE  NetInv'
<1>0. \A q \in Peers : /\ net[q] \in Sides /\ ring[q] \in NetRing /\ sent[q] \in Nat
                        /\ Used(ring[q]) \in Nat
  <2> TAKE q \in Peers
  <2>1. net[q] \in Sides /\ ring[q] \in NetRing /\ sent[q] \in Nat
    BY NetAssumption DEF NetInv, NetTyped, Stored
  <2>2. ring[q].r \in Slots /\ ring[q].w \in Slots
    BY <2>1 DEF NetRing
  <2> QED BY <2>1, <2>2, RingValues
<1>1. CASE ReadTun(p)
  <2>1. \A q \in Peers : Buffered(q)'
    BY <1>0, <1>1 DEF ReadTun, Moves, NetInv, NetTyped, Buffered
  <2>2. ASSUME ~torn, NEW q \in Peers PROVE Readable(q)' /\ Kept(q)'
    <3>1. Readable(q) /\ Kept(q) /\ Buffered(q) /\ UNCHANGED <<ring, got, lost>>
      BY <1>1, <2>2 DEF NetInv, ReadTun
    <3>2. Readable(q)'
      BY <1>1, <3>1 DEF Readable, ReadTun, Moves, NetInv, NetTyped
    <3>3. \/ sent'[q] = sent[q] /\ sending'[q] = sending[q]
          \/ sent'[q] = sent[q] + 1 /\ sending'[q] = sent[q] + 1 /\ sending[q] = 0
      BY <1>1, <3>1 DEF ReadTun, NetInv, NetTyped, Buffered
    <3>4. sent'[q] = sent[q] + 1 =>
            1..sent'[q] = 1..sent[q] \cup {sent[q] + 1} /\ 0 \notin 1..sent[q]
      BY <1>0
    <3> QED BY <3>1, <3>2, <3>3, <3>4 DEF Kept
  <2> QED BY <1>1, <2>1, <2>2 DEF NetInv, ReadTun
<1>2. CASE WriteTimesOut(p)
  <2>1. \A q \in Peers : Buffered(q)'
    BY <1>2 DEF WriteTimesOut, Moves, NetInv, NetTyped, Buffered
  <2>2. ASSUME ~torn, NEW q \in Peers PROVE Readable(q)' /\ Kept(q)'
    <3>1. Readable(q) /\ Kept(q) /\ UNCHANGED <<ring, got, sent>>
      BY <1>2, <2>2 DEF NetInv, WriteTimesOut
    <3>2. Readable(q)'
      BY <1>2, <3>1 DEF Readable, WriteTimesOut, Moves, NetInv, NetTyped
    <3>3. {sending[q]} \cup lost[q] \subseteq {sending'[q]} \cup lost'[q]
      BY <1>2 DEF WriteTimesOut, NetInv, NetTyped
    <3> QED BY <3>1, <3>2, <3>3 DEF Kept
  <2> QED BY <1>2, <2>1, <2>2 DEF NetInv, WriteTimesOut
<1>3. CASE ReadChannel(p)
  <2>1. \A q \in Peers : Buffered(q)'
    BY <1>3 DEF ReadChannel, Moves, NetInv, NetTyped, Buffered
  <2>2. ASSUME ~torn, NEW q \in Peers PROVE Readable(q)' /\ Kept(q)'
    <3>1. Readable(q) /\ Kept(q) /\ UNCHANGED <<ring, got, sent, sending, lost>>
      BY <1>3, <2>2 DEF NetInv, ReadChannel
    <3>2. Readable(q)'
      BY <1>0, <1>3, <3>1 DEF Readable, ReadChannel, Moves, NetInv, NetTyped
    <3> QED BY <3>1, <3>2 DEF Kept
  <2> QED BY <1>3, <2>1, <2>2 DEF NetInv, ReadChannel
<1> QED BY <1>1, <1>2, <1>3

LEMMA WriteKeeps ==
  ASSUME NetInv, NetTyped', NEW p \in Peers, WriteChannel(p)
  PROVE  NetInv'
<1> DEFINE o == Other(p)
           c == ring[o]
           d == Put(c, sending[p])
<1>1. /\ o \in Peers /\ o # p /\ Other(o) = p /\ c \in NetRing /\ sending[p] \in Stored
      /\ sending[p] \in 1..sent[p] /\ ring' = [ring EXCEPT ![o] = d]
      /\ net[p] = "write" /\ net' = [net EXCEPT ![p] = "read"] /\ ~(Used(c) >= RingRoom)
      /\ sending' = [sending EXCEPT ![p] = 0] /\ UNCHANGED <<sent, got, lost, torn>>
  BY OtherPeer, WriteIsPut DEF NetInv, NetTyped, WriteChannel, Moves, Full, Buffered
<1>2. \A q \in Peers : Buffered(q)'
  BY <1>1 DEF NetInv, NetTyped, Buffered
<1>3. Used(c) \in Nat /\ Used(c) + 1 <= RingRoom /\ Used(c) + 1 < RingSize /\ d \in NetRing
  <2>1. c.r \in Slots /\ c.w \in Slots
    BY <1>1 DEF NetRing
  <2>2. Used(c) \in Nat
    BY <2>1, RingValues
  <2> HIDE DEF c, o
  <2> QED BY <1>1, <2>2, RoomIsRoom, PutType
<1>4. /\ Used(d) = Used(c) + 1 /\ Unread(d) = Unread(c) \cup {sending[p]}
      /\ d.r = c.r /\ (Used(c) > 0 => d.box[d.r] = c.box[c.r])
  BY <1>1, <1>3, PutAppends
<1>5. ring'[o] = d /\ ring'[p] = ring[p]
  BY <1>1 DEF NetInv, NetTyped
<1>6. \A q \in Peers : q \in {o, p}
  BY DEF o, Peers, Other
<1>7. /\ net'[o] = net[o] /\ sending'[o] = sending[o] /\ net'[p] = "read" /\ sending'[p] = 0
  BY <1>1 DEF NetInv, NetTyped
<1> HIDE DEF o, c, d
<1>8. ASSUME ~torn PROVE \A q \in Peers : Readable(q)' /\ Kept(q)'
  <2>1. Readable(o) /\ Readable(p) /\ Kept(o) /\ Kept(p)
    BY <1>1, <1>8 DEF NetInv
  <2>2. Readable(o)'
    BY <1>1, <1>3, <1>4, <1>5, <1>7, <2>1 DEF Readable, c
  <2>3. Readable(p)'
    BY <1>1, <1>5, <1>7, <2>1 DEF Readable
  <2>4. Kept(p)'
    BY <1>1, <1>4, <1>5, <1>7, <2>1 DEF Kept, o, c
  <2>5. Kept(o)'
    BY <1>1, <1>5, <1>7, <2>1 DEF Kept
  <2> QED BY <1>6, <2>2, <2>3, <2>4, <2>5
<1> QED BY <1>1, <1>2, <1>8 DEF NetInv

LEMMA ReadKeeps ==
  ASSUME NetInv, NetTyped', NEW p \in Peers, WriteTun(p) \/ FinishPacket(p)
  PROVE  NetInv'
<1> DEFINE o == Other(p)
           c == ring[p]
           first == c.box[c.r]
<1>1. /\ o \in Peers /\ o # p /\ Other(o) = p /\ c \in NetRing
      /\ UNCHANGED <<sent, sending, lost, torn>>
  BY OtherPeer DEF NetInv, NetTyped, WriteTun, FinishPacket
<1>2. \A q \in Peers : Buffered(q)'
  BY DEF NetInv, NetTyped, Buffered, WriteTun, FinishPacket, Moves
<1>3. \A q \in Peers : q \in {o, p}
  BY DEF Peers, Other
<1>4. ASSUME ~torn PROVE \A q \in Peers : Readable(q)' /\ Kept(q)'
  <2> DEFINE d == [c EXCEPT !.r = Step(@)]
  <2>1. Readable(o) /\ Readable(p) /\ Kept(o) /\ Kept(p) /\ Used(c) > 0
    BY <1>1, <1>4 DEF NetInv, Readable, WriteTun, FinishPacket
  <2>2. d \in NetRing
    BY <1>1, RingValues DEF NetRing
  <2>3. Used(d) = Used(c) - 1 /\ Unread(c) = Unread(d) \cup {first}
    BY <1>1, <2>1, <2>2, FinishRemoves
  <2>4. CASE WriteTun(p)
    <3>1. /\ ring' = ring /\ got'[o] = got[o] /\ net'[o] = net[o]
          /\ \/ got'[p] = got[p] \cup {first} /\ net'[p] = "finish"
             \/ got'[p] = got[p] /\ net'[p] = "start"
      BY <1>1, <2>4 DEF WriteTun, Moves, NetInv, NetTyped
    <3> HIDE DEF o, c, first, d
    <3>2. Readable(o)' /\ Kept(p)'
      BY <1>1, <2>1, <3>1 DEF Readable, Kept, o
    <3>3. Readable(p)'
      BY <2>1, <3>1 DEF Readable, c, first
    <3>4. Kept(o)'
      BY <1>1, <2>1, <2>3, <3>1 DEF Kept, c
    <3> QED BY <1>3, <3>2, <3>3, <3>4
  <2>5. CASE FinishPacket(p)
    <3>1. /\ ring'[p] = d /\ ring'[o] = ring[o] /\ got' = got /\ net'[o] = net[o]
          /\ net'[p] = "tun" /\ first \in got[p]
      BY <1>1, <2>1, <2>5 DEF FinishPacket, Moves, NetInv, NetTyped, Readable
    <3>2. Used(c) \in Nat
      BY <1>1, RingValues DEF NetRing
    <3> HIDE DEF o, c, first, d
    <3>3. Readable(o)' /\ Kept(p)'
      BY <1>1, <2>1, <3>1 DEF Readable, Kept, o
    <3>4. Readable(p)'
      BY <2>1, <2>3, <3>1, <3>2, RoomIsRoom DEF Readable, c
    <3>5. Kept(o)'
      BY <1>1, <2>1, <2>3, <3>1 DEF Kept, c
    <3> QED BY <1>3, <3>3, <3>4, <3>5
  <2> QED BY <2>4, <2>5
<1> QED BY <1>1, <1>2, <1>4 DEF NetInv

(* What one daemon has read from its tun device reaches the other or is    *)
(* dropped knowingly, for rings of every size and any number of packets and*)
(* of ends of a daemon: no step loses it.                                  *)
THEOREM PacketsAreKept == NetSpec => []NoPacketVanishes
<1>1. NetInv /\ [NetNext]_netVars => NetInv'
  <2>1. ASSUME NetInv, UNCHANGED netVars PROVE NetInv'
    BY <2>1 DEF netVars, NetInv, NetTyped, Buffered, Readable, Kept
  <2>2. ASSUME NetInv, NetNext PROVE NetInv'
    <3>1. NetTyped'
      BY <2>2, NetTypeStep DEF NetInv
    <3> QED
      BY <2>2, <3>1, StartKeeps, TunKeeps, WriteKeeps, ReadKeeps DEF NetNext, NetPeer
  <2> QED BY <2>1, <2>2
<1>2. NetInv => NoPacketVanishes
  BY DEF NetInv, Kept, NoPacketVanishes
<1> QED BY <1>1, <1>2, NetBegins, PTL DEF NetSpec
-----------------------------------------------------------------------------
(* A channel of the BSP.  Its theorems are in HdChannel_proofs, next to    *)
(* those of the channel that it shares its ring with; here they are stated *)
(* of the module itself.                                                   *)
Hd == INSTANCE HdChannel_proofs

LEMMA BspConstants == Hd!ChannelAssumption
BY BspAssumption

LEMMA BspOperators ==
  /\ \A i, j : Ring!Distance(i, j) = Hd!Bsp!Ring!Distance(i, j)
  /\ \A i : Ring!Succ(i) = Hd!Bsp!Ring!Succ(i)
  /\ \A i : Ring!Message(i) = Hd!Bsp!Ring!Message(i)
  /\ \A r, n : Ring!FindSpace(r, n) = Hd!Bsp!Ring!FindSpace(r, n)
BY DEF Ring!Distance, Hd!Bsp!Ring!Distance, Ring!Succ, Hd!Bsp!Ring!Succ,
   Ring!Message, Hd!Bsp!Ring!Message, Ring!FindSpace, Hd!Bsp!Ring!FindSpace,
   Ring!Oldest, Hd!Bsp!Ring!Oldest, Ring!Newest, Hd!Bsp!Ring!Newest,
   Ring!EndOfNewest, Hd!Bsp!Ring!EndOfNewest, Ring!Pred, Hd!Bsp!Ring!Pred

LEMMA BspStarts == ChanInit => Hd!Bsp!ChanInit
BY DEF ChanInit, Hd!Bsp!ChanInit, Ring!Init, Hd!Bsp!Ring!Init, Ring!Slot,
   Hd!Bsp!Ring!Slot, Ring!Block, Hd!Bsp!Ring!Block

LEMMA BspWrites == Writing => Hd!Bsp!Writing
<1> USE DEF Ring!shared, Ring!writer, Ring!reader, Hd!Bsp!Ring!shared,
        Hd!Bsp!Ring!writer, Hd!Bsp!Ring!reader
<1>1. ASSUME NEW n \in PacketBlocks PROVE StartWrite(n) => Hd!Bsp!StartWrite(n)
  BY DEF StartWrite, Hd!Bsp!StartWrite, Ring!WriteStart, Hd!Bsp!Ring!WriteStart
<1>2. ASSUME NEW n \in PacketBlocks PROVE FinishWrite(n) => Hd!Bsp!FinishWrite(n)
  BY BspOperators DEF FinishWrite, Hd!Bsp!FinishWrite, Ring!WriteFinish,
     Hd!Bsp!Ring!WriteFinish
<1>3. ReserveSpace => Hd!Bsp!ReserveSpace
  BY BspOperators DEF ReserveSpace, Hd!Bsp!ReserveSpace, Ring!Reserve, Hd!Bsp!Ring!Reserve
<1>4. RetrySpace => Hd!Bsp!RetrySpace
  BY BspOperators DEF RetrySpace, Hd!Bsp!RetrySpace, Ring!WriteRetry, Hd!Bsp!Ring!WriteRetry
<1>5. GiveUpSpace => Hd!Bsp!GiveUpSpace
  BY BspOperators DEF GiveUpSpace, Hd!Bsp!GiveUpSpace, Ring!WriteTimeout,
     Hd!Bsp!Ring!WriteTimeout
<1>6. ASSUME NEW d \in Payload PROVE CopyIn(d) => Hd!Bsp!CopyIn(d)
  BY DEF CopyIn, Hd!Bsp!CopyIn, Ring!Fill, Hd!Bsp!Ring!Fill, Ring!Block, Hd!Bsp!Ring!Block
<1>7. AskInvalidate => Hd!Bsp!AskInvalidate
  BY DEF AskInvalidate, Hd!Bsp!AskInvalidate, Ring!Invalidate, Hd!Bsp!Ring!Invalidate
<1>8. Invalidated => Hd!Bsp!Invalidated
  BY DEF Invalidated, Hd!Bsp!Invalidated, Ring!InvalidateDone, Ring!InvalidateTimeout,
     Hd!Bsp!Ring!InvalidateDone, Hd!Bsp!Ring!InvalidateTimeout
<1> QED BY <1>1, <1>2, <1>3, <1>4, <1>5, <1>6, <1>7, <1>8 DEF Writing, Hd!Bsp!Writing

LEMMA BspReads == Reading => Hd!Bsp!Reading
<1> USE DEF Ring!shared, Ring!writer, Ring!reader, Hd!Bsp!Ring!shared,
        Hd!Bsp!Ring!writer, Hd!Bsp!Ring!reader
<1>1. TakeBack \/ LookAhead \/ JumpAhead
        => Hd!Bsp!TakeBack \/ Hd!Bsp!LookAhead \/ Hd!Bsp!JumpAhead
  BY DEF TakeBack, Hd!Bsp!TakeBack, LookAhead, Hd!Bsp!LookAhead, JumpAhead,
     Hd!Bsp!JumpAhead
<1>2. StartRead \/ NothingToRead => Hd!Bsp!StartRead \/ Hd!Bsp!NothingToRead
  BY DEF StartRead, Hd!Bsp!StartRead, NothingToRead, Hd!Bsp!NothingToRead,
     Ring!ReadStart, Hd!Bsp!Ring!ReadStart, Ring!ReadTimeout, Hd!Bsp!Ring!ReadTimeout
<1>3. TakePacket \/ FinishRead => Hd!Bsp!TakePacket \/ Hd!Bsp!FinishRead
  BY BspOperators DEF TakePacket, Hd!Bsp!TakePacket, FinishRead, Hd!Bsp!FinishRead,
     Ring!ReadTake, Hd!Bsp!Ring!ReadTake, Ring!ReadFinish, Hd!Bsp!Ring!ReadFinish
<1> QED BY <1>1, <1>2, <1>3 DEF Reading, Hd!Bsp!Reading

LEMMA BspSteps == ChanSpec => Hd!Bsp!ChanSpec
<1>1. [ChanNext]_chanVars => [Hd!Bsp!ChanNext]_(Hd!Bsp!chanVars)
  BY BspWrites, BspReads DEF ChanNext, Hd!Bsp!ChanNext, chanVars, Hd!Bsp!chanVars
<1> QED BY <1>1, BspStarts, PTL DEF ChanSpec, Hd!Bsp!ChanSpec

(* The queue that the one implements is the queue that the other does.     *)
LEMMA BspPackets ==
  /\ Left = Hd!Bsp!Left /\ Left' = Hd!Bsp!Left'
  /\ Ring!Message(readEntry) = Hd!Bsp!Ring!Message(readEntry)
  /\ Ring!Message(readEntry)' = Hd!Bsp!Ring!Message(readEntry)'
BY DEF Left, Hd!Bsp!Left, FirstLeft, Hd!Bsp!FirstLeft, Ring!Distance,
   Hd!Bsp!Ring!Distance, Ring!Message, Hd!Bsp!Ring!Message

LEMMA BspQueue == Hd!Bsp!LosesOnlyWhenAsked => LosesOnlyWhenAsked
<1> USE BspPackets
<1>1. Hd!Bsp!Queue!Init => Queue!Init
  BY DEF Queue!Init, Hd!Bsp!Queue!Init
<1>2. Hd!Bsp!DropUnasked => DropUnasked
  BY DEF DropUnasked, Hd!Bsp!DropUnasked
<1>3. UNCHANGED Hd!Bsp!Queue!fifoVars => UNCHANGED Queue!fifoVars
  BY DEF Queue!fifoVars, Hd!Bsp!Queue!fifoVars
<1>4. ASSUME Hd!Bsp!Queue!Next PROVE Queue!Next
  <2>1. \A m : Hd!Bsp!Queue!Put(m) => Queue!Put(m)
    BY DEF Queue!Put, Hd!Bsp!Queue!Put
  <2>2. Hd!Bsp!Queue!Take => Queue!Take
    BY DEF Queue!Take, Hd!Bsp!Queue!Take
  <2>3. Hd!Bsp!Queue!Release => Queue!Release
    BY DEF Queue!Release, Hd!Bsp!Queue!Release
  <2>4. Hd!Bsp!Queue!RequestFlush => Queue!RequestFlush
    BY DEF Queue!RequestFlush, Hd!Bsp!Queue!RequestFlush
  <2>5. Hd!Bsp!Queue!Flush => Queue!Flush
    BY DEF Queue!Flush, Hd!Bsp!Queue!Flush
  <2>6. Hd!Bsp!Queue!Acknowledge => Queue!Acknowledge
    BY DEF Queue!Acknowledge, Hd!Bsp!Queue!Acknowledge
  <2> QED BY <1>4, <2>1, <2>2, <2>3, <2>4, <2>5, <2>6 DEF Queue!Next, Hd!Bsp!Queue!Next
<1>5. [Hd!Bsp!Queue!Next \/ Hd!Bsp!DropUnasked]_(Hd!Bsp!Queue!fifoVars)
        => [Queue!Next \/ DropUnasked]_(Queue!fifoVars)
  BY <1>2, <1>3, <1>4
<1> QED BY <1>1, <1>5, PTL DEF LosesOnlyWhenAsked, Hd!Bsp!LosesOnlyWhenAsked

(* With the packet about to be published there is a descriptor to spare;   *)
(* bsp_channel_write_finish does not look.  Every channel has 1792 of them,*)
(* so areas of 2048 blocks and more need packets that are not that small.  *)
HasRoom ==
  wpc = "ready" => Ring!Distance(readEntry, writeEntry) + 1 < MaxEntries

LEMMA BspRoom == HasRoom => Hd!HasRoom
BY DEF HasRoom, Hd!HasRoom, Ring!Distance, Hd!Distance

(* A channel of the BSP that always has a descriptor to spare              *)
(* (bspchannel.c) loses packets only in a read_start that has just taken a *)
(* request back; all others are read whole, in order and once, whatever    *)
(* their lengths and the size of the area.                                 *)
THEOREM BspChannelLosesOnlyWhenAsked ==
  ChanSpec /\ []HasRoom => LosesOnlyWhenAsked
<1>1. Hd!Bsp!ChanSpec /\ []Hd!HasRoom => Hd!Bsp!LosesOnlyWhenAsked
  BY BspConstants, Hd!BspFifoWithRoom, PTL
<1> QED BY <1>1, BspSteps, BspRoom, BspQueue, PTL

(* Its two sides keep its types, whatever the sizes.                       *)
THEOREM ChanTypeInvariance == ChanSpec => []ChanTypeOK
<1>1. Hd!Bsp!ChanTypeOK => ChanTypeOK
  BY DEF ChanTypeOK, Hd!Bsp!ChanTypeOK, Ring!TypeOK, Hd!Bsp!Ring!TypeOK, Ring!Slot,
     Hd!Bsp!Ring!Slot, Ring!Block, Hd!Bsp!Ring!Block
<1>2. Hd!Bsp!ChanSpec => []Hd!Bsp!ChanTypeOK
  BY BspConstants, Hd!BspTypeCorrect, PTL
<1> QED BY <1>1, <1>2, BspSteps, PTL
=============================================================================
