--------------------------- MODULE BspSide_proofs ---------------------------
(***************************************************************************)
(* The life of the BSP, for any number of starts: the watchdog kills no    *)
(* BSP that ticks, as long as none was started beside one coming up.       *)
(*                                                                         *)
(* Then the parts around the card together: a behaviour of MCBspSide is    *)
(* one of each of its parts, so what was proved of a part holds there.     *)
(***************************************************************************)
EXTENDS MCBspSide, BspShm_proofs, ChanUse_proofs, TLAPS

-----------------------------------------------------------------------------
(* The life cycle of the BSP.                                              *)

LifePhases == {"idle"} \cup Coming \cup Erun \cup Ending

Flags == [enable : BOOLEAN, auto : BOOLEAN, kill : BOOLEAN, shutdown : BOOLEAN,
          status : BOOLEAN, demoStart : BOOLEAN, demoStop : BOOLEAN,
          demoRunning : BOOLEAN]
Places == {"enable", "starting", "kill", "killing", "watchdog", "demo", "exit", "gone"}
MainState == [pc : Places, timer : {"off", "on", "over"}, enabled : BOOLEAN]

LifeTyped ==
  /\ bspd \in Flags /\ wd \in [now : 0..1, last : 0..2] /\ main \in MainState
  /\ starter \in [Starters -> LifePhases]

(* A BSP that says that it runs is there, or has just died.                *)
Reported == bspd.status => Some({"up", "ticking", "hung", "stuck", "dead"})

(* As long as no BSP was started while another one came up: there is one,  *)
(* it says so when it runs, and the thread of the one before is done.      *)
OneBsp ==
  \A t, u \in Starters :
    starter[t] \in Coming \cup Erun /\ starter[u] \in Coming \cup Erun => t = u
Reports == Some({"up", "ticking", "hung"}) => bspd.status
EndsAlone == Some(Ending) => ~Some(Erun)
BeginsAlone ==
  /\ Some({"zero"}) => main.pc = "starting"
  /\ main.pc # "starting" /\ Some(Coming \cup Erun) => ~Some(Ending)

(* Until the first tick nothing is left of the time of the one before, and *)
(* the timer never runs out on a BSP that ticks.                           *)
NoTick == Some({"script", "boot", "up", "stuck"})
FreshBsp ==
  /\ NoTick => wd.now = 0 /\ wd.last = 0
  /\ main.pc # "starting" /\ NoTick => main.timer = "off"
  /\ main.pc # "starting" /\ main.timer = "over" => ~Some({"ticking"})

Order == OneBsp /\ Reports /\ EndsAlone /\ BeginsAlone /\ FreshBsp
LifeInv == LifeTyped /\ Reported /\ (~doubled => Order)

LEMMA LifeBegins == LifeInit => LifeInv
<1> SUFFICES ASSUME LifeInit PROVE LifeInv
  OBVIOUS
<1>1. bspd \in Flags
  BY DEF LifeInit, Flags
<1>3. main \in MainState
  BY DEF LifeInit, MainState, Places
<1>4. LifeTyped
  BY <1>1, <1>3 DEF LifeInit, LifeTyped, LifePhases
<1>2. Reported /\ (~doubled => Order)
  BY DEF LifeInit, Reported, Order, OneBsp, Reports, EndsAlone, BeginsAlone, FreshBsp, NoTick, Some, Coming, Erun, Ending
<1> QED BY <1>2, <1>4 DEF LifeInv

(* Types, one variable after the other.                                    *)
LEMMA FlagsStep ==
  ASSUME bspd \in Flags, [LifeNext]_lifeVars
  PROVE  bspd' \in Flags
<1>1. CASE AskEnable
  BY <1>1 DEF AskEnable, Wish, Flags
<1>2. CASE AskDemo \/ AskShutdown \/ NoRestart \/ AskKill
  BY <1>2 DEF AskDemo, AskShutdown, NoRestart, AskKill, Wish, Flags
<1>3. ASSUME NEW t \in Starters, Boot(t) PROVE bspd' \in Flags
  BY <1>3 DEF Boot, Flags
<1>4. ASSUME NEW t \in Starters, Died(t) PROVE bspd' \in Flags
  BY <1>4 DEF Died, Flags
<1>5. ASSUME NEW t \in Demos, DemoThread(t) PROVE bspd' \in Flags
  BY <1>5 DEF DemoThread, DemoUp, DemoOver, Flags
<1>6. CASE Enable
  BY <1>6 DEF Enable, Flags
<1>7. CASE Kill
  BY <1>7 DEF Kill, Flags
<1>8. CASE Watchdog
  <2>1. bspd' = [bspd EXCEPT !.kill = @ \/ TimedOut]
    BY <1>8 DEF Watchdog
  <2> QED BY <2>1 DEF Flags
<1>9. CASE DemoStart
  <2>1. bspd' = [bspd EXCEPT !.demoStart = FALSE,
                             !.enable = @ \/ DemoStarts,
                             !.demoRunning = @ \/ DemoStarts,
                             !.demoStop = (@ /\ ~DemoStarts) \/ bspd.shutdown]
    BY <1>9 DEF DemoStart
  <2>2. ASSUME NEW e \in BOOLEAN, NEW r \in BOOLEAN, NEW s \in BOOLEAN
        PROVE  [bspd EXCEPT !.demoStart = FALSE, !.enable = e,
                            !.demoRunning = r, !.demoStop = s] \in Flags
    BY DEF Flags
  <2>3. /\ (bspd.enable \/ DemoStarts) \in BOOLEAN
        /\ (bspd.demoRunning \/ DemoStarts) \in BOOLEAN
        /\ ((bspd.demoStop /\ ~DemoStarts) \/ bspd.shutdown) \in BOOLEAN
    OBVIOUS
  <2> QED BY <2>1, <2>2, <2>3
<1>10. CASE Exit
  BY <1>10 DEF Exit, Flags
<1>11. ASSUME NEW t \in Starters, Run(t) \/ Clear(t) \/ TickOver(t) \/ Fault(t)
       PROVE  bspd' = bspd
  BY <1>11 DEF Run, Clear, TickOver, Fault
<1>12. CASE Started \/ Killing \/ TenSeconds \/ UNCHANGED lifeVars
  BY <1>12 DEF Started, Killing, TenSeconds, lifeVars
<1> QED BY <1>1, <1>2, <1>3, <1>4, <1>5, <1>6, <1>7, <1>8, <1>9, <1>10, <1>11, <1>12
     DEF LifeNext, Asks, Loops, Bsp, BspThread

LEMMA MainStep ==
  ASSUME main \in MainState, [LifeNext]_lifeVars
  PROVE  main' \in MainState
<1>1. CASE Enable \/ Kill \/ DemoStart \/ Exit
  <2>1. \E at \in Places : main' = [main EXCEPT !.pc = at]
    <3>1. CASE Enable
      BY <1>1, <3>1 DEF Enable, Goto, Places
    <3>2. CASE Kill
      BY <1>1, <3>2 DEF Kill, Goto, Places
    <3>3. CASE DemoStart
      BY <1>1, <3>3 DEF DemoStart, Goto, Places
    <3>4. CASE Exit
      BY <1>1, <3>4 DEF Exit, Goto, Places
    <3> QED BY <1>1, <3>1, <3>2, <3>3, <3>4
  <2>2. PICK at \in Places : main' = [main EXCEPT !.pc = at]
    BY <2>1
  <2> QED BY <2>2 DEF MainState
<1>2. CASE Started \/ Killing
  <2>1. \/ main' = [pc |-> "kill", timer |-> "off", enabled |-> TRUE]
        \/ main' = [pc |-> "watchdog", timer |-> "off", enabled |-> FALSE]
    BY <1>2 DEF Started, Killing
  <2>2. "kill" \in Places /\ "watchdog" \in Places
    BY DEF Places
  <2>3. ASSUME NEW at \in Places, NEW enabled \in BOOLEAN
        PROVE  [pc |-> at, timer |-> "off", enabled |-> enabled] \in MainState
    BY DEF MainState
  <2> QED BY <2>1, <2>2, <2>3
<1>7. CASE TenSeconds
  BY <1>7 DEF TenSeconds, MainState
<1>3. CASE Watchdog
  <2>1. main' = [main EXCEPT !.pc = "demo", !.timer = IF TimedOut THEN "off" ELSE Timer]
    BY <1>3 DEF Watchdog
  <2>2. (IF TimedOut THEN "off" ELSE Timer) \in {"off", "on", "over"}
    BY DEF Timer, MainState
  <2> QED BY <2>1, <2>2 DEF MainState, Places
<1>4. ASSUME NEW t \in Starters, Bsp(t) \/ TickOver(t) \/ Fault(t)
      PROVE  main' = main
  BY <1>4 DEF Bsp, Boot, BspThread, Run, Died, Clear, TickOver, Fault
<1>5. ASSUME NEW t \in Demos, DemoThread(t) PROVE main' = main
  BY <1>5 DEF DemoThread, DemoUp, DemoOver
<1>6. CASE Asks \/ UNCHANGED lifeVars
  BY <1>6 DEF Asks, AskEnable, AskDemo, AskShutdown, NoRestart, AskKill, Wish, lifeVars
<1> QED BY <1>1, <1>2, <1>3, <1>4, <1>5, <1>6, <1>7 DEF LifeNext, Loops

LEMMA KilledIs ==
  ASSUME NEW s \in [Starters -> LifePhases]
  PROVE  /\ Killed(s) \in [Starters -> LifePhases]
         /\ \A t \in Starters : Killed(s)[t] = IF s[t] \in Erun THEN "dead" ELSE s[t]
BY DEF Killed, LifePhases, Ending

LEMMA StarterStep ==
  ASSUME starter \in [Starters -> LifePhases], [LifeNext]_lifeVars
  PROVE  starter' \in [Starters -> LifePhases]
<1>1. ASSUME NEW t \in Starters, Boot(t) \/ Fault(t)
      PROVE  starter' \in [Starters -> LifePhases]
  BY <1>1 DEF Boot, Fault, Becomes, LifePhases, Coming, Erun, Ending
<1>2. ASSUME NEW t \in Starters, Died(t) \/ Clear(t)
      PROVE  starter' \in [Starters -> LifePhases]
  BY <1>2 DEF Died, Clear, Becomes, LifePhases, Ending
<1>3. ASSUME NEW t \in Starters, Run(t)
      PROVE  starter' \in [Starters -> LifePhases]
  BY <1>3, KilledIs DEF Run, LifePhases, Coming
<1>4. CASE Enable
  BY <1>4 DEF Enable, Becomes, LifePhases, Coming
<1>5. CASE Killing \/ Exit
  BY <1>5, KilledIs DEF Killing, Exit
<1>6. ASSUME NEW t \in Starters, TickOver(t) PROVE starter' = starter
  BY <1>6 DEF TickOver
<1>7. ASSUME NEW t \in Demos, DemoThread(t) PROVE starter' = starter
  BY <1>7 DEF DemoThread, DemoUp, DemoOver
<1>8. CASE Started \/ Kill \/ Watchdog \/ DemoStart \/ TenSeconds
  BY <1>8 DEF Started, Kill, Watchdog, DemoStart, TenSeconds
<1>9. CASE Asks \/ UNCHANGED lifeVars
  BY <1>9 DEF Asks, AskEnable, AskDemo, AskShutdown, NoRestart, AskKill, Wish, lifeVars
<1> QED BY <1>1, <1>2, <1>3, <1>4, <1>5, <1>6, <1>7, <1>8, <1>9
     DEF LifeNext, Loops, Bsp, BspThread

LEMMA WdStep ==
  ASSUME wd \in [now : 0..1, last : 0..2], [LifeNext]_lifeVars
  PROVE  wd' \in [now : 0..1, last : 0..2]
<1>1. ASSUME NEW t \in Starters, Bsp(t) \/ TickOver(t) \/ Fault(t)
      PROVE  wd' \in [now : 0..1, last : 0..2]
  BY <1>1 DEF Bsp, Boot, BspThread, Run, Died, Clear, TickOver, Fault
<1>2. CASE Watchdog
  BY <1>2 DEF Watchdog
<1>3. ASSUME NEW t \in Demos, DemoThread(t) PROVE wd' = wd
  BY <1>3 DEF DemoThread, DemoUp, DemoOver
<1>4. CASE Enable \/ Started \/ Kill \/ Killing \/ DemoStart \/ Exit \/ TenSeconds
  BY <1>4 DEF Enable, Started, Kill, Killing, DemoStart, Exit, TenSeconds
<1>5. CASE Asks \/ UNCHANGED lifeVars
  BY <1>5 DEF Asks, AskEnable, AskDemo, AskShutdown, NoRestart, AskKill, Wish, lifeVars
<1> QED BY <1>1, <1>2, <1>3, <1>4, <1>5 DEF LifeNext, Loops

LEMMA LifeTypedStep ==
  ASSUME LifeTyped, [LifeNext]_lifeVars
  PROVE  LifeTyped'
BY FlagsStep, MainStep, StarterStep, WdStep DEF LifeTyped

(* The demo threads, what was asked for last, and the counters.            *)
LEMMA RestTypedStep ==
  ASSUME LifeTypeOK, [LifeNext]_lifeVars
  PROVE  /\ demo' \in [Demos -> {"idle", "wait", "play"}]
         /\ wish' \in {"run", "halt", "stop", "any"} /\ doubled' \in BOOLEAN
         /\ wishes' \in 0..MaxWishes /\ faults' \in 0..MaxFaults
<1> USE LifeAssumption DEF LifeTypeOK
<1>1. CASE Asks
  <2>1. \E flags : \E w \in {"run", "halt", "stop", "any"} : Wish(flags, w)
    BY <1>1 DEF Asks, AskEnable, AskDemo, AskShutdown, NoRestart, AskKill
  <2> QED BY <2>1 DEF Wish
<1>2. ASSUME NEW t \in Starters, Fault(t)
      PROVE  UNCHANGED <<demo, wish, doubled, wishes>> /\ faults' \in 0..MaxFaults
  BY <1>2 DEF Fault
<1>3. ASSUME NEW t \in Starters, Bsp(t) \/ TickOver(t)
      PROVE  UNCHANGED <<demo, history>>
  BY <1>3 DEF Bsp, Boot, TickOver, BspThread, Run, Died, Clear
<1>4. ASSUME NEW t \in Demos, DemoThread(t)
      PROVE  UNCHANGED history /\ demo' \in [Demos -> {"idle", "wait", "play"}]
  BY <1>4 DEF DemoThread, DemoUp, DemoOver
<1>5. CASE Enable
  BY <1>5 DEF Enable
<1>6. CASE DemoStart
  BY <1>6 DEF DemoStart, history
<1>7. CASE Started \/ Kill \/ Killing \/ Watchdog \/ Exit \/ TenSeconds \/ UNCHANGED lifeVars
  BY <1>7 DEF Started, Kill, Killing, Watchdog, Exit, TenSeconds, lifeVars, history
<1> QED BY <1>1, <1>2, <1>3, <1>4, <1>5, <1>6, <1>7 DEF LifeNext, Loops, history

(* The daemon, its threads and the BSP (bspd.c) keep the types of their    *)
(* flags, counters and places in the code, for every number of threads,    *)
(* requests and faults.                                                    *)
THEOREM LifeTypeInvariance == LifeSpec => []LifeTypeOK
<1>1. [{"enable", "auto", "kill", "shutdown", "status", "demoStart",
        "demoStop", "demoRunning"} -> BOOLEAN] = Flags
  BY DEF Flags
<1>2. LifeInit => LifeTypeOK
  <2> SUFFICES ASSUME LifeInit PROVE LifeTypeOK
    OBVIOUS
  <2>1. LifeTyped
    BY LifeBegins DEF LifeInv
  <2>2. demo \in [Demos -> {"idle", "wait", "play"}]
    BY DEF LifeInit
  <2>3. wish \in {"run", "halt", "stop", "any"} /\ doubled \in BOOLEAN
    BY DEF LifeInit
  <2>4. wishes \in 0..MaxWishes /\ faults \in 0..MaxFaults
    BY LifeAssumption DEF LifeInit
  <2> QED BY <1>1, <2>1, <2>2, <2>3, <2>4 DEF LifeTyped, LifeTypeOK, LifePhases, MainState, Places
<1>3. LifeTypeOK /\ [LifeNext]_lifeVars => LifeTypeOK'
  <2> SUFFICES ASSUME LifeTypeOK, [LifeNext]_lifeVars PROVE LifeTypeOK'
    OBVIOUS
  <2>1. LifeTyped
    BY <1>1 DEF LifeTypeOK, LifeTyped, LifePhases, MainState, Places
  <2>2. LifeTyped'
    BY <2>1, LifeTypedStep
  <2> QED BY <1>1, <2>2, RestTypedStep
       DEF LifeTyped, LifeTypeOK, LifePhases, MainState, Places
<1> QED BY <1>2, <1>3, PTL DEF LifeSpec

-----------------------------------------------------------------------------
(* The life cycle: steps that keep starter, and those that kill.           *)

(* What the invariant depends on.                                          *)
OrderVars == <<bspd.status, wd, main, starter, doubled>>

LEMMA OrderKept ==
  ASSUME LifeInv, UNCHANGED OrderVars
  PROVE  Reported' /\ (~doubled' => Order')
BY DEF LifeInv, OrderVars, Reported, Order, OneBsp, Reports, EndsAlone, BeginsAlone,
       FreshBsp, NoTick, Some

(* The daemon and its clock go on, or the demo, and the BSPs stay as they  *)
(* are.                                                                    *)
LEMMA PlaceStep ==
  ASSUME LifeInv, UNCHANGED <<wd, starter, doubled>>, bspd'.status = bspd.status,
         main.pc # "starting", main'.pc # "starting", main'.timer = main.timer
  PROVE  Reported' /\ (~doubled' => Order')
<1>1. Reported'
  BY DEF LifeInv, Reported, Some
<1>2. ASSUME Order PROVE Order'
  <2>1. OneBsp' /\ Reports' /\ EndsAlone' /\ BeginsAlone'
    BY <1>2 DEF Order, OneBsp, Reports, EndsAlone, BeginsAlone, Some
  <2>2. NoTick' = NoTick /\ Some({"ticking"})' = Some({"ticking"})
    BY DEF NoTick, Some
  <2>3. FreshBsp'
    BY <1>2, <2>2 DEF Order, FreshBsp
  <2> QED BY <2>1, <2>3 DEF Order
<1> QED BY <1>1, <1>2 DEF LifeInv

LEMMA KillStep ==
  ASSUME LifeInv, starter' = Killed(starter), main.pc # "starting", main'.pc # "starting",
         UNCHANGED <<wd, doubled>>, bspd'.status => bspd.status,
         main'.timer = main.timer \/ main'.timer = "off"
  PROVE  Reported' /\ (~doubled' => Order')
<1>1. \A t \in Starters : starter'[t] = IF starter[t] \in Erun THEN "dead" ELSE starter[t]
  BY KilledIs DEF LifeInv, LifeTyped
<1>2. \A t \in Starters : starter'[t] \notin Erun
  BY <1>1 DEF Erun
<1>3. Reported'
  BY <1>1 DEF LifeInv, Reported, Some, Erun
<1>4. ASSUME Order PROVE Order'
  <2>1. OneBsp' /\ Reports' /\ EndsAlone'
    BY <1>1, <1>2, <1>4 DEF Order, OneBsp, Reports, EndsAlone, Some, Coming, Erun
  <2>2. BeginsAlone'
    BY <1>1, <1>2, <1>4 DEF Order, OneBsp, BeginsAlone, Some, Coming, Erun, Ending
  <2>3. FreshBsp'
    BY <1>1, <1>2, <1>4 DEF Order, FreshBsp, NoTick, Some, Erun
  <2> QED BY <2>1, <2>2, <2>3 DEF Order
<1> QED BY <1>3, <1>4 DEF LifeInv

-----------------------------------------------------------------------------
(* The life cycle: steps of a thread and its BSP.                          *)

(* One thread goes on.                                                     *)
PhaseMoves(t) == \A u \in Starters : u # t => starter'[u] = starter[u]

LEMMA BecomesIs ==
  ASSUME LifeTyped, NEW t \in Starters, NEW stage, Becomes(t, stage)
  PROVE  starter'[t] = stage /\ PhaseMoves(t)
BY DEF LifeTyped, Becomes, PhaseMoves

LEMMA BootStep ==
  ASSUME LifeInv, NEW t \in Starters, Boot(t)
  PROVE  Reported' /\ (~doubled' => Order')
<1>1. /\ starter[t] \in {"script", "boot", "up"} /\ ~Some(Ending)
      /\ starter'[t] = CASE starter[t] = "script" -> "boot"
                         [] starter[t] = "boot" -> "up"
                         [] starter[t] = "up" -> "ticking"
      /\ PhaseMoves(t) /\ main' = main /\ doubled' = doubled
  BY BecomesIs DEF Boot, LifeInv, history
<1>2. /\ bspd'.status <=> bspd.status \/ starter[t] = "boot"
      /\ wd'.now = (IF starter[t] = "up" THEN 1 ELSE wd.now) /\ wd'.last = wd.last
  BY DEF Boot, LifeInv, LifeTyped, Flags
<1>3. Reported'
  BY <1>1, <1>2 DEF LifeInv, Reported, Some, PhaseMoves
<1>4. ASSUME Order PROVE Order'
  <2>1. \A u \in Starters : u # t => starter[u] \notin Coming \cup Erun
    BY <1>1, <1>4 DEF Order, OneBsp, Coming, Erun
  <2>2. OneBsp'
    BY <1>1, <2>1 DEF OneBsp, PhaseMoves
  <2>3. Reports'
    BY <1>1, <1>2, <1>4, <2>1 DEF Order, Reports, Some, PhaseMoves, Erun
  <2>4. EndsAlone' /\ BeginsAlone'
    BY <1>1, <1>4, <2>1 DEF Order, BeginsAlone, EndsAlone, Some, PhaseMoves, Coming, Erun, Ending
  <2>5. NoTick' => NoTick /\ starter[t] # "up"
    BY <1>1, <2>1 DEF NoTick, Some, PhaseMoves, Coming, Erun
  <2>6. Some({"ticking"})' => starter[t] = "up"
    BY <1>1, <2>1 DEF Some, PhaseMoves, Erun
  <2>7. FreshBsp'
    BY <1>1, <1>2, <1>4, <2>5, <2>6 DEF Order, FreshBsp, NoTick, Some
  <2> QED BY <2>2, <2>3, <2>4, <2>7 DEF Order
<1> QED BY <1>1, <1>3, <1>4 DEF LifeInv

LEMMA TickOverStep ==
  ASSUME LifeInv, NEW t \in Starters, TickOver(t)
  PROVE  Reported' /\ (~doubled' => Order')
<1>1. starter[t] = "ticking" /\ UNCHANGED <<bspd, main, starter, doubled>>
  BY DEF TickOver, history
<1>2. Reported'
  BY <1>1 DEF LifeInv, Reported, Some
<1>3. ASSUME Order PROVE Order'
  <2>1. OneBsp' /\ Reports' /\ EndsAlone' /\ BeginsAlone'
    BY <1>1, <1>3 DEF Order, OneBsp, Reports, EndsAlone, BeginsAlone, Some
  <2>2. ~NoTick'
    BY <1>1, <1>3 DEF Order, OneBsp, NoTick, Some, Coming, Erun
  <2>3. FreshBsp'
    BY <1>1, <1>3, <2>2 DEF Order, FreshBsp, Some
  <2> QED BY <2>1, <2>3 DEF Order
<1> QED BY <1>1, <1>2, <1>3 DEF LifeInv

LEMMA FaultStep ==
  ASSUME LifeInv, NEW t \in Starters, Fault(t)
  PROVE  Reported' /\ (~doubled' => Order')
<1>1. /\ starter[t] \in Erun /\ UNCHANGED <<bspd, wd, main, doubled>> /\ PhaseMoves(t)
      /\ \/ starter'[t] = "dead"
         \/ starter[t] = "ticking" /\ starter'[t] = "hung"
         \/ starter[t] \in {"boot", "up"} /\ starter'[t] = "stuck"
  BY BecomesIs DEF Fault, LifeInv
<1>2. Reported'
  BY <1>1 DEF LifeInv, Reported, Some, PhaseMoves
<1>3. ASSUME Order PROVE Order'
  <2>1. \A u \in Starters : u # t => starter[u] \notin Coming \cup Erun
    BY <1>1, <1>3 DEF Order, OneBsp
  <2>2. OneBsp' /\ Reports'
    BY <1>1, <1>3, <2>1 DEF Order, OneBsp, Reports, Some, PhaseMoves, Coming, Erun
  <2>3. EndsAlone'
    BY <1>1, <1>3, <2>1 DEF Order, EndsAlone, Some, PhaseMoves, Erun, Ending
  <2>4. BeginsAlone'
    BY <1>1, <1>3, <2>1 DEF Order, BeginsAlone, Some, PhaseMoves, Coming, Erun, Ending
  <2>5. (NoTick' => NoTick) /\ (Some({"ticking"})' => Some({"ticking"}))
    BY <1>1, <2>1 DEF NoTick, Some, PhaseMoves, Coming, Erun
  <2>6. FreshBsp'
    BY <1>1, <1>3, <2>5 DEF Order, FreshBsp
  <2> QED BY <2>2, <2>3, <2>4, <2>6 DEF Order
<1> QED BY <1>1, <1>2, <1>3 DEF LifeInv

LEMMA RunStep ==
  ASSUME LifeInv, NEW t \in Starters, Run(t)
  PROVE  Reported' /\ (~doubled' => Order')
<1>1. /\ starter[t] = "zero" /\ UNCHANGED <<bspd, main, doubled>>
      /\ wd'.now = 0 /\ wd'.last = 0 /\ starter'[t] = "script"
      /\ \A u \in Starters :
           u # t => starter'[u] = IF starter[u] \in Erun THEN "dead" ELSE starter[u]
  BY KilledIs DEF Run, LifeInv, LifeTyped, history
<1>2. Reported'
  BY <1>1 DEF LifeInv, Reported, Some, Erun
<1>3. ASSUME Order PROVE Order'
  <2>1. \A u \in Starters : u # t => starter[u] \notin Coming \cup Erun
    BY <1>1, <1>3 DEF Order, OneBsp, Coming
  <2>2. \A u \in Starters : u # t => starter'[u] = starter[u]
    BY <1>1, <2>1
  <2>3. OneBsp' /\ Reports' /\ EndsAlone'
    BY <1>1, <1>3, <2>1, <2>2 DEF Order, OneBsp, Reports, EndsAlone, Some, Coming, Erun
  <2>4. main.pc = "starting"
    BY <1>1, <1>3 DEF Order, BeginsAlone, Some
  <2>5. BeginsAlone' /\ FreshBsp'
    BY <1>1, <2>4 DEF BeginsAlone, FreshBsp
  <2> QED BY <2>3, <2>5 DEF Order
<1> QED BY <1>1, <1>2, <1>3 DEF LifeInv

LEMMA DiedStep ==
  ASSUME LifeInv, NEW t \in Starters, Died(t)
  PROVE  Reported' /\ (~doubled' => Order')
<1>1. /\ starter[t] = "dead" /\ starter'[t] = "clear" /\ PhaseMoves(t)
      /\ UNCHANGED <<wd, main, doubled>>
  BY BecomesIs DEF Died, LifeInv, history
<1>2. ~bspd'.status
  BY DEF Died, LifeInv, LifeTyped, Flags
<1>3. ASSUME Order PROVE Order'
  <2>1. OneBsp'
    BY <1>1, <1>3 DEF Order, OneBsp, PhaseMoves, Coming, Erun
  <2>2. Reports' /\ EndsAlone'
    BY <1>1, <1>3 DEF Order, EndsAlone, Reports, Some, PhaseMoves, Erun, Ending
  <2>3. BeginsAlone'
    BY <1>1, <1>3 DEF Order, BeginsAlone, Some, PhaseMoves, Coming, Erun, Ending
  <2>4. FreshBsp'
    BY <1>1, <1>3 DEF Order, FreshBsp, NoTick, Some, PhaseMoves
  <2> QED BY <2>1, <2>2, <2>3, <2>4 DEF Order
<1> QED BY <1>1, <1>2, <1>3 DEF LifeInv, Reported

LEMMA ClearStep ==
  ASSUME LifeInv, NEW t \in Starters, Clear(t)
  PROVE  Reported' /\ (~doubled' => Order')
<1>1. /\ starter[t] \in {"clear", "cleared"} /\ starter'[t] \in {"cleared", "idle"} /\ PhaseMoves(t)
      /\ UNCHANGED <<bspd, main, doubled>>
      /\ wd.now = 0 => wd'.now = 0
      /\ wd.last = 0 => wd'.last = 0
  BY BecomesIs DEF Clear, LifeInv, LifeTyped, history
<1>2. Reported'
  BY <1>1 DEF LifeInv, Reported, Some, PhaseMoves
<1>3. ASSUME Order PROVE Order'
  <2>1. OneBsp' /\ Reports'
    BY <1>1, <1>3 DEF Order, OneBsp, Reports, Some, PhaseMoves, Coming, Erun
  <2>2. EndsAlone'
    BY <1>1, <1>3 DEF Order, EndsAlone, Some, PhaseMoves, Erun, Ending
  <2>3. BeginsAlone'
    BY <1>1, <1>3 DEF Order, BeginsAlone, Some, PhaseMoves, Coming, Erun, Ending
  <2>4. FreshBsp'
    BY <1>1, <1>3 DEF Order, FreshBsp, NoTick, Some, PhaseMoves
  <2> QED BY <2>1, <2>2, <2>3, <2>4 DEF Order
<1> QED BY <1>1, <1>2, <1>3 DEF LifeInv

-----------------------------------------------------------------------------
(* The life cycle: steps of the daemon.                                    *)

(* A BSP is started: unless another one is coming up, there is none.       *)
LEMMA EnableStep ==
  ASSUME LifeInv, Enable
  PROVE  Reported' /\ (~doubled' => Order')
<1>1. CASE bspd.enable /\ ~bspd.status
  <2>1. /\ main'.pc = "starting" /\ wd' = wd /\ bspd'.status = bspd.status
        /\ doubled' = (doubled \/ Some(Coming \cup {"stuck"}))
    BY <1>1 DEF Enable, Goto, LifeInv, LifeTyped, Flags, MainState
  <2>2. \A t \in Starters : starter'[t] = starter[t]
                             \/ (starter[t] = "idle" /\ starter'[t] = "zero")
    BY <1>1 DEF Enable, Some, Becomes, LifeInv, LifeTyped
  <2>3. Reported'
    BY <1>1, <2>1 DEF Reported
  <2>4. ASSUME ~doubled, ~Some(Coming \cup {"stuck"}), Order PROVE Order'
    <3>1. \A t \in Starters : starter[t] \notin Coming \cup Erun
      <4>1. ~Some({"up", "ticking", "hung"})
        BY <1>1, <2>4 DEF Order, Reports
      <4> QED BY <2>4, <4>1 DEF Some, Coming, Erun
    <3>2. OneBsp'
      <4>1. CASE Some({"idle"})
        <5> DEFINE t == CHOOSE u \in Starters : starter[u] = "idle"
        <5>1. Becomes(t, "zero")
          BY <1>1, <4>1 DEF Enable
        <5> HIDE DEF t
        <5>2. \A u \in Starters : u # t => starter'[u] = starter[u]
          BY <5>1 DEF Becomes, LifeInv, LifeTyped
        <5> QED BY <3>1, <5>2 DEF OneBsp
      <4>2. CASE ~Some({"idle"})
        BY <1>1, <3>1, <4>2 DEF Enable, OneBsp
      <4> QED BY <4>1, <4>2
    <3>3. Reports' /\ EndsAlone'
      BY <2>2, <3>1 DEF Reports, EndsAlone, Some, Erun
    <3>4. BeginsAlone'
      BY <2>1 DEF BeginsAlone
    <3>5. ~NoTick'
      BY <2>2, <3>1 DEF NoTick, Some, Coming, Erun
    <3>6. FreshBsp'
      BY <2>1, <3>5 DEF FreshBsp
    <3> QED BY <3>2, <3>3, <3>4, <3>6 DEF Order
  <2> QED BY <2>1, <2>3, <2>4 DEF LifeInv
<1>2. CASE ~(bspd.enable /\ ~bspd.status)
  <2>1. /\ UNCHANGED <<wd, starter, doubled>> /\ bspd'.status = bspd.status
        /\ main'.pc = "kill" /\ main.pc = "enable" /\ main'.timer = main.timer
    BY <1>2 DEF Enable, Goto, LifeInv, LifeTyped, Flags, MainState
  <2> QED BY <2>1, PlaceStep
<1> QED BY <1>1, <1>2

LEMMA StartedStep ==
  ASSUME LifeInv, Started
  PROVE  Reported' /\ (~doubled' => Order')
<1>1. /\ main.pc = "starting" /\ main'.pc = "kill" /\ main'.timer = "off"
      /\ UNCHANGED <<bspd, wd, starter, doubled>> /\ ~Some({"zero"} \cup Ending)
  BY DEF Started, StartSleepOver, history
<1>2. Reported'
  BY <1>1 DEF LifeInv, Reported, Some
<1>3. ASSUME Order PROVE Order'
  <2>1. OneBsp' /\ Reports' /\ EndsAlone'
    BY <1>1, <1>3 DEF Order, OneBsp, Reports, EndsAlone, Some
  <2>2. BeginsAlone' /\ FreshBsp'
    BY <1>1, <1>3 DEF Order, BeginsAlone, FreshBsp, NoTick, Some
  <2> QED BY <2>1, <2>2 DEF Order
<1> QED BY <1>1, <1>2, <1>3 DEF LifeInv

LEMMA LifeStep ==
  ASSUME LifeInv, [LifeNext]_lifeVars
  PROVE  LifeInv'
<1>0. LifeTyped'
  BY LifeTypedStep DEF LifeInv
<1> SUFFICES Reported' /\ (~doubled' => Order')
  BY <1>0 DEF LifeInv
<1>1. ASSUME UNCHANGED <<wd, main, starter, doubled>>, bspd'.status = bspd.status
      PROVE  Reported' /\ (~doubled' => Order')
  BY <1>1, OrderKept DEF OrderVars
<1>2. CASE Asks
  <2>1. UNCHANGED <<wd, main, starter, doubled>>
    BY <1>2 DEF Asks, AskEnable, AskDemo, AskShutdown, NoRestart, AskKill, Wish
  <2>2. bspd'.status = bspd.status
    BY <1>2 DEF Asks, AskEnable, AskDemo, AskShutdown, NoRestart, AskKill, Wish,
                LifeInv, LifeTyped, Flags
  <2> QED BY <1>1, <2>1, <2>2
<1>3. ASSUME NEW t \in Demos, DemoThread(t)
      PROVE  Reported' /\ (~doubled' => Order')
  <2>1. UNCHANGED <<wd, main, starter, doubled>>
    BY <1>3 DEF DemoThread, DemoUp, DemoOver, history
  <2>2. bspd'.status = bspd.status
    BY <1>3 DEF DemoThread, DemoUp, DemoOver, LifeInv, LifeTyped, Flags
  <2> QED BY <1>1, <2>1, <2>2
<1>4. CASE Kill
  <2>1. /\ UNCHANGED <<wd, starter, doubled>> /\ main.pc = "kill"
        /\ main' = [main EXCEPT !.pc = main'.pc] /\ main'.pc \in {"killing", "watchdog"}
    BY <1>4 DEF Kill, Goto, LifeInv, LifeTyped, MainState, history
  <2>2. bspd'.status = bspd.status
    BY <1>4 DEF Kill, LifeInv, LifeTyped, Flags
  <2>3. main'.timer = main.timer
    BY <2>1 DEF LifeInv, LifeTyped, MainState
  <2> QED BY <2>1, <2>2, <2>3, PlaceStep
<1>5. CASE DemoStart
  <2>1. /\ UNCHANGED <<wd, starter, doubled>> /\ main.pc = "demo"
        /\ main'.pc \in {"exit", "enable"} /\ main'.timer = main.timer
    BY <1>5 DEF DemoStart, Goto, LifeInv, LifeTyped, MainState, history
  <2>2. bspd'.status = bspd.status
    <3>1. bspd' = [bspd EXCEPT !.demoStart = FALSE,
                               !.enable = @ \/ DemoStarts,
                               !.demoRunning = @ \/ DemoStarts,
                               !.demoStop = (@ /\ ~DemoStarts) \/ bspd.shutdown]
      BY <1>5 DEF DemoStart
    <3> QED BY <3>1 DEF LifeInv, LifeTyped, Flags
  <2> QED BY <2>1, <2>2, PlaceStep
<1>6. CASE Watchdog
  <2>1. /\ UNCHANGED <<starter, doubled>> /\ main.pc = "watchdog" /\ main'.pc = "demo"
        /\ main'.timer = IF TimedOut THEN "off" ELSE Timer
        /\ wd' = [wd EXCEPT !.last = wd.now]
    BY <1>6 DEF Watchdog, LifeInv, LifeTyped, MainState, history
  <2>2. bspd'.status = bspd.status
    <3>1. bspd' = [bspd EXCEPT !.kill = @ \/ TimedOut]
      BY <1>6 DEF Watchdog
    <3> QED BY <3>1 DEF LifeInv, LifeTyped, Flags
  <2>3. Reported'
    BY <2>1, <2>2 DEF LifeInv, Reported, Some
  <2>4. ASSUME Order PROVE Order'
    <3>1. OneBsp' /\ Reports' /\ EndsAlone' /\ BeginsAlone'
      BY <2>1, <2>2, <2>4 DEF Order, OneBsp, Reports, EndsAlone, BeginsAlone, Some
    <3>2. NoTick' = NoTick /\ Some({"ticking"})' = Some({"ticking"})
      BY <2>1 DEF NoTick, Some
    <3>3. wd'.now = wd.now /\ wd'.last = wd.now
      BY <2>1 DEF LifeInv, LifeTyped
    <3>4. NoTick => main'.timer = "off" /\ wd'.now = 0 /\ wd'.last = 0
      <4>1. NoTick => main.timer = "off" /\ wd.now = 0 /\ wd.last = 0
        BY <2>1, <2>4 DEF Order, FreshBsp
      <4>2. NoTick => Timer = "off"
        BY <4>1 DEF Timer
      <4> QED BY <2>1, <3>3, <4>1, <4>2
    <3>5. main'.timer = "over" => main.timer = "over"
      BY <2>1 DEF Timer
    <3>6. FreshBsp'
      BY <2>1, <2>4, <3>2, <3>4, <3>5 DEF Order, FreshBsp
    <3> QED BY <3>1, <3>6 DEF Order
  <2> QED BY <2>1, <2>3, <2>4 DEF LifeInv
<1>7. CASE TenSeconds
  <2>1. /\ UNCHANGED <<bspd, wd, starter, doubled>> /\ main.timer = "on"
        /\ ~Some({"ticking"}) /\ main'.pc = main.pc /\ main'.timer = "over"
    BY <1>7 DEF TenSeconds, LifeInv, LifeTyped, MainState, history, Some
  <2>2. Reported'
    BY <2>1 DEF LifeInv, Reported, Some
  <2>3. ASSUME Order PROVE Order'
    <3>1. OneBsp' /\ Reports' /\ EndsAlone' /\ BeginsAlone'
      BY <2>1, <2>3 DEF Order, OneBsp, Reports, EndsAlone, BeginsAlone, Some
    <3>2. NoTick' = NoTick /\ Some({"ticking"})' = Some({"ticking"})
      BY <2>1 DEF NoTick, Some
    <3>3. FreshBsp'
      BY <2>1, <2>3, <3>2 DEF Order, FreshBsp
    <3> QED BY <3>1, <3>3 DEF Order
  <2> QED BY <2>1, <2>2, <2>3 DEF LifeInv
<1>8. CASE Killing
  BY <1>8, KillStep DEF Killing, history
<1>9. CASE Exit
  <2>1. /\ starter' = Killed(starter) /\ main.pc = "exit" /\ main'.pc = "gone"
        /\ main'.timer = main.timer /\ UNCHANGED <<wd, doubled>>
    BY <1>9 DEF Exit, Goto, LifeInv, LifeTyped, MainState, history
  <2>2. ~bspd'.status
    BY <1>9 DEF Exit, LifeInv, LifeTyped, Flags
  <2> QED BY <2>1, <2>2, KillStep
<1>10. CASE Enable \/ Started
  BY <1>10, EnableStep, StartedStep
<1>11. ASSUME NEW t \in Starters, Bsp(t) \/ TickOver(t) \/ Fault(t)
       PROVE  Reported' /\ (~doubled' => Order')
  BY <1>11, BootStep, RunStep, DiedStep, ClearStep, TickOverStep, FaultStep DEF Bsp, BspThread
<1>12. CASE UNCHANGED lifeVars
  BY <1>1, <1>12 DEF lifeVars
<1> QED BY <1>2, <1>3, <1>4, <1>5, <1>6, <1>7, <1>8, <1>9, <1>10, <1>11, <1>12
     DEF LifeNext, Loops

(* The watchdog asks for a kill only when a BSP has ticked and hangs, or   *)
(* has just died, however many threads there are and whatever is asked for *)
(* meanwhile; a double start is the exception (bspd.c:84, 280, 312-323).   *)
THEOREM TheLivingAreSpared == LifeSpec => WatchdogSparesTheLiving
<1>1. LifeInit => LifeInv
  BY LifeBegins
<1>2. LifeInv /\ [LifeNext]_lifeVars => LifeInv'
  BY LifeStep
<1>3. ASSUME LifeInv, [LifeNext]_lifeVars, main.pc = "watchdog", main'.pc = "demo",
             bspd'.kill # bspd.kill, ~doubled
      PROVE  Some({"hung"} \cup Ending)
  <2>1. Watchdog
    <3>1. ASSUME NEW t \in Starters PROVE ~(Bsp(t) \/ TickOver(t) \/ Fault(t))
      <4>1. Bsp(t) \/ TickOver(t) \/ Fault(t) => main' = main
        BY DEF Bsp, Boot, BspThread, Run, Died, Clear, TickOver, Fault
      <4> QED BY <1>3, <4>1
    <3>2. ASSUME NEW t \in Demos PROVE ~DemoThread(t)
      <4>1. DemoThread(t) => main' = main
        BY DEF DemoThread, DemoUp, DemoOver
      <4> QED BY <1>3, <4>1
    <3>3. ~Asks /\ ~(UNCHANGED lifeVars)
      <4>1. Asks \/ UNCHANGED lifeVars => main' = main
        BY DEF Asks, AskEnable, AskDemo, AskShutdown, NoRestart, AskKill, Wish, lifeVars
      <4> QED BY <1>3, <4>1
    <3>4. ~Enable /\ ~Started /\ ~Kill /\ ~Killing /\ ~DemoStart /\ ~Exit
      BY <1>3 DEF Enable, Started, Kill, Killing, DemoStart, Exit
    <3>5. ~TenSeconds
      BY <1>3 DEF TenSeconds, LifeInv, LifeTyped, MainState
    <3> QED BY <1>3, <3>1, <3>2, <3>3, <3>4, <3>5 DEF LifeNext, Loops
  <2>2. TimedOut
    <3>1. bspd' = [bspd EXCEPT !.kill = @ \/ TimedOut]
      BY <2>1 DEF Watchdog
    <3>2. bspd'.kill <=> bspd.kill \/ TimedOut
      BY <1>3, <3>1 DEF LifeInv, LifeTyped, Flags
    <3>3. bspd.kill \in BOOLEAN /\ bspd'.kill \in BOOLEAN
      BY <1>3, LifeTypedStep DEF LifeInv, LifeTyped, Flags
    <3> QED BY <1>3, <3>2, <3>3
  <2>3. bspd.status /\ main.timer = "over"
    BY <2>2 DEF TimedOut, Timer
  <2>4. Some({"up", "ticking", "hung", "stuck", "dead"})
    BY <1>3, <2>3 DEF LifeInv, Reported
  <2>5. ~NoTick /\ ~Some({"ticking"})
    BY <1>3, <2>3 DEF LifeInv, Order, FreshBsp
  <2> QED BY <2>4, <2>5 DEF Some, NoTick, Ending
<1>4. LifeInv /\ [LifeNext]_lifeVars =>
        [main.pc = "watchdog" /\ main'.pc = "demo" /\ bspd'.kill # bspd.kill
         => Some({"hung"} \cup Ending) \/ doubled]_lifeVars
  BY <1>3
<1> QED BY <1>1, <1>2, <1>4, PTL DEF LifeSpec, WatchdogSparesTheLiving

-----------------------------------------------------------------------------
(* The parts together.                                                     *)

(* A step of the whole is one step of the part that moves and none of the  *)
(* others; a daemon that is gone and a driver nobody can open do nothing.  *)
LEMMA SideStep ==
  ASSUME [Next]_bspSideVars
  PROVE  /\ [LifeNext]_lifeVars /\ [ShmNext]_shmVars /\ [ChanNext]_chanVars
         /\ [NetNext]_netVars /\ [OpenNext]_openVars
         /\ part' = part
<1>1. CASE /\ Is("life") /\ (LifeNext \/ Gone)
           /\ UNCHANGED <<shmVars, chanVars, netVars, openVars>>
  BY <1>1, Zenon DEF Is, Gone
<1>2. CASE /\ Is("shm") /\ (ShmNext \/ Stopped)
           /\ UNCHANGED <<lifeVars, chanVars, netVars, openVars>>
  BY <1>2, Zenon DEF Is, Stopped
<1>3. CASE /\ Is("channel") /\ ChanNext
           /\ UNCHANGED <<lifeVars, shmVars, netVars, openVars>>
  BY <1>3, Zenon DEF Is
<1>4. CASE /\ Is("net") /\ NetNext
           /\ UNCHANGED <<lifeVars, shmVars, chanVars, openVars>>
  BY <1>4, Zenon DEF Is
<1>5. CASE /\ Is("open") /\ OpenNext
           /\ UNCHANGED <<lifeVars, shmVars, chanVars, netVars>>
  BY <1>5, Zenon DEF Is
<1>6. CASE UNCHANGED bspSideVars
  BY <1>6, Zenon DEF bspSideVars
<1> QED BY <1>1, <1>2, <1>3, <1>4, <1>5, <1>6, Zenon DEF Next

(* What the parts do in MCBspSide is what their own specifications say.    *)
THEOREM SideIsItsParts ==
  Spec => LifeSpec /\ ShmSpec /\ ChanSpec /\ NetSpec /\ OpenSpec
<1>1. Init => LifeInit /\ ShmInit /\ ChanInit /\ NetInit /\ OpenInit
  BY DEF Init
<1>2. [Next]_bspSideVars => /\ [LifeNext]_lifeVars /\ [ShmNext]_shmVars
                            /\ [ChanNext]_chanVars /\ [NetNext]_netVars
                            /\ [OpenNext]_openVars
  BY SideStep
<1> QED BY <1>1, <1>2, PTL DEF Spec, LifeSpec, ShmSpec, ChanSpec, NetSpec, OpenSpec

(* The types of all the parts around the card, whichever of them moves.    *)
THEOREM SideTypeInvariance == Spec => []TypeOK
<1>1. Init => part \in Parts
  BY DEF Init
<1>2. part \in Parts /\ [Next]_bspSideVars => (part \in Parts)'
  BY SideStep
<1>3. Spec => [](part \in Parts)
  BY <1>1, <1>2, PTL DEF Spec
<1>4. Spec => [](LifeTypeOK /\ ShmTypeOK /\ ChanTypeOK /\ NetTypeOK /\ OpenTypeOK)
  BY SideIsItsParts, LifeTypeInvariance, ShmTypeInvariance, ChanTypeInvariance,
     NetTypeInvariance, OpenTypeInvariance, PTL
<1>5. part \in Parts /\ LifeTypeOK /\ ShmTypeOK /\ ChanTypeOK /\ NetTypeOK /\ OpenTypeOK
      => TypeOK
  BY DEF TypeOK
<1> QED BY <1>3, <1>4, <1>5, PTL

(* So their promises hold there together: one party in the driver's table, *)
(* faults that find their area, no channel mapped twice, no packet that    *)
(* vanishes between the two networks, and a watchdog that lets a BSP that  *)
(* ticks live (bspshm.c, bspchannel.c, shmnetd.c and bspd.c).              *)
THEOREM SideIsSafe ==
  Spec => /\ [](TableExclusive /\ FaultsFindArea /\ MappedOnce /\ NoPacketVanishes)
          /\ WatchdogSparesTheLiving
BY SideIsItsParts, TableIsExclusive, CountedFaultsFindArea, NoMappingIsLost, PacketsAreKept,
   TheLivingAreSpared, PTL

(* And so does that of a channel which always has a descriptor to spare: it*)
(* loses packets only when asked (bspchannel.c).                           *)
THEOREM SideLosesOnlyWhenAsked == Spec /\ []HasRoom => LosesOnlyWhenAsked
BY SideIsItsParts, BspChannelLosesOnlyWhenAsked, PTL
=============================================================================
