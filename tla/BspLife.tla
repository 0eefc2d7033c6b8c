------------------------------ MODULE BspLife ------------------------------
(***************************************************************************)
(* The life cycle of the BSP (bspd.c).  The daemon polls the flags that    *)
(* vdr and the command line tool write into bspd_data_t; it starts the BSP *)
(* in a thread that runs it with system(), kills it with killall, watches  *)
(* its watchdog counter and starts the demo.  Nothing is locked.  BSP_KILL *)
(* kills every erun; the script that loads the card before it starts erun  *)
(* has another name and goes on.                                           *)
(*                                                                         *)
(* Left out: the settings that a start or a kill makes video_check_settings*)
(* force (force, last_killed, bsp_shutdown), and the focus synchronisation.*)
(***************************************************************************)
EXTENDS Naturals, FiniteSets

CONSTANTS Starters,    \* bsp_threads that can exist at the same time
          Demos,       \* demo_threads that can exist at the same time
          MaxWishes,   \* bound on what vdr and the tool ask for
          MaxFaults    \* bound on crashes and hangs of the BSP

ASSUME LifeAssumption ==
  /\ IsFiniteSet(Starters) /\ IsFiniteSet(Demos)
  /\ MaxWishes \in Nat /\ MaxFaults \in Nat

VARIABLES
  bspd,      \* the flags of bspd_data_t
  wd,        \* bsp_watchdog: 0, or 1 for the last tick; last_watchdog:
             \* 2 stands for an older tick
  main,      \* bsp_daemon: where it is, its timer, watchdog_enable
  starter,   \* where each bsp_thread is, or the BSP it runs in system()
  demo,      \* where each demo_thread is
  wish,      \* history: what was asked for last
  doubled,   \* history: a BSP was started while another one was coming up
  wishes, faults   \* how many of each there were

lifeVars == <<bspd, wd, main, starter, demo, wish, doubled, wishes, faults>>
history == <<wish, doubled, wishes, faults>>

(* The phases of system(cmd): the script, erun before it sets status, with *)
(* status set and no tick yet, ticking, hung after and before a first tick.*)
Erun == {"boot", "up", "ticking", "hung", "stuck"}
Coming == {"zero", "script", "boot"}
Ending == {"dead", "clear", "cleared"}
Alive(t) == starter[t] \in Erun \cup {"script"}
Some(states) == \E t \in Starters : starter[t] \in states

Daemon == main.pc # "gone"
Goto(where) == main' = [main EXCEPT !.pc = where]
Becomes(t, state) == starter' = [starter EXCEPT ![t] = state]

(* system(BSP_KILL): system(cmd) returns to the threads that ran erun.     *)
Killed(s) == [t \in Starters |-> IF s[t] \in Erun THEN "dead" ELSE s[t]]

LifeInit ==
  /\ bspd \in [enable : {FALSE}, auto : {FALSE}, kill : {FALSE},
               shutdown : {FALSE}, status : {FALSE}, demoStart : BOOLEAN,
               demoStop : {FALSE}, demoRunning : {FALSE}]
  /\ wd = [now |-> 0, last |-> 0]
  /\ main = [pc |-> "enable", timer |-> "off", enabled |-> FALSE]
  /\ starter = [t \in Starters |-> "idle"]
  /\ demo = [t \in Demos |-> "idle"]
  /\ wish = "any" /\ doubled = FALSE /\ wishes = 0 /\ faults = 0

-----------------------------------------------------------------------------
(* vdr and the command line tool.  Nothing more is asked for after a double*)
(* start, which only repeats itself.                                       *)
Wish(flags, w) ==
  /\ wishes < MaxWishes /\ ~doubled /\ wishes' = wishes + 1
  /\ bspd' = flags /\ wish' = w
  /\ UNCHANGED <<wd, main, starter, demo, doubled, faults>>

AskEnable ==
  \E auto \in BOOLEAN :
    Wish([bspd EXCEPT !.auto = auto, !.enable = TRUE], "run")

AskDemo == Wish([bspd EXCEPT !.demoStart = TRUE], "run")

AskShutdown == Wish([bspd EXCEPT !.shutdown = TRUE], "any")

(* Slip: -k forgets to take the automatic restart back.                    *)
NoRestartForgotten == Wish(bspd, "halt")

(* -k: two writes.  It counts as "stop" when nothing was asked for between *)
(* the two, the BSP is running and nothing else waits to be handled.       *)
NoRestart == Wish([bspd EXCEPT !.auto = FALSE], "halt")

AskKill ==
  Wish([bspd EXCEPT !.kill = TRUE],
       IF wish = "halt" /\ bspd.status /\ ~bspd.enable /\ ~bspd.demoStart
       THEN "stop" ELSE "any")

-----------------------------------------------------------------------------
(* The BSP program.  It sets status and increments bsp_watchdog.  It takes *)
(* longer to load than the thread before takes to finish.                  *)
Boot(t) ==
  /\ starter[t] \in {"script", "boot", "up"}
  /\ Becomes(t, CASE starter[t] = "script" -> "boot"
                  [] starter[t] = "boot"   -> "up"
                  [] starter[t] = "up"     -> "ticking")
  /\ ~Some(Ending)
  /\ bspd' = [bspd EXCEPT !.status = @ \/ starter[t] = "boot"]
  /\ wd' = [wd EXCEPT !.now = IF starter[t] = "up" THEN 1 ELSE @]
  /\ UNCHANGED <<main, demo, history>>

TickOver(t) ==
  /\ starter[t] = "ticking"
  /\ wd' = [wd EXCEPT !.last = IF @ = 1 THEN 2 ELSE @]
  /\ UNCHANGED <<bspd, main, starter, demo, history>>

Fault(t) ==
  /\ starter[t] \in Erun /\ faults < MaxFaults /\ ~doubled
  /\ faults' = faults + 1
  /\ \/ Becomes(t, "dead")
     \/ starter[t] = "ticking" /\ Becomes(t, "hung")
     \/ starter[t] \in {"boot", "up"} /\ Becomes(t, "stuck")
  /\ UNCHANGED <<bspd, wd, main, demo, wish, doubled, wishes>>

-----------------------------------------------------------------------------
(* bsp_thread, up to system(cmd) and from there on.                        *)
Run(t) ==
  /\ starter[t] = "zero"
  /\ starter' = [Killed(starter) EXCEPT ![t] = "script"]
  /\ wd' = [now |-> 0, last |-> 0]
  /\ UNCHANGED <<bspd, main, demo, history>>

Died(t) ==
  /\ starter[t] = "dead" /\ Becomes(t, "clear")
  /\ bspd' = [bspd EXCEPT !.status = FALSE, !.enable = @ \/ bspd.auto]
  /\ UNCHANGED <<wd, main, demo, history>>

Clear(t) ==
  /\ starter[t] \in {"clear", "cleared"}
  /\ IF starter[t] = "clear"
     THEN Becomes(t, "cleared") /\ wd' = [wd EXCEPT !.now = 0]
     ELSE Becomes(t, "idle") /\ wd' = [wd EXCEPT !.last = 0]
  /\ UNCHANGED <<bspd, main, demo, history>>

BspThread(t) ==
  Daemon /\ (Run(t) \/ Died(t) \/ Clear(t))

(* demo_thread.  It waits for the BSP whatever demo_stop says, leaves when *)
(* the startup film is missing, and plays until it is stopped or the film  *)
(* has been shown often enough.                                            *)
DemoUp(t) ==
  /\ demo[t] = "wait" /\ bspd.status
  /\ \/ /\ demo' = [demo EXCEPT ![t] = "play"]
        /\ UNCHANGED bspd
     \/ /\ demo' = [demo EXCEPT ![t] = "idle"]
        /\ bspd' = [bspd EXCEPT !.demoRunning = FALSE]
  /\ UNCHANGED <<wd, main, starter, history>>

DemoOver(t) ==
  /\ demo[t] = "play"
  /\ demo' = [demo EXCEPT ![t] = "idle"]
  /\ bspd' = [bspd EXCEPT !.demoStop = FALSE, !.demoRunning = FALSE]
  /\ UNCHANGED <<wd, main, starter, history>>

DemoThread(t) == Daemon /\ (DemoUp(t) \/ DemoOver(t))

-----------------------------------------------------------------------------
(* bsp_daemon: bsp_enable.  A second of sleep lets the new thread zero the *)
(* watchdog, and the one before it finish; then the timer is put back.     *)
Enable ==
  /\ main.pc = "enable"
  /\ bspd' = [bspd EXCEPT !.enable = FALSE]
  /\ IF bspd.enable /\ ~bspd.status
     THEN /\ Goto("starting")
          /\ doubled' = (doubled \/ Some(Coming \cup {"stuck"}))
          /\ IF Some({"idle"})
             THEN Becomes(CHOOSE t \in Starters : starter[t] = "idle", "zero")
             ELSE UNCHANGED starter
     ELSE Goto("kill") /\ UNCHANGED <<starter, doubled>>
  /\ UNCHANGED <<wd, demo, wish, wishes, faults>>

StartSleepOver == ~Some({"zero"} \cup Ending)

(* Slip: the timer keeps the time of the BSP before.                       *)
StartedStale ==
  /\ main.pc = "starting" /\ StartSleepOver
  /\ main' = [main EXCEPT !.pc = "kill", !.enabled = TRUE]
  /\ UNCHANGED <<bspd, wd, starter, demo, history>>

(* Slip: the watchdog stays disabled after a kill.                         *)
StartedUnwatched ==
  /\ main.pc = "starting" /\ StartSleepOver
  /\ main' = [main EXCEPT !.pc = "kill", !.timer = "off"]
  /\ UNCHANGED <<bspd, wd, starter, demo, history>>

Started ==
  /\ main.pc = "starting" /\ StartSleepOver
  /\ main' = [pc |-> "kill", timer |-> "off", enabled |-> TRUE]
  /\ UNCHANGED <<bspd, wd, starter, demo, history>>

(* bsp_kill, and after a second for the crash log the kill itself.         *)
Kill ==
  /\ main.pc = "kill"
  /\ IF bspd.kill
     THEN /\ bspd' = [bspd EXCEPT !.kill = FALSE, !.demoStop = TRUE]
          /\ Goto(IF bspd.status THEN "killing" ELSE "watchdog")
     ELSE UNCHANGED bspd /\ Goto("watchdog")
  /\ UNCHANGED <<wd, starter, demo, history>>

Killing ==
  /\ main.pc = "killing"
  /\ main' = [pc |-> "watchdog", timer |-> "off", enabled |-> FALSE]
  /\ starter' = Killed(starter)
  /\ UNCHANGED <<bspd, wd, demo, history>>

(* A tick starts the timer again; a timer that has run out asks for a kill.*)
Timer == IF wd.last # wd.now THEN "on" ELSE main.timer
TimedOut == bspd.status /\ main.enabled /\ Timer = "over"

Watchdog ==
  /\ main.pc = "watchdog"
  /\ wd' = [wd EXCEPT !.last = wd.now]
  /\ bspd' = [bspd EXCEPT !.kill = @ \/ TimedOut]
  /\ main' = [main EXCEPT !.pc = "demo",
                          !.timer = IF TimedOut THEN "off" ELSE Timer]
  /\ UNCHANGED <<starter, demo, history>>

(* WD_TIMEOUT seconds pass.  A BSP that ticks does so more often; the loop *)
(* comes round in less, and a thread whose BSP has died is done in less.   *)
TenSeconds ==
  /\ main.timer = "on" /\ ~Some({"ticking"} \cup Ending)
  /\ main' = [main EXCEPT !.timer = "over"]
  /\ UNCHANGED <<bspd, wd, starter, demo, history>>

DemoStarts == bspd.demoStart /\ ~bspd.status

DemoStart ==
  /\ main.pc = "demo"
  /\ Goto(IF bspd.shutdown THEN "exit" ELSE "enable")
  /\ bspd' = [bspd EXCEPT !.demoStart = FALSE,
                          !.enable = @ \/ DemoStarts,
                          !.demoRunning = @ \/ DemoStarts,
                          !.demoStop = (@ /\ ~DemoStarts) \/ bspd.shutdown]
  /\ IF DemoStarts /\ \E t \in Demos : demo[t] = "idle"
     THEN LET t == CHOOSE u \in Demos : demo[u] = "idle"
          IN demo' = [demo EXCEPT ![t] = "wait"]
     ELSE UNCHANGED demo
  /\ UNCHANGED <<wd, starter, history>>

(* At most three seconds for the demo; the threads end with the daemon.    *)
Exit ==
  /\ main.pc = "exit"
  /\ Goto("gone")
  /\ starter' = Killed(starter)
  /\ bspd' = [bspd EXCEPT !.status = FALSE, !.shutdown = FALSE]
  /\ UNCHANGED <<wd, demo, history>>

Loops == Enable \/ Started \/ Kill \/ Killing \/ Watchdog \/ DemoStart \/ Exit

-----------------------------------------------------------------------------
(* Everything has a value of its type.                                     *)
LifeTypeOK ==
  /\ bspd \in [{"enable", "auto", "kill", "shutdown", "status", "demoStart",
                "demoStop", "demoRunning"} -> BOOLEAN]
  /\ wd \in [now : 0..1, last : 0..2]
  /\ main \in [pc : {"enable", "starting", "kill", "killing", "watchdog",
                     "demo", "exit", "gone"},
               timer : {"off", "on", "over"}, enabled : BOOLEAN]
  /\ starter \in [Starters -> {"idle"} \cup Coming \cup Erun \cup Ending]
  /\ demo \in [Demos -> {"idle", "wait", "play"}]
  /\ wish \in {"run", "halt", "stop", "any"} /\ doubled \in BOOLEAN
  /\ wishes \in 0..MaxWishes /\ faults \in 0..MaxFaults

(* The watchdog asks for a kill only when the BSP has ticked and hangs, or *)
(* has just died: a BSP that is still coming up is never killed for the    *)
(* time its predecessor last ticked (bspd.c:84, 280, 312-323).             *)
WatchdogSparesTheLiving ==
  [][ main.pc = "watchdog" /\ main'.pc = "demo" /\ bspd'.kill # bspd.kill
      => Some({"hung"} \cup Ending) \/ doubled ]_lifeVars

(* A BSP that hangs is killed and, with the automatic restart, replaced by *)
(* one that ticks - unless a BSP was started while another came up: then   *)
(* each of the two threads starts a BSP again that kills the other's.      *)
HungIsReplaced ==
  Some({"hung"}) /\ bspd.auto
    ~> Some({"ticking", "stuck"}) \/ ~bspd.auto \/ doubled \/ ~Daemon

(* "-k: Kill BSP, disable restart": a BSP that was running when -k was     *)
(* asked for stays down until somebody asks for it again.                  *)
KillSticks == <>[](wish = "stop" => \A t \in Starters : ~Alive(t))

-----------------------------------------------------------------------------
Asks == AskEnable \/ AskDemo \/ AskShutdown \/ NoRestart \/ AskKill
Bsp(t) == Boot(t) \/ BspThread(t)

LifeNext ==
  \/ Daemon /\ Asks
  \/ Loops \/ TenSeconds
  \/ \E t \in Starters : Bsp(t) \/ TickOver(t) \/ Fault(t)
  \/ \E t \in Demos : DemoThread(t)

LifeSpec == LifeInit /\ [][LifeNext]_lifeVars
=============================================================================
