------------------------------ MODULE HdCtrld ------------------------------
(***************************************************************************)
(* The life cycle of the HD player (hdctrld.c and the part of hdvideo.c    *)
(* that stops the player).  The command line tool writes its wishes into   *)
(* hd_data_t; the daemon polls them every 200 ms and starts a thread for   *)
(* each player, which runs the player with system() and cleans up after    *)
(* it.  Nothing is locked: daemon and threads all run hdp_kill() and       *)
(* video_check_settings(), and what keeps them apart are the sleeps in the *)
(* code.                                                                   *)
(*                                                                         *)
(* Of the settings only "video_mode.changed differs from the last one" is  *)
(* modelled, because only that one stops the player.                       *)
(***************************************************************************)
EXTENDS Naturals, FiniteSets

CONSTANTS Daemon,       \* the process in hd_daemon
          Threads,      \* hd_threads that can exist at the same time
          MaxToolCalls,  \* bound on the calls of the command line tool
          MaxPowerDowns,  \* bound on those with -P
          MaxCrashes    \* bound on the crashes of players

ASSUME PlayerAssumption ==
  /\ Daemon \notin Threads /\ IsFiniteSet(Threads) /\ Threads # {}
  /\ {MaxToolCalls, MaxPowerDowns, MaxCrashes} \subseteq Nat

VARIABLES
  enable,       \* hdp_enable
  running,      \* hdp_running
  terminate,    \* hdp_terminate
  shutdown,     \* hd_shutdown: 1 power down wanted, 2 done
  modeChanged,  \* video_mode.changed # last_video_mode.changed
  powering,     \* the tool has written hdp_enable and not yet hd_shutdown
  at, back,     \* where the daemon and each thread is; where hdp_kill returns
  player,       \* the process started by each thread
  requests, powerDowns, crashes,  \* calls of the tool, with -P; crashes
  (* History variables.                                                    *)
  woken,        \* a thread sleeps or has slept the three seconds after a
                \* power-down, and since then there was always some thread
  forgotten     \* hd_thread has cleared hd_shutdown = 1 of a -P

wishes == <<enable, shutdown, modeChanged>>
flags == <<running, terminate>>
tool == <<powering, requests, powerDowns>>
past == <<woken, forgotten>>
playerVars == <<wishes, flags, tool, at, back, player, crashes, past>>

Procs == Threads \cup {Daemon}
Goto(p, where) == at' = [at EXCEPT ![p] = where]

(* Call hdp_kill and go on at where.                                       *)
CallKill(p, where) == /\ at' = [at EXCEPT ![p] = "kill"]
                      /\ back' = [back EXCEPT ![p] = where]

(* struct_init and the start of hd_daemon, which has applied the first     *)
(* settings.                                                               *)
PlayerInit ==
  /\ enable = FALSE /\ running = FALSE /\ terminate = FALSE
  /\ shutdown = 0 /\ modeChanged = FALSE /\ powering = FALSE
  /\ at = [p \in Procs |-> IF p = Daemon THEN "top" ELSE "idle"]
  /\ back = [p \in Procs |-> "none"]
  /\ player = [t \in Threads |-> "none"]
  /\ requests = 0 /\ powerDowns = 0 /\ crashes = 0
  /\ woken = FALSE /\ forgotten = FALSE

-----------------------------------------------------------------------------
(* The command line tool: -s, -k, -P (two writes), and a new video mode,   *)
(* at any time; only a -P is over before the next one.  A call that writes *)
(* what is there already changes nothing and is not counted.               *)
Request ==
  /\ requests < MaxToolCalls
  /\ requests' = requests + 1
  /\ UNCHANGED <<flags, at, back, player, crashes>>

Start ==
  /\ ~enable /\ Request /\ enable' = TRUE
  /\ UNCHANGED <<shutdown, modeChanged, powering, powerDowns, past>>

Stop ==
  /\ enable /\ Request /\ enable' = FALSE
  /\ UNCHANGED <<shutdown, modeChanged, powering, powerDowns, past>>

PowerDown ==
  /\ powerDowns < MaxPowerDowns /\ ~powering
  /\ Request /\ enable' = FALSE /\ powering' = TRUE
  /\ powerDowns' = powerDowns + 1
  /\ forgotten' = FALSE
  /\ UNCHANGED <<shutdown, modeChanged, woken>>

AskShutdown ==
  /\ powering
  /\ shutdown' = 1 /\ powering' = FALSE
  /\ UNCHANGED <<enable, modeChanged, flags, requests, powerDowns, at, back,
                 player, crashes, past>>

SetVideoMode ==
  /\ ~modeChanged /\ Request /\ modeChanged' = TRUE
  /\ UNCHANGED <<enable, shutdown, powering, powerDowns, past>>

-----------------------------------------------------------------------------
(* The player process.  It takes hdp_terminate back and leaves, dies of a  *)
(* signal, or crashes; a player that hangs does neither by itself.         *)
Alive(t) == player[t] # "none"
Serving(t) == player[t] = "playing"

Obey(t) ==
  /\ Serving(t) /\ terminate
  /\ terminate' = FALSE
  /\ player' = [player EXCEPT ![t] = "leaving"]
  /\ UNCHANGED <<wishes, running, tool, at, back, crashes, past>>

Exit(t) ==
  /\ player[t] = "leaving"
  /\ player' = [player EXCEPT ![t] = "none"]
  /\ UNCHANGED <<wishes, flags, tool, at, back, crashes, past>>

Crash(t) ==
  /\ Serving(t) /\ crashes < MaxCrashes
  /\ player' = [player EXCEPT ![t] = "none"]
  /\ crashes' = crashes + 1
  /\ UNCHANGED <<wishes, flags, tool, at, back, past>>

-----------------------------------------------------------------------------
(* What the sleeps are for.  200 ms and another 100 ms in hdp_kill are     *)
(* enough for a player that was told to go, and for its thread, to finish; *)
(* the second after pthread_create is enough for the thread to get to its  *)
(* player, or to the three seconds it sleeps itself (NextPass).            *)
Preparing(t) == at[t] \in {"kill", "wait", "hard", "killed", "up", "doze",
                           "settle", "clear"}
Ending(t) ==
  \/ player[t] = "leaving"
  \/ at[t] = "play" /\ ~Alive(t)
  \/ at[t] \in {"reap", "ended"}
Starting(t) == Preparing(t) /\ at[t] \notin {"doze", "settle"}

KillSleepOver == \A t \in Threads : ~Ending(t)
StartSleepOver == \A t \in Threads : ~Starting(t)

(* hdp_kill                                                                *)
KillAsk(p) ==
  /\ at[p] = "kill"
  /\ terminate' = TRUE
  /\ Goto(p, "wait")
  /\ UNCHANGED <<wishes, running, tool, back, player, crashes, past>>

KillAnswered(p) ==
  /\ at[p] = "wait" /\ ~terminate
  /\ Goto(p, "killed")
  /\ UNCHANGED <<wishes, flags, tool, back, player, crashes, past>>

(* Slip: a player that does not listen is left alone.                      *)
KillTimeoutSoft(p) ==
  /\ at[p] = "wait" /\ terminate /\ KillSleepOver
  /\ terminate' = FALSE
  /\ Goto(p, "hard")
  /\ UNCHANGED <<wishes, running, tool, back, player, crashes, past>>

KillTimeout(p) ==
  /\ at[p] = "wait" /\ terminate /\ KillSleepOver
  /\ terminate' = FALSE
  /\ player' = [t \in Threads |-> IF Serving(t) THEN "leaving" ELSE player[t]]
  /\ Goto(p, "hard")
  /\ UNCHANGED <<wishes, running, tool, back, crashes, past>>

KillSlept(p) ==
  /\ at[p] = "hard" /\ KillSleepOver
  /\ Goto(p, "killed")
  /\ UNCHANGED <<wishes, flags, tool, back, player, crashes, past>>

KillDone(p) ==
  /\ at[p] = "killed"
  /\ running' = FALSE
  /\ Goto(p, back[p])
  /\ back' = [back EXCEPT ![p] = "none"]
  /\ UNCHANGED <<wishes, terminate, tool, player, crashes, past>>

Kill(p) == KillAsk(p) \/ KillAnswered(p) \/ KillTimeout(p) \/ KillSlept(p)
           \/ KillDone(p)

(* video_check_settings: a new video mode stops the player first.          *)
ApplySettings(p, next) ==
  /\ modeChanged' = FALSE
  /\ IF modeChanged THEN CallKill(p, next)
                    ELSE Goto(p, next) /\ UNCHANGED back
  /\ UNCHANGED <<enable, shutdown, flags, tool, player, crashes, past>>

-----------------------------------------------------------------------------
(* hd_thread                                                               *)

Up(t) ==
  /\ at[t] = "up"
  /\ running' = TRUE
  /\ Goto(t, IF shutdown # 0 THEN "doze" ELSE "clear")
  /\ woken' = (woken \/ shutdown # 0)
  /\ UNCHANGED <<wishes, terminate, tool, back, player, crashes, forgotten>>

Settle(t) == at[t] = "settle" /\ ApplySettings(t, "clear")

Play(t) ==
  /\ at[t] = "clear"
  /\ shutdown' = 0
  /\ forgotten' = (forgotten \/ (shutdown = 1 /\ ~enable))
  /\ player' = [player EXCEPT ![t] = "playing"]
  /\ Goto(t, "play")
  /\ UNCHANGED <<enable, modeChanged, flags, tool, back, crashes, woken>>

PlayerGone(t) ==
  /\ at[t] = "play" /\ ~Alive(t)
  /\ Goto(t, "reap")
  /\ UNCHANGED <<wishes, flags, tool, back, player, crashes, past>>

(* kill -9 of every process with the name of the player                    *)
Reap(t) ==
  /\ at[t] = "reap"
  /\ player' = [s \in Threads |-> "none"]
  /\ Goto(t, "ended")
  /\ UNCHANGED <<wishes, flags, tool, back, crashes, past>>

(* The history of the threads ends with the last of them.                  *)
LastOneOut(t) ==
  /\ woken' = (woken /\ \E s \in Threads \ {t} : at[s] # "idle")
  /\ UNCHANGED forgotten

(* Slips: the thread ends without taking hdp_running back (EnabledPlays),  *)
(* or clears hd_shutdown only now (PowerDownHappens).                      *)
EndedRunning(t) ==
  /\ at[t] = "ended"
  /\ Goto(t, "idle") /\ LastOneOut(t)
  /\ UNCHANGED <<wishes, flags, tool, back, player, crashes>>

EndedClearing(t) ==
  /\ at[t] = "ended"
  /\ running' = FALSE /\ shutdown' = 0
  /\ Goto(t, "idle") /\ LastOneOut(t)
  /\ UNCHANGED <<enable, modeChanged, terminate, tool, back, player, crashes>>

Ended(t) ==
  /\ at[t] = "ended"
  /\ running' = FALSE
  /\ Goto(t, "idle") /\ LastOneOut(t)
  /\ UNCHANGED <<wishes, terminate, tool, back, player, crashes>>

Thread(t) == Kill(t) \/ Up(t) \/ Settle(t) \/ Play(t) \/ PlayerGone(t)
             \/ Reap(t) \/ Ended(t)

-----------------------------------------------------------------------------
(* hd_daemon                                                               *)

MustStart == enable /\ ~running /\ ~terminate

(* Threads have no names: any one that does not exist yet.                 *)
New == CHOOSE t \in Threads : at[t] = "idle"

(* Slip: hdp_running is set before hdp_kill (RunningIsTold).               *)
StartThreadRunning ==
  /\ at[Daemon] = "top" /\ MustStart
  /\ \E t \in Threads :
       /\ at[t] = "idle" /\ t = New
       /\ at' = [at EXCEPT ![t] = "kill", ![Daemon] = "started"]
       /\ back' = [back EXCEPT ![t] = "clear"]
  /\ running' = TRUE
  /\ modeChanged' = (modeChanged \/ shutdown # 0)
  /\ UNCHANGED <<enable, shutdown, terminate, tool, player, crashes, past>>

(* modeChanged: the settings are to be applied again after a power-up.     *)
StartThread ==
  /\ at[Daemon] = "top" /\ MustStart
  /\ \E t \in Threads :
       /\ at[t] = "idle" /\ t = New
       /\ at' = [at EXCEPT ![t] = "kill", ![Daemon] = "started"]
       /\ back' = [back EXCEPT ![t] = "up"]
  /\ modeChanged' = (modeChanged \/ shutdown # 0)
  /\ UNCHANGED <<enable, shutdown, flags, tool, player, crashes, past>>

(* The result of pthread_create is not looked at.                          *)
StartFails ==
  /\ at[Daemon] = "top" /\ MustStart
  /\ \A t \in Threads : at[t] # "idle"
  /\ modeChanged' = (modeChanged \/ shutdown # 0)
  /\ Goto(Daemon, "started")
  /\ UNCHANGED <<enable, shutdown, flags, tool, back, player, crashes, past>>

StartSlept ==
  /\ at[Daemon] = "started" /\ StartSleepOver
  /\ Goto(Daemon, "stop")
  /\ UNCHANGED <<wishes, flags, tool, back, player, crashes, past>>

NothingToStart ==
  /\ at[Daemon] = "top" /\ ~MustStart
  /\ Goto(Daemon, "stop")
  /\ UNCHANGED <<wishes, flags, tool, back, player, crashes, past>>

StopPlayer ==
  /\ at[Daemon] = "stop"
  /\ IF ~enable /\ running
       THEN CallKill(Daemon, "check")
       ELSE Goto(Daemon, "check") /\ UNCHANGED back
  /\ UNCHANGED <<wishes, flags, tool, player, crashes, past>>

Check == at[Daemon] = "check" /\ ApplySettings(Daemon, "power")

(* The three seconds of a thread are not over before the end of the pass.  *)
NextPass == at' = [p \in Procs |-> CASE p = Daemon -> "top"
                                     [] at[p] = "doze" -> "settle"
                                     [] OTHER -> at[p]]

(* Slip: off while the player runs (PoweredDownIsSilent).                  *)
PowerOffAtOnce ==
  /\ at[Daemon] = "power"
  /\ shutdown' = IF ~enable /\ shutdown = 1 THEN 2 ELSE shutdown
  /\ NextPass
  /\ UNCHANGED <<enable, modeChanged, flags, tool, back, player, crashes, past>>

PowerOff ==
  /\ at[Daemon] = "power"
  /\ shutdown' = IF ~enable /\ ~running /\ shutdown = 1 THEN 2 ELSE shutdown
  /\ NextPass
  /\ UNCHANGED <<enable, modeChanged, flags, tool, back, player, crashes, past>>

Loop == Kill(Daemon) \/ StartThread \/ StartFails \/ StartSlept
        \/ NothingToStart \/ StopPlayer \/ Check \/ PowerOff

-----------------------------------------------------------------------------
PlayerNext ==
  \/ Start \/ Stop \/ PowerDown \/ AskShutdown \/ SetVideoMode
  \/ \E t \in Threads : Obey(t) \/ Exit(t) \/ Crash(t)
  \/ \E t \in Threads : Thread(t)
  \/ Loop

PlayerSpec == PlayerInit /\ [][PlayerNext]_playerVars

(* The daemon and its threads run on; the tool finishes its call; a player *)
(* that was told to go and took the message, or the signal, ends.          *)
PlayerFairSpec ==
  /\ PlayerSpec
  /\ WF_playerVars(Loop) /\ WF_playerVars(AskShutdown)
  /\ \A t \in Threads : WF_playerVars(Thread(t)) /\ WF_playerVars(Exit(t))

-----------------------------------------------------------------------------
PlayerTypeOK ==
  /\ {enable, running, terminate, modeChanged, powering} \subseteq BOOLEAN
  /\ shutdown \in 0 .. 2
  /\ at \in [Procs -> {"idle", "kill", "wait", "hard", "killed", "up",
                       "doze", "settle", "clear", "play", "reap", "ended",
                       "top", "started", "stop", "check", "power"}]
  /\ back \in [Procs -> {"none", "up", "clear", "check", "power"}]
  /\ player \in [Threads -> {"none", "playing", "leaving"}]
  /\ requests \in 0 .. MaxToolCalls /\ powerDowns \in 0 .. MaxPowerDowns
  /\ crashes \in 0 .. MaxCrashes
  /\ {woken, forgotten} \subseteq BOOLEAN

(* "int hdp_running; // hdplayer running" (hdshm_user_structs.h): a player *)
(* that nobody has told to go is one that hdp_running tells of, as long as *)
(* no thread has slept after a power-down (line 79).                       *)
RunningIsTold ==
  ~woken => (~terminate /\ (\E t \in Threads : Serving(t)) => running)

(* A thread kills whatever plays before it starts its player: there are    *)
(* never two that serve the same channels, but for what a thread that      *)
(* sleeps after a power-down may start when it wakes up.                   *)
OnePlayer == ~woken => Cardinality({t \in Threads : Serving(t)}) <= 1

(* A player never runs on a decoder that was powered down, with the same   *)
(* exception.                                                              *)
PoweredDownIsSilent ==
  ~woken /\ shutdown = 2 => \A t \in Threads : ~Serving(t)

(* The player follows the switch: when the tool is done and it is enabled  *)
(* (-s), it plays from some point on.  After a power-down the threads that *)
(* have slept may end each other's players for ever: then it plays again   *)
(* and again.                                                              *)
EnabledPlays ==
  LET Plays == \E t \in Threads : Serving(t)
  IN  <>[]enable => []<>Plays /\ (<>[](~woken) => <>[]Plays)

(* "-k Stop HD player" (usage of hdctrld): once that is the last word no   *)
(* player is left.                                                         *)
DisabledStops == <>[](~enable) => <>[](\A t \in Threads : ~Alive(t))

(* "-P Power down decoder" (usage): the decoder is switched off, unless    *)
(* the player is enabled again, or a thread that was on its way to its     *)
(* player clears the wish (line 82).                                       *)
PowerDownHappens == powering ~> shutdown = 2 \/ enable \/ forgotten
=============================================================================
