---------------------------- MODULE Host_proofs -----------------------------
(***************************************************************************)
(* The player of hdctrld, for every number of threads, calls of the tool   *)
(* and crashes: until a thread sleeps the three seconds it sleeps when it  *)
(* starts a player after a power-down, and again when no thread is left,   *)
(* one player at most serves, hdp_running tells of it, and none serves on  *)
(* a decoder that is off.                                                  *)
(*                                                                         *)
(* The video side of bspd, for every set of settings, streams and          *)
(* modelines and any number of requests and reports: the encoder and the   *)
(* BSP use one timing outside of a switch; and, for a vdr that waits for   *)
(* last_changed and a file with a modeline for every request, what is      *)
(* acknowledged is in force.                                               *)
(*                                                                         *)
(* Then the parts of the host together: a behaviour of MCHost is one of    *)
(* each of its parts, so what was proved of a part holds there.            *)
(***************************************************************************)
EXTENDS MCHost, RbKeys_proofs, RbBox_proofs, FiniteSetTheorems, TLAPS

-----------------------------------------------------------------------------
(* The player.                                                             *)

KillPlaces == {"kill", "wait", "hard", "killed"}
ThreadPlaces == KillPlaces \cup {"idle", "up", "doze", "settle", "clear", "play",
                                 "reap", "ended"}
DaemonPlaces == KillPlaces \cup {"top", "started", "stop", "check", "power"}

PlayerFlagType ==
  /\ enable \in BOOLEAN /\ running \in BOOLEAN /\ terminate \in BOOLEAN
  /\ modeChanged \in BOOLEAN /\ powering \in BOOLEAN
  /\ woken \in BOOLEAN /\ forgotten \in BOOLEAN

PlaceType ==
  /\ at \in [Procs -> ThreadPlaces \cup DaemonPlaces]
  /\ back \in [Procs -> {"none", "up", "clear", "check", "power"}]
  /\ at[Daemon] \in DaemonPlaces
  /\ at[Daemon] \in KillPlaces => back[Daemon] \in {"check", "power"}
  /\ \A t \in Threads : /\ at[t] \in ThreadPlaces
                        /\ at[t] \in KillPlaces => back[t] \in {"up", "clear"}

PlayerCountType ==
  /\ player \in [Threads -> {"none", "playing", "leaving"}]
  /\ requests \in 0..MaxToolCalls /\ powerDowns \in 0..MaxPowerDowns
  /\ crashes \in 0..MaxCrashes /\ shutdown \in 0..2

PlayerTypeInv == PlayerFlagType /\ PlaceType /\ PlayerCountType

LEMMA PlayerTypeInit == PlayerInit => PlayerTypeInv
<1> SUFFICES ASSUME PlayerInit PROVE PlayerTypeInv
  OBVIOUS
<1> USE DEF PlayerInit
<1>1. PlayerFlagType
  BY DEF PlayerFlagType
<1>2. PlaceType
  BY PlayerAssumption DEF PlaceType, Procs, KillPlaces, ThreadPlaces, DaemonPlaces
<1>3. PlayerCountType
  BY PlayerAssumption DEF PlayerCountType
<1> QED BY <1>1, <1>2, <1>3 DEF PlayerTypeInv

LEMMA PlayerFlagStep ==
  ASSUME PlayerTypeInv, [PlayerNext]_playerVars
  PROVE  PlayerFlagType'
<1> USE DEF PlayerTypeInv, PlayerFlagType
<1>1. CASE UNCHANGED playerVars
  BY <1>1 DEF playerVars, wishes, flags, tool, past
<1>2. CASE Start \/ Stop \/ PowerDown \/ AskShutdown \/ SetVideoMode
  BY <1>2 DEF Start, Stop, PowerDown, AskShutdown, SetVideoMode, Request, flags,
     past
<1>3. ASSUME NEW p \in Procs, Kill(p) PROVE PlayerFlagType'
  BY <1>3 DEF Kill, KillAsk, KillAnswered, KillTimeout, KillSlept, KillDone, wishes,
     flags, tool, past
<1>4. ASSUME NEW t \in Threads, Obey(t) \/ Exit(t) \/ Crash(t) PROVE PlayerFlagType'
  BY <1>4 DEF Obey, Exit, Crash, wishes, flags, tool, past
<1>5. ASSUME NEW t \in Threads, Thread(t) PROVE PlayerFlagType'
  <2>1. CASE Kill(t)
    BY <1>3, <2>1 DEF Procs
  <2>2. CASE Up(t) \/ Settle(t) \/ Play(t) \/ PlayerGone(t) \/ Reap(t) \/ Ended(t)
    BY <2>2 DEF Up, Settle, ApplySettings, Play, PlayerGone, Reap, Ended, LastOneOut,
       wishes, flags, tool, past, past
  <2> QED BY <1>5, <2>1, <2>2 DEF Thread
<1>6. CASE Loop
  <2>1. CASE Kill(Daemon)
    BY <1>3, <2>1 DEF Procs
  <2>2. CASE StartThread \/ StartFails \/ StartSlept \/ NothingToStart \/ StopPlayer
             \/ Check \/ PowerOff
    BY <2>2 DEF StartThread, StartFails, StartSlept, NothingToStart, StopPlayer,
       Check, ApplySettings, PowerOff, wishes, flags, tool, past
  <2> QED BY <1>6, <2>1, <2>2 DEF Loop
<1> QED BY <1>1, <1>2, <1>4, <1>5, <1>6 DEF PlayerNext

LEMMA PlayerCountStep ==
  ASSUME PlayerTypeInv, [PlayerNext]_playerVars
  PROVE  PlayerCountType'
<1> USE DEF PlayerTypeInv, PlayerCountType
<1>1. CASE UNCHANGED playerVars
  BY <1>1 DEF playerVars, tool, wishes
<1>2. CASE Start \/ Stop \/ PowerDown \/ AskShutdown \/ SetVideoMode
  BY <1>2, PlayerAssumption
     DEF Start, Stop, PowerDown, AskShutdown, SetVideoMode, Request
<1>3. ASSUME NEW p \in Procs, Kill(p) PROVE PlayerCountType'
  BY <1>3 DEF Kill, KillAsk, KillAnswered, KillTimeout, KillSlept, KillDone, tool, wishes
<1>4. ASSUME NEW t \in Threads, Obey(t) \/ Exit(t) \/ Crash(t) PROVE PlayerCountType'
  BY <1>4, PlayerAssumption DEF Obey, Exit, Crash, tool, wishes
<1>5. ASSUME NEW t \in Threads, Thread(t) PROVE PlayerCountType'
  <2>1. CASE Kill(t)
    BY <1>3, <2>1 DEF Procs
  <2>2. CASE Up(t) \/ Settle(t) \/ Play(t) \/ PlayerGone(t) \/ Reap(t) \/ Ended(t)
    BY <2>2 DEF Up, Settle, ApplySettings, Play, PlayerGone, Reap, Ended, tool, wishes
  <2> QED BY <1>5, <2>1, <2>2 DEF Thread
<1>6. CASE Loop
  <2>1. CASE Kill(Daemon)
    BY <1>3, <2>1 DEF Procs
  <2>2. CASE StartThread \/ StartFails \/ StartSlept \/ NothingToStart \/ StopPlayer
             \/ Check \/ PowerOff
    BY <2>2 DEF StartThread, StartFails, StartSlept, NothingToStart, StopPlayer,
       Check, ApplySettings, PowerOff, tool, wishes
  <2> QED BY <1>6, <2>1, <2>2 DEF Loop
<1> QED BY <1>1, <1>2, <1>4, <1>5, <1>6 DEF PlayerNext

LEMMA PlaceStep ==
  ASSUME PlayerTypeInv, [PlayerNext]_playerVars
  PROVE  PlaceType'
<1> USE PlayerAssumption DEF PlayerTypeInv, PlaceType, Procs, Goto, CallKill
<1> USE DEF KillPlaces, ThreadPlaces, DaemonPlaces
<1>1. CASE UNCHANGED playerVars
  BY <1>1 DEF playerVars
<1>2. CASE Start \/ Stop \/ PowerDown \/ AskShutdown \/ SetVideoMode
  BY <1>2 DEF Start, Stop, PowerDown, AskShutdown, SetVideoMode, Request
<1>3. ASSUME NEW p \in Procs, Kill(p) PROVE PlaceType'
  <2>1. CASE KillAsk(p) \/ KillAnswered(p) \/ KillTimeout(p) \/ KillSlept(p)
    BY <1>3, <2>1 DEF KillAsk, KillAnswered, KillTimeout, KillSlept
  <2>2. CASE KillDone(p)
    BY <1>3, <2>2 DEF KillDone
  <2> QED BY <1>3, <2>1, <2>2 DEF Kill
<1>4. ASSUME NEW t \in Threads, Obey(t) \/ Exit(t) \/ Crash(t) PROVE PlaceType'
  BY <1>4 DEF Obey, Exit, Crash
<1>5. ASSUME NEW t \in Threads, Thread(t) PROVE PlaceType'
  <2>1. CASE Kill(t)
    BY <1>3, <2>1
  <2>2. CASE Up(t) \/ Play(t) \/ PlayerGone(t) \/ Reap(t) \/ Ended(t)
    BY <2>2 DEF Up, Play, PlayerGone, Reap, Ended
  <2>3. CASE Settle(t)
    BY <2>3 DEF Settle, ApplySettings
  <2> QED BY <1>5, <2>1, <2>2, <2>3 DEF Thread
<1>6. CASE Loop
  <2>1. CASE Kill(Daemon)
    BY <1>3, <2>1
  <2>2. CASE StartThread
    BY <2>2 DEF StartThread
  <2>3. CASE StartFails \/ StartSlept \/ NothingToStart
    BY <2>3 DEF StartFails, StartSlept, NothingToStart
  <2>4. CASE StopPlayer \/ Check
    BY <2>4 DEF StopPlayer, Check, ApplySettings
  <2>5. CASE PowerOff
    BY <2>5 DEF PowerOff, NextPass
  <2> QED BY <1>6, <2>1, <2>2, <2>3, <2>4, <2>5 DEF Loop
<1> QED BY <1>1, <1>2, <1>4, <1>5, <1>6 DEF PlayerNext

LEMMA PlayerTypeStays == PlayerSpec => []PlayerTypeInv
<1>1. PlayerTypeInv /\ [PlayerNext]_playerVars => PlayerTypeInv'
  BY PlayerFlagStep, PlayerCountStep, PlaceStep DEF PlayerTypeInv
<1> QED BY <1>1, PlayerTypeInit, PTL DEF PlayerSpec

(* The flags that the tool, the daemon and the threads share, where each   *)
(* of them is, and where hdp_kill returns to (hdctrld.c) keep their types. *)
THEOREM PlayerTypeInvariance == PlayerSpec => []PlayerTypeOK
<1>1. PlayerTypeInv => PlayerTypeOK
  BY DEF PlayerTypeInv, PlayerFlagType, PlaceType, PlayerCountType, PlayerTypeOK, KillPlaces,
     ThreadPlaces, DaemonPlaces
<1> QED BY <1>1, PlayerTypeStays, PTL

-----------------------------------------------------------------------------
(* Which player serves, and who prepares one.                              *)
Served == \A t \in Threads : Serving(t) => at[t] = "play"

Alone(t) == \A s \in Threads : s # t => at[s] = "idle"
Nobody == \A s \in Threads : ~Serving(s)

(* The daemon waits for a thread that prepares; what it kills is gone; a   *)
(* thread that has killed, and then its player, have no other beside them. *)
Turns ==
  /\ \A t \in Threads : /\ at[t] \notin {"doze", "settle"}
                        /\ at[t] \in KillPlaces => back[t] = "up"
  /\ \A t \in Threads : Preparing(t) => /\ at[Daemon] = "started" /\ Nobody
                                        /\ \A s \in Threads : Preparing(s) => s = t
  /\ \A t \in Threads : at[t] = "wait" => terminate
  /\ \A t \in Threads : at[t] \in {"hard", "killed", "up", "clear"} => Alone(t)
  /\ \A t \in Threads : at[t] = "clear" => running
  /\ at[Daemon] \in {"hard", "killed"} => Nobody
  /\ at[Daemon] = "wait" /\ ~terminate => Nobody
  /\ \A t \in Threads : Serving(t) => at[t] = "play" /\ Alone(t) /\ running

Order == Served /\ (~woken => Turns)

LEMMA OrderInit == PlayerInit => Order
BY PlayerAssumption DEF PlayerInit, Order, Served, Turns, Preparing, Serving, Procs,
   KillPlaces, Nobody, Alone

LEMMA ServedStep ==
  ASSUME PlayerTypeInv, Served, [PlayerNext]_playerVars
  PROVE  Served'
<1> USE PlayerAssumption
    DEF PlayerTypeInv, PlayerCountType, PlaceType, Served, Serving, Procs, Goto, CallKill
<1>1. CASE UNCHANGED playerVars
  BY <1>1 DEF playerVars
<1>2. CASE Start \/ Stop \/ SetVideoMode \/ PowerDown \/ AskShutdown
  BY <1>2 DEF Start, Stop, SetVideoMode, PowerDown, AskShutdown, Request
<1>3. ASSUME NEW t \in Threads, Obey(t) \/ Exit(t) \/ Crash(t) PROVE Served'
  BY <1>3 DEF Obey, Exit, Crash
<1>4. ASSUME NEW p \in Procs, Kill(p) PROVE Served'
  BY <1>4 DEF Kill, KillAsk, KillAnswered, KillTimeout, KillSlept, KillDone
<1>5. ASSUME NEW t \in Threads, Thread(t) PROVE Served'
  <2>1. CASE Kill(t)
    BY <1>4, <2>1
  <2>2. CASE Up(t) \/ Play(t) \/ PlayerGone(t) \/ Reap(t) \/ Ended(t)
    BY <2>2 DEF Up, Play, PlayerGone, Alive, Reap, Ended
  <2>3. CASE Settle(t)
    BY <2>3 DEF Settle, ApplySettings
  <2> QED BY <1>5, <2>1, <2>2, <2>3 DEF Thread
<1>6. CASE Loop
  <2>1. CASE Kill(Daemon)
    BY <1>4, <2>1
  <2>2. CASE StartThread \/ StartFails \/ StartSlept \/ NothingToStart
    BY <2>2 DEF StartThread, StartFails, StartSlept, NothingToStart
  <2>3. CASE StopPlayer \/ Check
    BY <2>3 DEF StopPlayer, Check, ApplySettings
  <2>4. CASE PowerOff
    BY <2>4 DEF PowerOff, NextPass
  <2> QED BY <1>6, <2>1, <2>2, <2>3, <2>4 DEF Loop
<1> QED BY <1>1, <1>2, <1>3, <1>5, <1>6 DEF PlayerNext

(* What was upset by a thread that slept ends with the last thread.        *)
LEMMA UpsetEnds ==
  ASSUME [PlayerNext]_playerVars, woken, ~woken'
  PROVE  \E t \in Threads : Ended(t) /\ Alone(t)
<1>1. CASE UNCHANGED playerVars
  BY <1>1 DEF playerVars, past
<1>2. CASE Start \/ Stop \/ SetVideoMode \/ PowerDown \/ AskShutdown
  BY <1>2 DEF Start, Stop, SetVideoMode, PowerDown, AskShutdown, past
<1>3. ASSUME NEW t \in Threads, Obey(t) \/ Exit(t) \/ Crash(t) PROVE FALSE
  BY <1>3 DEF Obey, Exit, Crash, past
<1>4. ASSUME NEW p \in Procs, Kill(p) PROVE FALSE
  BY <1>4 DEF Kill, KillAsk, KillAnswered, KillTimeout, KillSlept, KillDone, past
<1>5. ASSUME NEW t \in Threads, Thread(t) PROVE Ended(t) /\ Alone(t)
  <2>1. CASE Kill(t)
    BY <1>4, <2>1 DEF Procs
  <2>2. CASE Up(t) \/ Settle(t) \/ Play(t) \/ PlayerGone(t) \/ Reap(t)
    BY <2>2 DEF Up, Settle, ApplySettings, Play, PlayerGone, Reap, past
  <2>3. CASE Ended(t)
    BY <2>3 DEF Ended, LastOneOut, Alone
  <2> QED BY <1>5, <2>1, <2>2, <2>3 DEF Thread
<1>6. CASE Loop
  <2>1. CASE Kill(Daemon)
    BY <1>4, <2>1 DEF Procs
  <2>2. CASE StartThread \/ StartFails \/ StartSlept \/ NothingToStart \/ StopPlayer
             \/ Check \/ PowerOff
    BY <2>2 DEF StartThread, StartFails, StartSlept, NothingToStart, StopPlayer,
       Check, ApplySettings, PowerOff, past
  <2> QED BY <1>6, <2>1, <2>2 DEF Loop
<1> QED BY <1>1, <1>2, <1>3, <1>5, <1>6 DEF PlayerNext

LEMMA TurnsStep ==
  ASSUME PlayerTypeInv, Served, Turns, [PlayerNext]_playerVars, ~woken'
  PROVE  Turns'
<1> USE PlayerAssumption DEF PlayerTypeInv, PlaceType, Turns, Procs, Goto, CallKill
<1> USE DEF KillPlaces, Preparing, ThreadPlaces, DaemonPlaces, Alone, Nobody, Serving
<1>1. CASE UNCHANGED playerVars
  BY <1>1 DEF playerVars, flags
<1>2. CASE Start \/ Stop \/ SetVideoMode \/ PowerDown \/ AskShutdown
  BY <1>2 DEF Start, Stop, SetVideoMode, PowerDown, AskShutdown, Request, flags
<1>3. ASSUME NEW t \in Threads, Obey(t) \/ Exit(t) \/ Crash(t) PROVE Turns'
  BY <1>3 DEF PlayerCountType, Obey, Exit, Crash, flags
<1>4. ASSUME Kill(Daemon) PROVE Turns'
  <2>1. CASE KillAsk(Daemon)
    BY <2>1 DEF KillAsk
  <2>2. CASE KillAnswered(Daemon) \/ KillSlept(Daemon)
    BY <2>2 DEF KillAnswered, KillSlept, flags
  <2>3. CASE KillTimeout(Daemon)
    BY <2>3 DEF PlayerCountType, KillTimeout
  <2>4. CASE KillDone(Daemon)
    BY <2>4 DEF KillDone
  <2> QED BY <1>4, <2>1, <2>2, <2>3, <2>4 DEF Kill
<1>5. ASSUME NEW t \in Threads, Thread(t) PROVE Turns'
  <2>1. CASE KillAsk(t)
    BY <2>1 DEF KillAsk
  <2>2. CASE KillAnswered(t) \/ KillSlept(t)
    BY <2>2 DEF KillAnswered, KillSlept, flags
  <2>3. CASE KillTimeout(t)
    BY <2>3 DEF PlayerCountType, KillTimeout, KillSleepOver, Ending, Alive
  <2>4. CASE KillDone(t)
    BY <2>4 DEF KillDone
  <2>5. CASE Up(t)
    <3>1. /\ at[t] = "up" /\ at' = [at EXCEPT ![t] = "clear"] /\ running'
          /\ UNCHANGED <<terminate, back, player>>
      BY <2>5 DEF Up
    <3>2. /\ at'[t] = "clear" /\ \A s \in Threads : s # t => at'[s] = "idle"
          /\ at'[Daemon] = at[Daemon]
      BY <3>1
    <3>3. \A s \in Threads : ~Serving(s)
      BY <3>1
    <3> QED BY <3>1, <3>2, <3>3
  <2>6. CASE Settle(t)
    BY <2>6 DEF Settle
  <2>7. CASE Play(t)
    BY <2>7 DEF PlayerCountType, Play, flags
  <2>8. CASE PlayerGone(t) \/ Reap(t)
    BY <2>8 DEF PlayerGone, Reap, Alive, flags
  <2>9. CASE Ended(t)
    BY <2>9 DEF Ended
  <2> QED BY <1>5, <2>1, <2>2, <2>3, <2>4, <2>5, <2>6, <2>7, <2>8, <2>9 DEF Thread, Kill
<1>6. CASE Loop
  <2>1. CASE StartThread
    BY <2>1 DEF StartThread, MustStart, flags
  <2>2. CASE StartFails \/ NothingToStart
    BY <2>2 DEF StartFails, NothingToStart, flags
  <2>3. CASE StartSlept
    BY <2>3 DEF StartSlept, StartSleepOver, Starting, flags
  <2>4. CASE StopPlayer \/ Check
    BY <2>4 DEF StopPlayer, Check, ApplySettings, flags
  <2>5. CASE PowerOff
    BY <2>5 DEF PowerOff, NextPass, flags
  <2> QED BY <1>4, <1>6, <2>1, <2>2, <2>3, <2>4, <2>5 DEF Loop
<1> QED BY <1>1, <1>2, <1>3, <1>5, <1>6 DEF PlayerNext

(* The last thread leaves nobody and nothing behind.                       *)
LEMMA TurnsAgain ==
  ASSUME PlayerTypeInv, Served, NEW t \in Threads, Ended(t), Alone(t)
  PROVE  Turns' /\ Nobody'
<1>1. at' = [at EXCEPT ![t] = "idle"] /\ player' = player /\ at[t] = "ended"
  BY DEF Ended, Goto
<1>2. \A s \in Threads : at'[s] = "idle" /\ ~Serving(s)'
  BY <1>1 DEF PlayerTypeInv, PlaceType, Procs, Served, Serving, Alone
<1> QED BY <1>2 DEF Turns, Nobody, Preparing, KillPlaces

LEMMA OrderStays == PlayerSpec => [](PlayerTypeInv /\ Order)
<1>1. PlayerTypeInv /\ Order /\ [PlayerNext]_playerVars => Order'
  <2> SUFFICES ASSUME PlayerTypeInv, Order, [PlayerNext]_playerVars PROVE Order'
    OBVIOUS
  <2>1. Served'
    BY ServedStep DEF Order
  <2>2. ASSUME ~woken' PROVE Turns'
    <3>1. CASE woken
      BY <2>2, <3>1, UpsetEnds, TurnsAgain DEF Order
    <3>2. CASE ~woken
      BY <2>2, <3>2, TurnsStep DEF Order
    <3> QED BY <3>1, <3>2
  <2> QED BY <2>1, <2>2 DEF Order
<1> QED BY <1>1, OrderInit, PlayerTypeStays, PTL DEF PlayerSpec

(* hd_thread calls hdp_kill before it starts its player, and hd_daemon     *)
(* starts no thread while a player runs: two players never serve at the    *)
(* same time, while no thread is left from a start after a power-down.     *)
THEOREM OnePlayerAtATime == PlayerSpec => []OnePlayer
<1>1. PlayerTypeInv /\ Order => OnePlayer
  <2> SUFFICES ASSUME Turns PROVE Cardinality({t \in Threads : Serving(t)}) <= 1
    BY DEF Order, OnePlayer
  <2> DEFINE Servers == {t \in Threads : Serving(t)}
  <2>1. CASE Servers = {}
    BY <2>1, FS_EmptySet
  <2>2. ASSUME NEW t \in Servers PROVE Cardinality(Servers) <= 1
    <3>1. Servers = {t}
      <4>1. \A s \in Threads : Serving(s) => at[s] = "play" /\ Alone(s)
        BY Zenon DEF Turns
      <4>2. \A s \in Threads : Serving(s) => s = t
        BY <2>2, <4>1 DEF Alone
      <4> QED BY <4>2, Zenon
    <3> HIDE DEF Servers
    <3>2. Cardinality(Servers) = 1
      BY <3>1, FS_Singleton, Zenon
    <3> QED BY <3>2
  <2> QED BY <2>1, <2>2
<1> QED BY <1>1, OrderStays, PTL

(* hdp_kill takes hdp_running back only when nobody is left to serve, and  *)
(* a thread that ends only when it is the last (with the same exception).  *)
THEOREM RunningTellsOfThePlayer == PlayerSpec => []RunningIsTold
<1>1. PlayerTypeInv /\ Order => RunningIsTold
  BY DEF Order, Turns, RunningIsTold
<1> QED BY <1>1, OrderStays, PTL

(* The daemon sets hd_shutdown to 2 with no player running, and from then  *)
(* on none is started but after a sleep of its thread.                     *)
THEOREM SilentWhenDown == PlayerSpec => []PoweredDownIsSilent
<1>1. PlayerInit => PoweredDownIsSilent
  BY DEF PlayerInit, PoweredDownIsSilent
<1>2. /\ PlayerTypeInv /\ Order /\ PoweredDownIsSilent /\ [PlayerNext]_playerVars
      => PoweredDownIsSilent'
  <2> SUFFICES ASSUME PlayerTypeInv, Order, PoweredDownIsSilent, [PlayerNext]_playerVars,
                      ~woken', (shutdown = 2)'
               PROVE  Nobody'
    BY DEF PoweredDownIsSilent, Nobody
  <2>0. CASE woken
    BY <2>0, UpsetEnds, TurnsAgain DEF Order
  <2> SUFFICES ASSUME ~woken PROVE Nobody'
    BY <2>0
  <2>00. Turns /\ (shutdown = 2 => Nobody)
    BY DEF Order, PoweredDownIsSilent, Nobody
  <2> USE <2>00 DEF Nobody, Serving
  <2>1. CASE UNCHANGED playerVars
    BY <2>1 DEF playerVars, wishes
  <2>2. CASE Start \/ Stop \/ SetVideoMode \/ PowerDown \/ AskShutdown
    BY <2>2 DEF Start, Stop, SetVideoMode, PowerDown, AskShutdown, Request
  <2>3. ASSUME NEW t \in Threads, Obey(t) \/ Exit(t) \/ Crash(t) PROVE Nobody'
    BY <2>3 DEF PlayerTypeInv, PlayerCountType, Obey, Exit, Crash, wishes
  <2>4. ASSUME NEW p \in Procs, Kill(p) PROVE Nobody'
    BY <2>4 DEF PlayerTypeInv, PlayerCountType, Kill, KillAsk, KillAnswered, KillTimeout,
       KillSlept, KillDone, wishes
  <2>5. ASSUME NEW t \in Threads, Thread(t) PROVE Nobody'
    <3>1. CASE Kill(t)
      BY <2>4, <3>1 DEF Procs
    <3>2. CASE Play(t)
      BY <3>2 DEF Play
    <3>3. CASE Up(t) \/ Settle(t) \/ PlayerGone(t) \/ Reap(t) \/ Ended(t)
      BY <3>3 DEF Up, Settle, ApplySettings, PlayerGone, Reap, Ended, wishes
    <3> QED BY <2>5, <3>1, <3>2, <3>3 DEF Thread
  <2>6. CASE Loop
    <3>1. CASE Kill(Daemon)
      BY <2>4, <3>1 DEF Procs
    <3>2. CASE PowerOff
      BY <3>2 DEF PowerOff, Turns
    <3>3. CASE StartThread \/ StartFails \/ StartSlept \/ NothingToStart
               \/ StopPlayer \/ Check
      BY <3>3 DEF StartThread, StartFails, StartSlept, NothingToStart, StopPlayer,
         Check, ApplySettings, wishes
    <3> QED BY <2>6, <3>1, <3>2, <3>3 DEF Loop
  <2> QED BY <2>1, <2>2, <2>3, <2>5, <2>6 DEF PlayerNext
<1> QED BY <1>1, <1>2, OrderStays, PTL DEF PlayerSpec

-----------------------------------------------------------------------------
(* The video mode.                                                         *)


Attributes == Streams \cup {Default, NoAttributes}
CheckPlaces == {"attributes", "copyAttributes", "keepAttributes", "mode", "compare",
                "keepMode", "select", "focus", "settings", "request"}
SwitchPlaces == {"select", "focus", "settings", "request"}

(* In video_check_mode, and in video_check_attributes.                     *)
InMode == pc \in {"compare", "keepMode"} \/ (pc \in SwitchPlaces /\ return = "keepMode")
InAttributes == \/ pc \in {"copyAttributes", "keepAttributes"}
                \/ pc \in SwitchPlaces /\ return = "keepAttributes"

SettingType ==
  /\ vm \in Settings /\ lastVm \in Settings \cup {Blank}
  /\ va \in Streams \cup {Default} /\ lastVa \in Attributes /\ snapshot \in Attributes

VideoCountType ==
  /\ vmChanged \in 0..MaxRequests /\ (asking => vmChanged < MaxRequests)
  /\ vaChanged \in 0..MaxReports /\ (reporting => vaChanged < MaxReports)
  /\ lastChanged \in 0..MaxRequests /\ lastVmChanged \in 0..MaxRequests
  /\ lastVaChanged \in 0..MaxReports /\ sampled \in Nat
  /\ InMode => sampled \in 0..MaxRequests
  /\ InAttributes => sampled \in 0..MaxReports

VideoFlagType ==
  /\ asking \in BOOLEAN /\ reporting \in BOOLEAN /\ force \in BOOLEAN

ControlType ==
  /\ pc \in CheckPlaces /\ need \in {0, 1, 2}
  /\ return \in {"mode", "keepAttributes", "keepMode"}
  /\ pc \in SwitchPlaces => return # "mode"

DeviceType ==
  /\ chip \in Programmed /\ chosen \in Programmed
  /\ hw \in [set : BOOLEAN, mode : {"OFF", "CUSTOM"}, timing : Modelines \cup {NoTiming}]
  /\ shown \in Modelines \cup {NoTiming, Off}

VideoTypeInv == SettingType /\ VideoCountType /\ VideoFlagType /\ ControlType /\ DeviceType

LEMMA VideoTypeInit == VideoInit => VideoTypeInv
<1> SUFFICES ASSUME VideoInit PROVE VideoTypeInv
  OBVIOUS
<1> USE DEF VideoInit
<1>1. SettingType
  BY DEF SettingType, Attributes
<1>2. VideoCountType
  BY VideoAssumption DEF VideoCountType, InMode, InAttributes, SwitchPlaces
<1>3. VideoFlagType
  BY DEF VideoFlagType
<1>4. ControlType
  BY DEF ControlType, CheckPlaces, SwitchPlaces
<1>5. DeviceType
  BY DEF DeviceType, Programmed, Unprogrammed
<1> QED BY <1>1, <1>2, <1>3, <1>4, <1>5 DEF VideoTypeInv

(* A modeline that is found is one of the file.                            *)
LEMMA SearchFinds == ASSUME NEW t PROVE Search(t) \subseteq Modelines
BY DEF Search

LEMMA SettingStep ==
  ASSUME VideoTypeInv, [VideoNext]_videoVars
  PROVE  SettingType'
<1> USE DEF VideoTypeInv, SettingType, Attributes
<1>1. CASE UNCHANGED videoVars
  BY <1>1 DEF videoVars, settings, stream, last, control
<1>2. ASSUME NEW s \in Settings, Ask(s) PROVE SettingType'
  BY <1>2 DEF Ask, stream, last, control
<1>3. ASSUME NEW a \in Streams, Report(a) PROVE SettingType'
  BY <1>3 DEF Report, settings, last, control
<1>4. CASE CountRequest \/ CountReport \/ TakeTiming
  BY <1>4 DEF CountRequest, CountReport, TakeTiming, settings, stream, last, control
<1>5. CASE SampleAttributes \/ CopyAttributes \/ KeepAttributes
  BY <1>5 DEF SampleAttributes, CopyAttributes, KeepAttributes, settings, stream, last
<1>6. CASE SampleMode \/ CompareMode \/ KeepMode
  BY <1>6 DEF SampleMode, CompareMode, KeepMode, settings, stream, last
<1>7. CASE SkipSwitch \/ Select \/ SetupFocus \/ DownloadSettings \/ RequestTiming
  BY <1>7 DEF SkipSwitch, Select, SetupFocus, DownloadSettings, RequestTiming,
     settings, stream, last
<1> QED BY <1>1, <1>2, <1>3, <1>4, <1>5, <1>6, <1>7 DEF VideoNext, CheckSettings

LEMMA ControlStep ==
  ASSUME VideoTypeInv, [VideoNext]_videoVars
  PROVE  ControlType'
<1> USE DEF VideoTypeInv, ControlType, CheckPlaces, SwitchPlaces
<1>1. CASE UNCHANGED videoVars
  BY <1>1 DEF videoVars, control
<1>2. ASSUME NEW s \in Settings, Ask(s) PROVE ControlType'
  BY <1>2 DEF Ask, control
<1>3. ASSUME NEW a \in Streams, Report(a) PROVE ControlType'
  BY <1>3 DEF Report, control
<1>4. CASE CountRequest \/ CountReport \/ TakeTiming
  BY <1>4 DEF CountRequest, CountReport, TakeTiming, control
<1>5. CASE SampleAttributes \/ CopyAttributes \/ KeepAttributes
  BY <1>5 DEF SampleAttributes, CopyAttributes, KeepAttributes, SwitchFor
<1>6. CASE SampleMode \/ CompareMode \/ KeepMode
  BY <1>6 DEF SampleMode, CompareMode, KeepMode
<1>7. CASE SkipSwitch \/ Select \/ SetupFocus \/ DownloadSettings \/ RequestTiming
  BY <1>7 DEF SkipSwitch, Select, SetupFocus, DownloadSettings, RequestTiming
<1> QED BY <1>1, <1>2, <1>3, <1>4, <1>5, <1>6, <1>7 DEF VideoNext, CheckSettings

LEMMA VideoFlagStep ==
  ASSUME VideoTypeInv, [VideoNext]_videoVars
  PROVE  VideoFlagType'
<1> USE DEF VideoTypeInv, VideoFlagType
<1>1. CASE UNCHANGED videoVars
  BY <1>1 DEF videoVars, control, settings, stream
<1>2. ASSUME NEW s \in Settings, Ask(s) PROVE VideoFlagType'
  BY <1>2 DEF Ask, control, stream
<1>3. ASSUME NEW a \in Streams, Report(a) PROVE VideoFlagType'
  BY <1>3 DEF Report, control, settings
<1>4. CASE CountRequest \/ CountReport \/ TakeTiming
  BY <1>4 DEF CountRequest, CountReport, TakeTiming, control, settings, stream
<1>5. CASE SampleAttributes \/ CopyAttributes \/ KeepAttributes
  BY <1>5 DEF SampleAttributes, CopyAttributes, KeepAttributes, settings, stream
<1>6. CASE SampleMode \/ CompareMode \/ KeepMode
  BY <1>6 DEF SampleMode, CompareMode, KeepMode, settings, stream
<1>7. CASE SkipSwitch \/ Select \/ SetupFocus \/ DownloadSettings \/ RequestTiming
  BY <1>7 DEF SkipSwitch, Select, SetupFocus, DownloadSettings, RequestTiming,
     settings, stream
<1> QED BY <1>1, <1>2, <1>3, <1>4, <1>5, <1>6, <1>7 DEF VideoNext, CheckSettings

LEMMA RequestCountStep ==
  ASSUME VideoTypeInv, [VideoNext]_videoVars
  PROVE  VideoCountType'
<1> USE VideoAssumption DEF VideoTypeInv, VideoCountType, InMode, InAttributes, SwitchPlaces
<1>1. CASE UNCHANGED videoVars
  BY <1>1 DEF videoVars, control, settings, stream, last
<1>2. ASSUME NEW s \in Settings, Ask(s) PROVE VideoCountType'
  BY <1>2 DEF Ask, control, stream, last
<1>3. ASSUME NEW a \in Streams, Report(a) PROVE VideoCountType'
  BY <1>3 DEF Report, control, settings, last
<1>4. CASE CountRequest
  BY <1>4 DEF CountRequest, control, stream, last
<1>5. CASE CountReport \/ TakeTiming
  BY <1>5 DEF CountReport, TakeTiming, control, settings, stream, last
<1>6. CASE SampleAttributes \/ CopyAttributes \/ KeepAttributes
  BY <1>6 DEF SampleAttributes, CopyAttributes, KeepAttributes, settings, stream, last
<1>7. CASE SampleMode \/ CompareMode \/ KeepMode
  BY <1>7 DEF SampleMode, CompareMode, KeepMode, settings, stream, last
<1>8. CASE SkipSwitch \/ Select \/ SetupFocus \/ DownloadSettings \/ RequestTiming
  BY <1>8 DEF SkipSwitch, Select, SetupFocus, DownloadSettings, RequestTiming,
     settings, stream, last, ControlType
<1> QED BY <1>1, <1>2, <1>3, <1>4, <1>5, <1>6, <1>7, <1>8 DEF VideoNext, CheckSettings

LEMMA DeviceStep ==
  ASSUME VideoTypeInv, [VideoNext]_videoVars
  PROVE  DeviceType'
<1> USE DEF VideoTypeInv, DeviceType
<1>1. CASE UNCHANGED videoVars
  BY <1>1 DEF videoVars, control, devices
<1>2. CASE (\E s \in Settings : Ask(s)) \/ (\E a \in Streams : Report(a))
  BY <1>2 DEF Ask, Report, control, devices
<1>3. CASE CountRequest \/ CountReport
  BY <1>3 DEF CountRequest, CountReport, control, devices
<1>4. CASE TakeTiming
  BY <1>4 DEF TakeTiming, control
<1>5. CASE SampleAttributes \/ CopyAttributes \/ KeepAttributes
  BY <1>5 DEF SampleAttributes, CopyAttributes, KeepAttributes, devices
<1>6. CASE SampleMode \/ CompareMode \/ KeepMode
  BY <1>6 DEF SampleMode, CompareMode, KeepMode, devices
<1>7. CASE SkipSwitch \/ SetupFocus
  BY <1>7 DEF SkipSwitch, SetupFocus, devices
<1>8. CASE Select
  <2>1. PICK t \in Modelines : chosen' = [wanted |-> vm, timing |-> t]
    BY <1>8, SearchFinds DEF Select
  <2> QED BY <1>8, <2>1 DEF Select, Programmed, SettingType
<1>9. CASE DownloadSettings
  BY <1>9 DEF DownloadSettings, Programmed
<1>10. CASE RequestTiming
  BY <1>10 DEF RequestTiming, Programmed, Unprogrammed
<1> QED BY <1>1, <1>2, <1>3, <1>4, <1>5, <1>6, <1>7, <1>8, <1>9, <1>10
       DEF VideoNext, CheckSettings

LEMMA VideoTypeStays == VideoSpec => []VideoTypeInv
<1>1. VideoTypeInv /\ [VideoNext]_videoVars => VideoTypeInv'
  BY SettingStep, ControlStep, VideoFlagStep, RequestCountStep, DeviceStep DEF VideoTypeInv
<1> QED BY <1>1, VideoTypeInit, PTL DEF VideoSpec

(* The settings, the counters and what is programmed into encoder and BSP  *)
(* (videomodes.c) keep their types; in particular no counter is remembered *)
(* that its owner has not reached.                                         *)
THEOREM VideoTypeInvariance == VideoSpec => []VideoTypeOK
<1>1. VideoTypeInv => VideoTypeOK
  BY DEF VideoTypeInv, SettingType, VideoCountType, VideoFlagType, ControlType, DeviceType,
     VideoTypeOK, Attributes, CheckPlaces
<1> QED BY <1>1, VideoTypeStays, PTL

-----------------------------------------------------------------------------
(* The encoder and the BSP.  While a switch goes on the two may differ;    *)
(* it ends with both at the timing that was chosen at its beginning.       *)
ChipsInStep ==
  /\ hw.timing = chip.timing
  /\ hw.set => hw.mode = "CUSTOM"
  /\ ~hw.set => shown = chip.timing

ChipInv ==
  /\ ~Switching => ChipsInStep
  /\ pc \in {"settings", "request"} => chip = chosen
  /\ pc = "request" => hw.timing = chip.timing

(* The daemon's steps outside of a switch touch no device.                 *)
Checks == SampleAttributes \/ CopyAttributes \/ KeepAttributes
          \/ SampleMode \/ CompareMode \/ KeepMode \/ SkipSwitch

LEMMA ChecksAreOutside ==
  ASSUME VideoTypeInv, Checks
  PROVE  /\ ~Switching /\ ~Switching' /\ UNCHANGED devices
         /\ pc' \notin {"settings", "request"}
<1>1. CASE SampleAttributes \/ CopyAttributes \/ KeepAttributes
  BY <1>1 DEF SampleAttributes, CopyAttributes, KeepAttributes, Switching
<1>2. CASE SampleMode \/ CompareMode \/ KeepMode
  BY <1>2 DEF SampleMode, CompareMode, KeepMode, Switching, devices
<1>3. CASE SkipSwitch
  BY <1>3 DEF SkipSwitch, Switching, VideoTypeInv, ControlType
<1> QED BY <1>1, <1>2, <1>3 DEF Checks

LEMMA ChipInit == VideoInit => ChipInv
BY DEF VideoInit, ChipInv, ChipsInStep, Unprogrammed

LEMMA ChipStep ==
  ASSUME VideoTypeInv, ChipInv, [VideoNext]_videoVars
  PROVE  ChipInv'
<1> USE DEF ChipInv, ChipsInStep
<1>1. CASE UNCHANGED videoVars
  BY <1>1 DEF videoVars, control, devices, Switching
<1>2. CASE (\E s \in Settings : Ask(s)) \/ (\E a \in Streams : Report(a))
  BY <1>2 DEF Ask, Report, control, devices, Switching
<1>3. CASE CountRequest \/ CountReport
  BY <1>3 DEF CountRequest, CountReport, control, devices, Switching
<1>4. CASE TakeTiming
  BY <1>4 DEF TakeTiming, control, Switching, VideoTypeInv, DeviceType
<1>5. CASE Checks
  BY <1>5, ChecksAreOutside DEF devices
<1>6. CASE Select
  BY <1>6 DEF Select, Switching
<1>7. CASE SetupFocus
  BY <1>7 DEF SetupFocus, Switching
<1>8. CASE DownloadSettings
  BY <1>8 DEF DownloadSettings, Switching, VideoTypeInv, DeviceType
<1>9. CASE RequestTiming
  BY <1>9 DEF RequestTiming, Switching, VideoTypeInv, ControlType, DeviceType, SwitchPlaces
<1> QED BY <1>1, <1>2, <1>3, <1>4, <1>5, <1>6, <1>7, <1>8, <1>9
       DEF VideoNext, CheckSettings, Checks

(* Outside of set_video_mode (videomodes.c), a BSP that has taken the last *)
(* request puts out the timing to which the encoder is programmed, however *)
(* often the BSP did not answer in time.                                   *)
THEOREM EncoderAndBspAgree == VideoSpec => []ChipsAgree
<1>1. VideoTypeInv /\ ChipInv /\ [VideoNext]_videoVars => ChipInv'
  BY ChipStep
<1>2. ChipInv => ChipsAgree
  BY DEF ChipInv, ChipsInStep, ChipsAgree
<1> QED BY <1>1, <1>2, ChipInit, VideoTypeStays, PTL DEF VideoSpec

-----------------------------------------------------------------------------
(* The acknowledgement.  While a request is not acknowledged, a vdr that   *)
(* waits leaves video_mode alone: what the daemon reads of it in several   *)
(* steps is one state.                                                     *)
ModelinesSuffice ==
  \A s \in Settings, a \in Streams \cup {Default} : Search(Timing(s, a)) # {}

CountersAgree ==
  /\ lastChanged = lastVmChanged
  /\ InMode => vmChanged # lastChanged /\ sampled = vmChanged

RequestOpen ==
  /\ asking => vmChanged = lastChanged
  /\ force => vmChanged # lastChanged /\ ~asking

(* The encoder follows the settings of the last switch or those of now.    *)
EncoderFollows ==
  /\ chip.wanted \in {lastVm, vm}
  /\ Switching => chosen.wanted \in {lastVm, vm}
  /\ pc \in {"settings", "request"} => chip = chosen
  /\ pc = "keepMode" => chip.wanted = vm
  /\ pc = "select" /\ return = "keepMode" => need = 1
  /\ Switching /\ return = "keepMode" => chosen.wanted = vm

Settled == lastChanged = vmChanged /\ ~asking => vm = lastVm

AckInv == CountersAgree /\ RequestOpen /\ EncoderFollows /\ Settled

LEMMA AckInit == VideoInit => AckInv
<1> SUFFICES ASSUME VideoInit PROVE AckInv
  OBVIOUS
<1>1. CountersAgree /\ EncoderFollows
  BY DEF VideoInit, CountersAgree, EncoderFollows, InMode, SwitchPlaces, Unprogrammed, Switching
<1>2. RequestOpen /\ Settled
  BY DEF VideoInit, RequestOpen, Settled
<1> QED BY <1>1, <1>2 DEF AckInv

LEMMA CountersStep ==
  ASSUME VideoTypeInv, AckInv, [VideoNext]_videoVars
  PROVE  CountersAgree'
<1> USE DEF AckInv, CountersAgree, InMode, SwitchPlaces
<1>1. CASE UNCHANGED videoVars
  BY <1>1 DEF videoVars, settings, last, control
<1>2. CASE (\E s \in Settings : Ask(s)) \/ (\E a \in Streams : Report(a))
  BY <1>2 DEF Ask, Report, settings, last, control
<1>3. CASE CountRequest
  <2>1. ~InMode
    BY <1>3 DEF CountRequest, RequestOpen
  <2> QED BY <1>3, <2>1 DEF CountRequest, last, control
<1>4. CASE CountReport \/ TakeTiming
  BY <1>4 DEF CountReport, TakeTiming, settings, last, control
<1>5. CASE SampleAttributes \/ CopyAttributes \/ KeepAttributes
  BY <1>5 DEF SampleAttributes, CopyAttributes, KeepAttributes, settings, last
<1>6. CASE SampleMode
  <2>1. force => vmChanged # lastChanged
    BY DEF RequestOpen
  <2> QED BY <1>6, <2>1 DEF SampleMode, settings, last
<1>7. CASE CompareMode \/ KeepMode
  BY <1>7 DEF CompareMode, KeepMode, settings, last
<1>8. CASE SkipSwitch \/ Select \/ SetupFocus \/ DownloadSettings \/ RequestTiming
  BY <1>8 DEF SkipSwitch, Select, SetupFocus, DownloadSettings, RequestTiming,
     settings, last, VideoTypeInv, ControlType
<1> QED BY <1>1, <1>2, <1>3, <1>4, <1>5, <1>6, <1>7, <1>8 DEF VideoNext, CheckSettings

LEMMA RequestStep ==
  ASSUME Polite = TRUE, VideoTypeInv, AckInv, [VideoNext]_videoVars
  PROVE  RequestOpen'
<1> USE DEF AckInv, RequestOpen
<1>1. CASE UNCHANGED videoVars
  BY <1>1 DEF videoVars, settings, control
<1>2. ASSUME NEW s \in Settings, Ask(s) PROVE RequestOpen'
  BY <1>2 DEF Ask, control
<1>3. CASE CountRequest
  BY <1>3 DEF CountRequest, control
<1>4. ASSUME NEW a \in Streams, Report(a) PROVE RequestOpen'
  BY <1>4 DEF Report, settings, control
<1>5. CASE CountReport \/ TakeTiming
  BY <1>5 DEF CountReport, TakeTiming, settings, control
<1>6. CASE SampleAttributes \/ CopyAttributes \/ KeepAttributes
  BY <1>6 DEF SampleAttributes, CopyAttributes, KeepAttributes, settings
<1>7. CASE SampleMode \/ CompareMode
  BY <1>7 DEF SampleMode, CompareMode, settings
<1>8. CASE KeepMode
  <2>1. sampled = vmChanged
    BY <1>8 DEF KeepMode, CountersAgree, InMode
  <2> QED BY <1>8, <2>1 DEF KeepMode, settings
<1>9. CASE SkipSwitch \/ Select \/ SetupFocus \/ DownloadSettings \/ RequestTiming
  BY <1>9 DEF SkipSwitch, Select, SetupFocus, DownloadSettings, RequestTiming, settings
<1> QED BY <1>1, <1>2, <1>3, <1>4, <1>5, <1>6, <1>7, <1>8, <1>9
       DEF VideoNext, CheckSettings

LEMMA FollowsStep ==
  ASSUME Polite = TRUE, ModelinesSuffice, VideoTypeInv, AckInv, [VideoNext]_videoVars
  PROVE  EncoderFollows'
<1> USE DEF AckInv, EncoderFollows, Switching
<1>1. CASE UNCHANGED videoVars
  BY <1>1 DEF videoVars, settings, last, control, devices
<1>2. ASSUME NEW s \in Settings, Ask(s) PROVE EncoderFollows'
  <2>1. vm = lastVm /\ ~InMode
    BY <1>2 DEF Ask, Settled, CountersAgree
  <2> QED BY <1>2, <2>1 DEF Ask, last, control, devices, InMode, SwitchPlaces
<1>3. CASE CountRequest
  BY <1>3 DEF CountRequest, last, control, devices
<1>4. CASE (\E a \in Streams : Report(a)) \/ CountReport
  BY <1>4 DEF Report, CountReport, settings, last, control, devices
<1>5. CASE TakeTiming
  BY <1>5 DEF TakeTiming, settings, last, control
<1>6. CASE SampleAttributes \/ CopyAttributes \/ KeepAttributes
  BY <1>6 DEF SampleAttributes, CopyAttributes, KeepAttributes, settings, last, devices
<1>7. CASE SampleMode
  BY <1>7 DEF SampleMode, settings, last, devices
<1>8. CASE CompareMode
  <2>1. pc' = "keepMode" => vm = lastVm
    BY <1>8 DEF CompareMode
  <2> QED BY <1>8, <2>1 DEF CompareMode, settings, last, devices
<1>9. CASE KeepMode
  BY <1>9 DEF KeepMode, settings, devices
<1>10. CASE SkipSwitch
  <2>1. Search(Timing(vm, va)) # {}
    BY DEF ModelinesSuffice, VideoTypeInv, SettingType
  <2>2. pc' = return /\ return # "keepMode" /\ return # "mode"
    BY <1>10, <2>1 DEF SkipSwitch, NoSwitch, VideoTypeInv, ControlType, SwitchPlaces
  <2> QED BY <1>10, <2>2 DEF SkipSwitch, settings, last, devices, VideoTypeInv, ControlType
<1>11. CASE Select
  BY <1>11 DEF Select, settings, last
<1>12. CASE SetupFocus
  BY <1>12 DEF SetupFocus, settings, last
<1>13. CASE DownloadSettings
  BY <1>13 DEF DownloadSettings, settings, last
<1>14. CASE RequestTiming
  BY <1>14 DEF RequestTiming, settings, last, VideoTypeInv, ControlType, SwitchPlaces
<1> QED BY <1>1, <1>2, <1>3, <1>4, <1>5, <1>6, <1>7, <1>8, <1>9, <1>10, <1>11,
        <1>12, <1>13, <1>14 DEF VideoNext, CheckSettings

LEMMA SettledStep ==
  ASSUME Polite = TRUE, VideoTypeInv, AckInv, [VideoNext]_videoVars
  PROVE  Settled'
<1> USE DEF AckInv, Settled
<1>1. CASE UNCHANGED videoVars
  BY <1>1 DEF videoVars, settings, last
<1>2. ASSUME NEW s \in Settings, Ask(s) PROVE Settled'
  BY <1>2 DEF Ask
<1>3. CASE CountRequest
  <2>1. vmChanged = lastChanged /\ vmChanged \in Nat
    BY <1>3 DEF CountRequest, RequestOpen, VideoTypeInv, VideoCountType
  <2>2. vmChanged' = vmChanged + 1 /\ lastChanged' = lastChanged
    BY <1>3 DEF CountRequest
  <2>3. lastChanged' # vmChanged'
    BY <2>1, <2>2
  <2> QED BY <2>3
<1>4. CASE (\E a \in Streams : Report(a)) \/ CountReport \/ TakeTiming
  BY <1>4 DEF Report, CountReport, TakeTiming, settings, last
<1>5. CASE SampleAttributes \/ CopyAttributes \/ KeepAttributes
  BY <1>5 DEF SampleAttributes, CopyAttributes, KeepAttributes, settings, last
<1>6. CASE SampleMode \/ CompareMode
  BY <1>6 DEF SampleMode, CompareMode, settings, last
<1>7. CASE KeepMode
  BY <1>7 DEF KeepMode, settings
<1>8. CASE SkipSwitch \/ Select \/ SetupFocus \/ DownloadSettings \/ RequestTiming
  BY <1>8 DEF SkipSwitch, Select, SetupFocus, DownloadSettings, RequestTiming,
     settings, last
<1> QED BY <1>1, <1>2, <1>3, <1>4, <1>5, <1>6, <1>7, <1>8 DEF VideoNext, CheckSettings

(* The comment at last_changed in bspshm_user_structs.h: once the counters *)
(* agree, the encoder works with the settings in video_mode - if vdr waits *)
(* for that before it asks again, and there is a modeline for everything   *)
(* it may ask for.                                                         *)
THEOREM AcknowledgedIsInForce ==
  ASSUME Polite = TRUE, ModelinesSuffice
  PROVE  VideoSpec => []AcknowledgedMeansSwitched
<1>1. VideoTypeInv /\ AckInv /\ [VideoNext]_videoVars => AckInv'
  BY CountersStep, RequestStep, FollowsStep, SettledStep DEF AckInv
<1>2. AckInv => AcknowledgedMeansSwitched
  BY DEF AckInv, EncoderFollows, Settled, AcknowledgedMeansSwitched
<1> QED BY <1>1, <1>2, AckInit, VideoTypeStays, PTL DEF VideoSpec

-----------------------------------------------------------------------------
(* The parts together.                                                     *)

Box == /\ [KeysNext]_keyVars /\ [FanNext]_fanVars /\ [UsbNext]_usbVars
       /\ [IrNext]_irVars /\ [FromPanel]_serialVars

(* A step of the whole is one step of the part that moves and none of the  *)
(* others; where the bounds are used up, none at all.                      *)
LEMMA HostStep ==
  ASSUME [Next]_hostVars
  PROVE  Box /\ [VideoNext]_videoVars /\ [PlayerNext]_playerVars /\ part' = part
<1>1. CASE /\ KeysMove /\ UNCHANGED part /\ (KeysNext \/ KeysOver) /\ KeysOfPart
           /\ UNCHANGED <<fanVars, usbVars, irVars, serialVars, videoVars, playerVars>>
  BY <1>1, Zenon DEF Box, KeysOver
<1>2. CASE /\ Is("fan") /\ FanNext
           /\ UNCHANGED <<keyVars, usbVars, irVars, serialVars, videoVars, playerVars>>
  BY <1>2, Zenon DEF Box, Is
<1>3. CASE /\ Is("usb") /\ UsbNext
           /\ UNCHANGED <<keyVars, fanVars, irVars, serialVars, videoVars, playerVars>>
  BY <1>3, Zenon DEF Box, Is
<1>4. CASE /\ Is("ir") /\ IrNext
           /\ UNCHANGED <<keyVars, fanVars, usbVars, serialVars, videoVars, playerVars>>
  BY <1>4, Zenon DEF Box, Is
<1>5. CASE /\ Is("reader") /\ (FromPanel \/ LineOver)
           /\ UNCHANGED <<keyVars, fanVars, usbVars, irVars, videoVars, playerVars>>
  BY <1>5, Zenon DEF Box, Is, LineOver
<1>6. CASE Is("video") /\ VideoNext /\ UNCHANGED <<boxVars, playerVars>>
  BY <1>6, Zenon DEF Box, Is, boxVars
<1>7. CASE Is("player") /\ PlayerNext /\ UNCHANGED <<boxVars, videoVars>>
  BY <1>7, Zenon DEF Box, Is, boxVars
<1>8. CASE UNCHANGED hostVars
  BY <1>8, Zenon DEF Box, hostVars, boxVars
<1> QED BY <1>1, <1>2, <1>3, <1>4, <1>5, <1>6, <1>7, <1>8, Zenon DEF Next

(* What the parts do in MCHost is what their own specifications say.       *)
THEOREM HostIsItsParts ==
  FairSpec => /\ KeysSpec /\ FanSpec /\ UsbSpec /\ IrSpec /\ SerialSpec
              /\ VideoSpec /\ PlayerSpec
<1>1. Init => /\ KeysInit /\ FanInit /\ UsbInit /\ IrInit /\ SerialInit
              /\ VideoInit /\ PlayerInit
  BY DEF Init
<1>2. [Next]_hostVars => /\ [KeysNext]_keyVars /\ [FanNext]_fanVars /\ [UsbNext]_usbVars
                         /\ [IrNext]_irVars /\ [FromPanel]_serialVars
                         /\ [VideoNext]_videoVars /\ [PlayerNext]_playerVars
  BY HostStep DEF Box
<1> QED BY <1>1, <1>2, PTL DEF FairSpec, KeysSpec, FanSpec, UsbSpec, IrSpec, SerialSpec,
                               VideoSpec, PlayerSpec

(* The types of all the parts of the host, whichever of them moves.        *)
THEOREM HostTypeInvariance == FairSpec => []TypeOK
<1>1. Init => part \in Parts
  BY DEF Init
<1>2. part \in Parts /\ [Next]_hostVars => (part \in Parts)'
  BY HostStep
<1>3. FairSpec => [](part \in Parts)
  BY <1>1, <1>2, PTL DEF FairSpec
<1>4. FairSpec => [](/\ KeysTypeOK /\ FanTypeOK /\ UsbTypeOK /\ IrTypeOK /\ SerialTypeOK
                     /\ VideoTypeOK /\ PlayerTypeOK)
  BY HostIsItsParts, KeysTypeCorrect, FanTypeInvariance, UsbTypeInvariance,
     IrTypeInvariance, SerialTypeInvariance, VideoTypeInvariance, PlayerTypeInvariance, PTL
<1>5. /\ part \in Parts
      /\ KeysTypeOK /\ FanTypeOK /\ UsbTypeOK /\ IrTypeOK /\ SerialTypeOK
      /\ VideoTypeOK /\ PlayerTypeOK
      => TypeOK
  BY DEF TypeOK
<1> QED BY <1>3, <1>4, <1>5, PTL

(* So their promises hold there together, those that need no assumption    *)
(* about the constants: right repeats, a fast fan on a hot processor that  *)
(* does not start and stop all the time, displays that are open while shown*)
(* to and stay open while plugged in, one timing in BSP and encoder (the   *)
(* files of reelbox-control, and videomodes.c).  Codes and messages are as *)
(* they were sent with the exceptions those properties make: a doubtful    *)
(* record, and a lost byte near data that look like a message.             *)
THEOREM HostIsSafe ==
  FairSpec => /\ [](/\ RepeatsTheLastPress /\ HotMeansFast /\ ShownIsOpen
                    /\ HeardAsSent /\ LossIsContained /\ ChipsAgree)
              /\ FanDoesNotFlap /\ PresentStaysOpen
BY HostIsItsParts, RepeatsAreOfTheLastPress, HotFanIsFast, ShownDisplaysAreOpen, IrHeard,
   SerialLossIsContained, EncoderAndBspAgree, FanHasSlip, PresentDisplaysStayOpen, PTL

(* And the player's (hdctrld.c), which make their exception themselves: a  *)
(* thread that sleeps after a power-down, until no thread is left.         *)
THEOREM HostRunsOnePlayer ==
  FairSpec => [](OnePlayer /\ RunningIsTold /\ PoweredDownIsSilent)
BY HostIsItsParts, OnePlayerAtATime, RunningTellsOfThePlayer, SilentWhenDown, PTL

(* With one panel a press is one event at most (rb_control.c).             *)
THEOREM HostPressesOnce ==
  ASSUME NEW p, Panels = {p}
  PROVE  FairSpec => []OnePressEach
BY HostIsItsParts, OneEventOfAPress, PTL

(* With a vdr that waits and a modeline for every mode, what is            *)
(* acknowledged is in force (videomodes.c).                                *)
THEOREM HostAcknowledges ==
  ASSUME Polite = TRUE, ModelinesSuffice
  PROVE  FairSpec => []AcknowledgedMeansSwitched
BY HostIsItsParts, AcknowledgedIsInForce, PTL
=============================================================================
