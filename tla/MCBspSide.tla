----------------------------- MODULE MCBspSide ------------------------------
(***************************************************************************)
(* Instances for TLC of the parts around the BSP card and the network.     *)
(* They share no variable and call each other nowhere, so one run can      *)
(* check them: its first state says which of them moves.                   *)
(***************************************************************************)
EXTENDS BspLife, BspShm, BspChannel, ShmNet, ChanOpen

CONSTANT Parts
VARIABLE part

bspSideVars == <<part, lifeVars, shmVars, chanVars, netVars, openVars>>

(* A daemon that begins with the demo is here one asked for it at once.     *)
Init == /\ part \in Parts
        /\ LifeInit /\ ShmInit /\ ChanInit /\ NetInit /\ OpenInit
        /\ ~bspd.demoStart
        /\ part # "open" => location = CHOOSE place \in Locations : TRUE

Is(p) == part = p /\ UNCHANGED part

(* What has come to its end stays there: a daemon that was shut down, and  *)
(* a driver that nobody can open any more because a try for the lock failed*)
(* once and only an open file can reset that.                              *)
Gone == ~Daemon /\ UNCHANGED lifeVars
Stopped == /\ shmCalls = MaxShmCalls \/ (timeout /\ opened = {})
           /\ UNCHANGED shmVars

Next ==
  \/ /\ Is("life") /\ (LifeNext \/ Gone)
     /\ UNCHANGED <<shmVars, chanVars, netVars, openVars>>
  \/ /\ Is("shm") /\ (ShmNext \/ Stopped)
     /\ UNCHANGED <<lifeVars, chanVars, netVars, openVars>>
  \/ /\ Is("channel") /\ ChanNext
     /\ UNCHANGED <<lifeVars, shmVars, netVars, openVars>>
  \/ /\ Is("net") /\ NetNext
     /\ UNCHANGED <<lifeVars, shmVars, chanVars, openVars>>
  \/ /\ Is("open") /\ OpenNext
     /\ UNCHANGED <<lifeVars, shmVars, chanVars, netVars>>

Spec == Init /\ [][Next]_bspSideVars

(* The daemon's loop, its threads and its clock go on, and so does each    *)
(* daemon of the network.                                                  *)
FairSpec ==
  /\ Spec
  /\ WF_lifeVars(part = "life" /\ Loops)
  /\ WF_lifeVars(part = "life" /\ TenSeconds)
  /\ \A t \in Starters : WF_lifeVars(part = "life" /\ Bsp(t))
  /\ \A t \in Demos : WF_lifeVars(part = "life" /\ DemoThread(t))
  /\ \A p \in Peers : WF_netVars(part = "net" /\ NetPeer(p))

(* Everything has a value of its type.                                     *)
TypeOK ==
  /\ part \in Parts
  /\ LifeTypeOK /\ ShmTypeOK /\ ChanTypeOK /\ NetTypeOK /\ OpenTypeOK
=============================================================================
