------------------------------- MODULE ShmNet -------------------------------
(***************************************************************************)
(* The network between the host and the HD card (shmnetd.c): one process   *)
(* on each side copies packets between its tun device and two channels.    *)
(* It does so in one thread: while it waits for room in one channel it     *)
(* does not read the other, so two full channels stop each other until one *)
(* of the two gives up and drops a packet.                                 *)
(*                                                                         *)
(* The card creates the channels, also when a file shows that they exist   *)
(* and the host uses them.  A channel is its ring of descriptors; what     *)
(* HdChannel says about the steps inside of a write or a read is not       *)
(* repeated here.  poll only saves time: the read of tun does not block.   *)
(***************************************************************************)
EXTENDS Naturals, FiniteSets

CONSTANTS RingSize,    \* CONTROL_ENTRIES
          RingRoom,    \* how many packets the data area has room for
          MaxPackets,  \* bound on the packets from each tun device
          MaxExits     \* bound on the failing writes to tun

ASSUME NetAssumption ==
  /\ RingRoom \in 1..(RingSize - 1) /\ RingSize \in Nat
  /\ MaxPackets \in Nat /\ MaxExits \in Nat

VARIABLES net,      \* where each process is
          made,     \* the channels have been created
          ring,     \* ring[p]: the channel that p reads
          sending,  \* the packet in buffer; 0 when there is none
          sent,     \* how many packets came from the tun device of p
          got,      \* the packets that p has written to its tun device
          lost,     \* history: the packets of p that were dropped knowingly
          torn,     \* history: the channels were cleared while the host used them
          exits

netVars == <<net, made, ring, sending, sent, got, lost, torn, exits>>

Peers == {"card", "host"}
Other(p) == IF p = "card" THEN "host" ELSE "card"
Slots == 0..(RingSize - 1)
Step(k) == (k + 1) % RingSize
Used(c) == (c.w + RingSize - c.r) % RingSize
Unread(c) == {c.box[(c.r + k) % RingSize] : k \in 0..(Used(c) - 1)}
Cleared == [r |-> 0, w |-> 0, box |-> [k \in Slots |-> 0]]
Moves(p, where) == net' = [net EXCEPT ![p] = where]

NetInit ==
  /\ net = [p \in Peers |-> "start"]
  /\ made = FALSE /\ ring = [p \in Peers |-> Cleared]
  /\ sending = [p \in Peers |-> 0] /\ sent = [p \in Peers |-> 0]
  /\ got = [p \in Peers |-> {}] /\ lost = [p \in Peers |-> {}]
  /\ torn = FALSE /\ exits = 0

(* hd_channel_create clears the two control areas; the host opens them as  *)
(* soon as they have been created once.                                    *)
CreateOrOpen(p) ==
  /\ net[p] = "start" /\ Moves(p, "tun")
  /\ IF p = "card"
     THEN /\ made' = TRUE
          /\ ring' = [q \in Peers |-> Cleared]
          /\ lost' = [q \in Peers |-> lost[q] \cup Unread(ring[Other(q)])]
          /\ torn' = (torn \/ net["host"] \in {"write", "deliver", "finish"})
     ELSE made /\ UNCHANGED <<made, ring, lost, torn>>
  /\ UNCHANGED <<sending, sent, got, exits>>

ReadTun(p) ==
  /\ net[p] = "tun"
  /\ \/ /\ sent[p] < MaxPackets
        /\ sent' = [sent EXCEPT ![p] = @ + 1]
        /\ sending' = [sending EXCEPT ![p] = sent'[p]]
        /\ Moves(p, "write")
     \/ Moves(p, "read") /\ UNCHANGED <<sent, sending>>
  /\ UNCHANGED <<made, ring, got, lost, torn, exits>>

Full(p) == Used(ring[Other(p)]) >= RingRoom

WriteChannel(p) ==
  LET c == ring[Other(p)] IN
  /\ net[p] = "write" /\ ~Full(p)
  /\ ring' = [ring EXCEPT ![Other(p)].box[c.w] = sending[p],
                          ![Other(p)].w = Step(@)]
  /\ sending' = [sending EXCEPT ![p] = 0]
  /\ Moves(p, "read")
  /\ UNCHANGED <<made, sent, got, lost, torn, exits>>

(* Slip: the writer waits as long as it takes.                             *)
WriteWaits(p) == net[p] = "write" /\ Full(p) /\ UNCHANGED netVars

(* After ten seconds hd_channel_write gives up; nobody looks at the result.*)
WriteTimesOut(p) ==
  /\ net[p] = "write" /\ Full(p)
  /\ lost' = [lost EXCEPT ![p] = @ \cup {sending[p]}]
  /\ sending' = [sending EXCEPT ![p] = 0]
  /\ Moves(p, "read")
  /\ UNCHANGED <<made, ring, sent, got, torn, exits>>

ReadChannel(p) ==
  /\ net[p] = "read"
  /\ Moves(p, IF Used(ring[p]) = 0 THEN "tun" ELSE "deliver")
  /\ UNCHANGED <<made, ring, sending, sent, got, lost, torn, exits>>

(* Slip: a process that is about to end gives the packet back first.       *)
WriteTunGivesBack(p) ==
  /\ net[p] = "deliver"
  /\ \/ /\ got' = [got EXCEPT ![p] = @ \cup {ring[p].box[ring[p].r]}]
        /\ Moves(p, "finish") /\ UNCHANGED <<exits, ring>>
     \/ /\ exits < MaxExits /\ exits' = exits + 1
        /\ ring' = [ring EXCEPT ![p].r = Step(@)]
        /\ Moves(p, "start") /\ UNCHANGED got
  /\ UNCHANGED <<made, sending, sent, lost, torn>>

(* A tun device that does not take the packet ends the process.            *)
WriteTun(p) ==
  /\ net[p] = "deliver"
  /\ \/ /\ got' = [got EXCEPT ![p] = @ \cup {ring[p].box[ring[p].r]}]
        /\ Moves(p, "finish") /\ UNCHANGED exits
     \/ /\ exits < MaxExits /\ exits' = exits + 1
        /\ Moves(p, "start") /\ UNCHANGED got
  /\ UNCHANGED <<made, ring, sending, sent, lost, torn>>

FinishPacket(p) ==
  /\ net[p] = "finish"
  /\ ring' = [ring EXCEPT ![p].r = Step(@)]
  /\ Moves(p, "tun")
  /\ UNCHANGED <<made, sending, sent, got, lost, torn, exits>>

NetPeer(p) == \/ CreateOrOpen(p) \/ ReadTun(p) \/ WriteChannel(p)
              \/ WriteTimesOut(p) \/ ReadChannel(p) \/ WriteTun(p)
              \/ FinishPacket(p)

NetNext == \E p \in Peers : NetPeer(p)

NetSpec == NetInit /\ [][NetNext]_netVars

-----------------------------------------------------------------------------
(* Everything has a value of its type.                                     *)
NetTypeOK ==
  /\ net \in [Peers -> {"start", "tun", "write", "read", "deliver", "finish"}]
  /\ made \in BOOLEAN
  /\ ring \in [Peers -> [r : Slots, w : Slots, box : [Slots -> 0..MaxPackets]]]
  /\ sending \in [Peers -> 0..MaxPackets] /\ sent \in [Peers -> 0..MaxPackets]
  /\ got \in [Peers -> SUBSET (0..MaxPackets)]
  /\ lost \in [Peers -> SUBSET (0..MaxPackets)]
  /\ torn \in BOOLEAN /\ exits \in 0..MaxExits

(* No packet that was read from a tun device vanishes: it is in the buffer *)
(* of the sender, in the channel, at the other tun device or was dropped   *)
(* knowingly, also if the receiver ends before it has handed it on; and    *)
(* nothing arrives that was never sent.  Not so if the card starts again   *)
(* while the host is in the channels.                                      *)
NoPacketVanishes ==
  torn \/ \A p \in Peers :
    /\ 1..sent[p] \subseteq {sending[p]} \cup Unread(ring[Other(p)])
                              \cup got[Other(p)] \cup lost[p]
    /\ got[Other(p)] \subseteq 1..sent[p]

(* Two daemons that both wait for room do not wait for ever: every packet  *)
(* that one has read from its tun device reaches the other's tun device or *)
(* is dropped, by a write that timed out or by a card that starts again -  *)
(* unless it starts again while the host is in the channels.               *)
NetDelivers ==
  \A p \in Peers : \A n \in 1..MaxPackets :
    sending[p] = n ~> n \in got[Other(p)] \cup lost[p] \/ torn
=============================================================================
