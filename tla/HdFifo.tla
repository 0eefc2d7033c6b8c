------------------------------- MODULE HdFifo -------------------------------
(***************************************************************************)
(* What a shared memory channel promises to its two users (the usage rules *)
(* at the head of hdchannel.h): packets are handed over whole and in the   *)
(* order they were written; the packet the reader is working on stays as   *)
(* it was written until the reader is done with it; nothing disappears     *)
(* unless somebody asked for the channel to be emptied, and the reader     *)
(* carries such a request out when it attempts a read, never while it      *)
(* works on a packet.                                                      *)
(***************************************************************************)
EXTENDS Sequences, Naturals

CONSTANT Messages        \* the packets that can be written

VARIABLES queue,         \* packets written and not yet given back
          holding,       \* <<m>> while the reader works on m, else << >>
          flushWanted    \* an emptying was requested and not acknowledged

fifoVars == <<queue, holding, flushWanted>>

Init == /\ queue = << >>
        /\ holding = << >>
        /\ flushWanted = FALSE

Put(m) == /\ queue' = Append(queue, m)
          /\ UNCHANGED <<holding, flushWanted>>

Take == /\ holding = << >>
        /\ queue # << >>
        /\ holding' = <<Head(queue)>>
        /\ UNCHANGED <<queue, flushWanted>>

Release == /\ holding # << >>
           /\ holding' = << >>
           /\ queue' = Tail(queue)
           /\ UNCHANGED flushWanted

RequestFlush == /\ flushWanted' = TRUE
                /\ UNCHANGED <<queue, holding>>

(* Everything written so far goes; what is written later stays.            *)
Flush == /\ flushWanted
         /\ holding = << >>
         /\ queue' = << >>
         /\ UNCHANGED <<holding, flushWanted>>

Acknowledge == /\ flushWanted' = FALSE
               /\ UNCHANGED <<queue, holding>>

Next == \/ \E m \in Messages : Put(m)
        \/ Take
        \/ Release
        \/ RequestFlush
        \/ Flush
        \/ Acknowledge

Spec == Init /\ [][Next]_fifoVars
=============================================================================
