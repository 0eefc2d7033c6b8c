----------------------------- MODULE BspChannel -----------------------------
(***************************************************************************)
(* A channel between the host and the BSP card (bspchannel.c), the         *)
(* ancestor of hdchannel.c: the same ring, the same search for space and   *)
(* the same two-step writing and reading, taken from HdChannel.  What      *)
(* differs is the emptying of a channel: the reader takes the request back *)
(* first and only then looks at write_entry.                               *)
(*                                                                         *)
(* A channel that was opened with a stale generation is opened anew by     *)
(* bsp_channel_check at the next read; the model starts after that.        *)
(***************************************************************************)
EXTENDS Naturals, Sequences

CONSTANTS MaxEntries, AreaBlocks, PacketBlocks, Payload, NoData

ASSUME BspAssumption ==
  /\ MaxEntries \in Nat \ {0, 1} /\ AreaBlocks \in Nat \ {0}
  /\ PacketBlocks \subseteq Nat \ {0} /\ NoData \notin Payload

VARIABLES entries, mem, readEntry, writeEntry, invalidate,
          wpc, wrp, wsize, wstale, rpc, bwe

Ring == INSTANCE HdChannel
chanVars == <<entries, mem, readEntry, writeEntry, invalidate,
              wpc, wrp, wsize, wstale, rpc, bwe>>

-----------------------------------------------------------------------------
(* bsp_channel_create: a cleared control area, both indices at 0.          *)
ChanInit == Ring!Init

(* find_space and write_start: the first look at read_entry, the descriptor*)
(* that is filled but not yet published, another look, and giving up.      *)
StartWrite(n) == Ring!WriteStart(n)
ReserveSpace == Ring!Reserve
RetrySpace == Ring!WriteRetry
GiveUpSpace == Ring!WriteTimeout

(* bsp_channel_write copies the packet; write_finish publishes it.         *)
CopyIn(d) == Ring!Fill(d)
FinishWrite(s) == Ring!WriteFinish(s)

(* bsp_channel_invalidate: set the flag and wait until it is gone.  A wait *)
(* that runs out of time says so (1) and leaves the flag.                  *)
AskInvalidate == Ring!Invalidate
Invalidated == Ring!InvalidateDone \/ Ring!InvalidateTimeout

-----------------------------------------------------------------------------
(* Slips: the reader that finds the flag steps over one packet only, and   *)
(* does so without the wrap.                                               *)
DropOneUnwrapped ==
  /\ rpc = "drop"
  /\ readEntry' = readEntry + 1
  /\ rpc' = "idle" /\ bwe' = 0
  /\ UNCHANGED <<entries, mem, writeEntry, invalidate, wpc, wrp, wsize, wstale>>

DropOne ==
  /\ rpc = "drop"
  /\ readEntry' = Ring!Succ(readEntry)
  /\ rpc' = "idle" /\ bwe' = 0
  /\ UNCHANGED <<entries, mem, writeEntry, invalidate, wpc, wrp, wsize, wstale>>

(* bsp_channel_read_start with the flag set: take it back, read            *)
(* write_entry, jump there.  The writer may do anything in between.        *)
TakeBack ==
  /\ rpc = "idle" /\ invalidate
  /\ invalidate' = FALSE
  /\ rpc' = "clear"
  /\ UNCHANGED <<entries, mem, readEntry, writeEntry, wpc, wrp, wsize, wstale, bwe>>

LookAhead ==
  /\ rpc = "clear"
  /\ bwe' = writeEntry /\ rpc' = "drop"
  /\ UNCHANGED <<entries, mem, readEntry, writeEntry, invalidate, wpc, wrp,
                 wsize, wstale>>

JumpAhead ==
  /\ rpc = "drop"
  /\ readEntry' = bwe
  /\ rpc' = "idle" /\ bwe' = 0
  /\ UNCHANGED <<entries, mem, writeEntry, invalidate, wpc, wrp, wsize, wstale>>

(* With the flag clear: wait for a packet, hand it out, and step over it.  *)
StartRead == Ring!ReadStart
NothingToRead == Ring!ReadTimeout
TakePacket == Ring!ReadTake
FinishRead == Ring!ReadFinish

-----------------------------------------------------------------------------
Writing == \/ \E n \in PacketBlocks : StartWrite(n) \/ FinishWrite(n)
           \/ ReserveSpace \/ RetrySpace \/ GiveUpSpace
           \/ \E d \in Payload : CopyIn(d)
           \/ AskInvalidate \/ Invalidated

Reading == TakeBack \/ LookAhead \/ JumpAhead \/ StartRead \/ NothingToRead
           \/ TakePacket \/ FinishRead

ChanNext == Writing \/ Reading
ChanSpec == ChanInit /\ [][ChanNext]_chanVars

-----------------------------------------------------------------------------
(* Everything has a value of its type.                                     *)
ChanTypeOK == Ring!TypeOK

(* The packets that the reader can still get: it loses the others when it  *)
(* looks at write_entry, not when it takes the request back.               *)
FirstLeft == IF rpc = "drop" THEN bwe ELSE readEntry
Left == [k \in 1 .. Ring!Distance(FirstLeft, writeEntry) |->
           Ring!Message((FirstLeft + k - 1) % MaxEntries)]

Queue == INSTANCE HdFifo WITH
           Messages <- {[k \in 1 .. n |-> d] : d \in Payload, n \in PacketBlocks},
           queue <- Left,
           holding <- IF rpc = "held" THEN <<Ring!Message(readEntry)>> ELSE << >>,
           flushWanted <- invalidate

(* What the other order costs: a reader that has taken a request back goes *)
(* on to drop everything, also what was written after the answer.          *)
DropUnasked ==
  /\ rpc = "clear" /\ rpc' = "drop"
  /\ Left' = << >> /\ UNCHANGED invalidate

(* The channel is the queue of HdFifo but for that one step: packets come  *)
(* whole and in order, none is overwritten while it is read, and they get  *)
(* lost only in a read_start that has taken back a request to invalidate.  *)
LosesOnlyWhenAsked ==
  Queue!Init /\ [][Queue!Next \/ DropUnasked]_(Queue!fifoVars)
=============================================================================
