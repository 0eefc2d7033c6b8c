----------------------------- MODULE HdChannel ------------------------------
(***************************************************************************)
(* A shared memory channel of hdchannel.c between one writer and one       *)
(* reader on the two sides of the PCI bus (the x86 host and the HD         *)
(* extension).  The control area holds a ring of max_entries packet        *)
(* descriptors and the two ring indices, the data area the packets         *)
(* themselves.  Neither side takes a lock: the writer owns write_entry and *)
(* the descriptors, the reader owns read_entry, and both read what the     *)
(* other owns at any time.  One action is one stretch of code with at most *)
(* one access to a location the other side writes.                         *)
(*                                                                         *)
(* Lengths and offsets are counted in blocks of 64 bytes: write_start      *)
(* rounds every packet up to whole blocks and the data area is a multiple  *)
(* of 4096 bytes, so every offset the code computes is a whole block.      *)
(***************************************************************************)
EXTENDS Naturals, Sequences

CONSTANTS MaxEntries,    \* descriptors in the ring (max_entries)
          AreaBlocks,    \* length of the data area (area_sizes[0])
          PacketBlocks,  \* packet lengths the writers use
          Payload,       \* what a block can contain
          NoData         \* content of a block nobody wrote yet

ASSUME ChannelAssumption ==
  /\ MaxEntries \in Nat /\ MaxEntries >= 2
  /\ AreaBlocks \in Nat /\ AreaBlocks >= 1
  /\ PacketBlocks \subseteq Nat \ {0}
  /\ NoData \notin Payload

VARIABLES
  entries,      \* the ring of descriptors
  mem,          \* the data area
  readEntry,    \* read_entry: next descriptor to read
  writeEntry,   \* write_entry: next descriptor to fill
  invalidate,   \* the request to drop everything at the next read
  wpc,          \* where the writer is
  wrp,          \* the read_entry the writer last saw (rp in find_space)
  wsize,        \* rsize of the packet the writer is placing
  wstale,       \* the flag was still set when invalidate() was called
  rpc,          \* where the reader is
  bwe           \* the write_entry the reader saw before dropping

shared == <<entries, mem, readEntry, writeEntry, invalidate>>
writer == <<wpc, wrp, wsize, wstale>>
reader == <<rpc, bwe>>
vars == <<shared, writer, reader>>

Slot  == 0 .. MaxEntries - 1
Block == 0 .. AreaBlocks - 1

(* Definitions marked "Slip" are the next one with a plausible mistake; the *)
(* property that notices it is named.  No behaviour uses them.             *)

(* Slip: no wrap-around at the end of the ring (TypeOK).                   *)
SuccUnwrapped(i) == i + 1

Succ(i) == (i + 1) % MaxEntries
(* Slip: no predecessor across the start of the ring (RegionsDisjoint).    *)
PredClamped(i) == IF i = 0 THEN 0 ELSE i - 1

Pred(i) == IF i = 0 THEN MaxEntries - 1 ELSE i - 1

(* How many descriptors lie between two ring positions, forwards.          *)
Distance(i, j) == IF j >= i THEN j - i ELSE j - i + MaxEntries

(* hd_channel_create: cleared descriptors, both indices at 0.              *)
Init ==
  /\ entries = [i \in Slot |-> [offset |-> 0, rsize |-> 0, size |-> 0]]
  /\ mem = [b \in Block |-> NoData]
  /\ readEntry = 0 /\ writeEntry = 0
  /\ invalidate = FALSE
  /\ wpc = "idle" /\ wrp = 0 /\ wsize = 0 /\ wstale = FALSE
  /\ rpc = "idle" /\ bwe = 0

-----------------------------------------------------------------------------
(* hd_channel_find_space for a packet of n blocks, with the read_entry rp  *)
(* sampled at its start: the set of offsets it hands out, at most one.     *)
(* (What a failing call leaves in the unpublished descriptor is not        *)
(* modelled: the next successful one overwrites it.)                       *)

Oldest(rp) == entries[rp]
Newest == entries[Pred(writeEntry)]
EndOfNewest == Newest.offset + Newest.rsize

(* Slip: starting over at block 0 without looking at the oldest packet     *)
(* (PublishIsVisible).                                                     *)
FindSpaceUnchecked(rp, n) ==
  IF rp = writeEntry
    THEN {o \in {0} : n <= AreaBlocks}
  ELSE IF Oldest(rp).offset <= Newest.offset
    THEN IF EndOfNewest + n < AreaBlocks THEN {EndOfNewest} ELSE {0}
    ELSE {o \in {EndOfNewest} : EndOfNewest + n < Oldest(rp).offset}

(* Slip: the empty area, too, has to keep a block free                     *)
(* (BlockedWriterProceeds).                                                *)
FindSpaceStrict(rp, n) ==
  IF rp = writeEntry
    THEN {o \in {0} : n < AreaBlocks}
  ELSE IF Oldest(rp).offset <= Newest.offset
    THEN IF EndOfNewest + n < AreaBlocks
           THEN {EndOfNewest}
           ELSE {o \in {0} : n < Oldest(rp).offset}
    ELSE {o \in {EndOfNewest} : EndOfNewest + n < Oldest(rp).offset}

FindSpace(rp, n) ==
  IF rp = writeEntry
    THEN {o \in {0} : n <= AreaBlocks}
  ELSE IF Oldest(rp).offset <= Newest.offset
    THEN IF EndOfNewest + n < AreaBlocks
           THEN {EndOfNewest}
           ELSE {o \in {0} : n < Oldest(rp).offset}
    ELSE {o \in {EndOfNewest} : EndOfNewest + n < Oldest(rp).offset}

-----------------------------------------------------------------------------
(* The writer.                                                             *)

(* hd_channel_write_start up to the first look at read_entry.              *)
WriteStart(n) ==
  /\ wpc = "idle"
  /\ wpc' = "find" /\ wrp' = readEntry /\ wsize' = n
  /\ UNCHANGED <<shared, reader, wstale>>

(* find_space succeeds: the next descriptor is filled, not yet published.  *)
Reserve ==
  /\ wpc = "find"
  /\ \E o \in FindSpace(wrp, wsize) :
       entries' = [entries EXCEPT ![writeEntry] =
                     [offset |-> o, rsize |-> wsize, size |-> 0]]
  /\ wpc' = "fill" /\ wrp' = 0 /\ wsize' = 0
  /\ UNCHANGED <<mem, readEntry, writeEntry, invalidate, wstale, reader>>

(* No space and time left: look at read_entry again.                       *)
WriteRetry ==
  /\ wpc = "find"
  /\ FindSpace(wrp, wsize) = {}
  /\ wrp' = readEntry
  /\ UNCHANGED <<shared, reader, wpc, wsize, wstale>>

(* No space and no time left: write_start returns 0.                       *)
WriteTimeout ==
  /\ wpc = "find"
  /\ FindSpace(wrp, wsize) = {}
  /\ wpc' = "idle" /\ wrp' = 0 /\ wsize' = 0
  /\ UNCHANGED <<shared, reader, wstale>>

(* The user of write_start, or the memcpy of hd_channel_write, fills the   *)
(* reserved blocks of the data area.                                       *)
Fill(d) ==
  /\ wpc = "fill"
  /\ LET e == entries[writeEntry]
     IN  mem' = [b \in Block |->
                   IF b >= e.offset /\ b < e.offset + e.rsize
                     THEN d ELSE mem[b]]
  /\ wpc' = "ready"
  /\ UNCHANGED <<entries, readEntry, writeEntry, invalidate, wrp, wsize,
                 wstale, reader>>

(* Slip: publication without the size (EveryPacketLeaves).                 *)
WriteFinishNoSize(s) ==
  /\ wpc = "ready"
  /\ writeEntry' = Succ(writeEntry)
  /\ wpc' = "idle"
  /\ UNCHANGED <<entries, mem, readEntry, invalidate, wrp, wsize, wstale,
                 reader>>

(* hd_channel_write_finish: the size, then the publication.  A user that   *)
(* claims more than it reserved is cut back to the reservation.            *)
WriteFinish(s) ==
  /\ wpc = "ready"
  /\ entries' = [entries EXCEPT ![writeEntry].size =
                   IF s > entries[writeEntry].rsize
                     THEN entries[writeEntry].rsize ELSE s]
  /\ writeEntry' = Succ(writeEntry)
  /\ wpc' = "idle"
  /\ UNCHANGED <<mem, readEntry, invalidate, wrp, wsize, wstale, reader>>

(* A write_start that is never finished (end of the file being played):    *)
(* the next one starts over with the same descriptor.                      *)
WriteAbandon ==
  /\ wpc \in {"fill", "ready"}
  /\ wpc' = "idle"
  /\ UNCHANGED <<shared, reader, wrp, wsize, wstale>>

(* hd_channel_invalidate, called by the writing side: set the flag, then   *)
(* wait for the reader to take it back, or give up after the timeout.      *)
Invalidate ==
  /\ wpc = "idle"
  /\ invalidate' = TRUE
  /\ wstale' = invalidate
  /\ wpc' = "inval"
  /\ UNCHANGED <<entries, mem, readEntry, writeEntry, wrp, wsize, reader>>

InvalidateDone ==
  /\ wpc = "inval" /\ ~invalidate
  /\ wpc' = "idle" /\ wstale' = FALSE
  /\ UNCHANGED <<shared, reader, wrp, wsize>>

InvalidateTimeout ==
  /\ wpc = "inval" /\ invalidate
  /\ wpc' = "idle" /\ wstale' = FALSE
  /\ UNCHANGED <<shared, reader, wrp, wsize>>

-----------------------------------------------------------------------------
(* The reader.                                                             *)

(* Slip: the order of the BSP's library: take the request back first, then *)
(* sample write_entry (ImplementsFifo).                                    *)
FlushDropLate ==
  /\ rpc = "drop"
  /\ readEntry' = writeEntry
  /\ rpc' = "idle" /\ bwe' = 0
  /\ UNCHANGED <<entries, mem, writeEntry, invalidate, writer>>

(* Slip: the reader drops what it has read already (FlushEmptiesChannel).  *)
FlushSampleRead ==
  /\ rpc = "idle" /\ invalidate
  /\ bwe' = readEntry
  /\ rpc' = "clear"
  /\ UNCHANGED <<shared, writer>>

(* hd_channel_read_start with the flag set: sample write_entry, take the   *)
(* request back, then jump over what is in the ring, and return nothing.   *)
FlushSample ==
  /\ rpc = "idle" /\ invalidate
  /\ bwe' = writeEntry
  /\ rpc' = "clear"
  /\ UNCHANGED <<shared, writer>>

FlushClear ==
  /\ rpc = "clear"
  /\ invalidate' = FALSE
  /\ rpc' = "drop"
  /\ UNCHANGED <<entries, mem, readEntry, writeEntry, writer, bwe>>

FlushDrop ==
  /\ rpc = "drop"
  /\ readEntry' = bwe
  /\ rpc' = "idle" /\ bwe' = 0
  /\ UNCHANGED <<entries, mem, writeEntry, invalidate, writer>>

(* hd_channel_read_start with the flag clear: from here on it only looks   *)
(* at the indices until it finds a packet or runs out of time.             *)
ReadStart ==
  /\ rpc = "idle" /\ ~invalidate
  /\ rpc' = "poll"
  /\ UNCHANGED <<shared, writer, bwe>>

ReadTimeout ==
  /\ rpc = "poll" /\ readEntry = writeEntry
  /\ rpc' = "idle"
  /\ UNCHANGED <<shared, writer, bwe>>

(* The reader gets the packet.  One of size 0 would give read_size = 0,    *)
(* which read_finish never steps over.                                     *)
ReadTake ==
  /\ rpc = "poll" /\ readEntry # writeEntry
  /\ rpc' = IF entries[readEntry].size = 0 THEN "idle" ELSE "held"
  /\ UNCHANGED <<shared, writer, bwe>>

(* hd_channel_read_finish                                                  *)
ReadFinish ==
  /\ rpc = "held"
  /\ readEntry' = Succ(readEntry)
  /\ rpc' = "idle"
  /\ UNCHANGED <<entries, mem, writeEntry, invalidate, writer, bwe>>

-----------------------------------------------------------------------------
Write == \/ \E n \in PacketBlocks : WriteStart(n)
         \/ Reserve
         \/ WriteRetry
         \/ WriteTimeout
         \/ \E d \in Payload : Fill(d)
         \/ \E s \in PacketBlocks : WriteFinish(s)
         \/ WriteAbandon

Flushing == Invalidate \/ InvalidateDone \/ InvalidateTimeout

Read == FlushSample \/ FlushClear \/ FlushDrop \/ ReadStart \/ ReadTimeout
        \/ ReadTake \/ ReadFinish

Next == Write \/ Flushing \/ Read

Spec == Init /\ [][Next]_vars

(* The reading side calls read_start over and over and finishes what it    *)
(* takes; a writer in write_start keeps looking until its time is over.    *)
FairSpec == Spec /\ WF_vars(Read) /\ WF_vars(Reserve) /\ WF_vars(WriteRetry)

-----------------------------------------------------------------------------
TypeOK ==
  /\ entries \in [Slot -> [offset : Nat, rsize : Nat, size : Nat]]
  /\ mem \in [Block -> Payload \cup {NoData}]
  /\ readEntry \in Slot /\ writeEntry \in Slot /\ wrp \in Slot /\ bwe \in Slot
  /\ invalidate \in BOOLEAN /\ wstale \in BOOLEAN
  /\ wsize \in PacketBlocks \cup {0}
  /\ wpc \in {"idle", "find", "fill", "ready", "inval"}
  /\ rpc \in {"idle", "poll", "held", "clear", "drop"}

(* The oldest descriptor anybody still relies on: a writer that compares   *)
(* with a read_entry it sampled earlier relies on that one.                *)
Base == IF wpc = "find" THEN wrp ELSE readEntry

Reserved == wpc \in {"fill", "ready"}

(* The slots in use from Base on: the published ones, then the one the     *)
(* writer is filling.                                                      *)
Used == Distance(Base, writeEntry) + (IF Reserved THEN 1 ELSE 0)
InUse(i) == Distance(Base, i) < Used

End(e) == e.offset + e.rsize

(* The reservations of two different packets never share a block, so no    *)
(* write can reach a packet that is still to be read (find_space).         *)
Overlap(e, f) == e.offset < End(f) /\ f.offset < End(e)
RegionsDisjoint ==
  \A i, j \in Slot :
    InUse(i) /\ InUse(j) /\ i # j => ~Overlap(entries[i], entries[j])

(* Why that is so.  The n slots from base on lie in the data area in one   *)
(* rising run, or in a first run from base up and a second one that        *)
(* started over at block 0 and stays below the packet at base.  Every      *)
(* packet has at least one block, so ring distance is bounded by distance  *)
(* in the area.                                                            *)
FirstRun(ring, base, i) == ring[i].offset >= ring[base].offset
Ordered(ring, base, i, j) ==
  LET gap == Distance(base, j) - Distance(base, i)
  IN  \/ /\ FirstRun(ring, base, i) <=> FirstRun(ring, base, j)
         /\ End(ring[i]) <= ring[j].offset
         /\ ring[i].offset + gap <= ring[j].offset
      \/ /\ FirstRun(ring, base, i) /\ ~FirstRun(ring, base, j)
         /\ End(ring[j]) <= ring[base].offset
         /\ ring[i].offset + gap <= AreaBlocks + ring[j].offset

Layout(ring, base, n) ==
  /\ \A i \in Slot : Distance(base, i) < n =>
       ring[i].rsize >= 1 /\ End(ring[i]) <= AreaBlocks
  /\ \A i, j \in Slot :
       Distance(base, i) < Distance(base, j) /\ Distance(base, j) < n =>
         Ordered(ring, base, i, j)

(* The inductive invariant: the layout, and the order of the positions the *)
(* two sides have sampled from each other.                                 *)
RingInv ==
  /\ Layout(entries, Base, Used)
  /\ Distance(Base, readEntry) <= Distance(Base, writeEntry)
  /\ rpc = "held" => readEntry # writeEntry
  /\ rpc \in {"clear", "drop"} =>
       /\ Distance(Base, readEntry) <= Distance(Base, bwe)
       /\ Distance(Base, bwe) <= Distance(Base, writeEntry)
  /\ wpc = "find" => wsize >= 1

(* Publishing a packet never makes the ring look empty: the writer stays   *)
(* behind the reader although nothing compares write_entry + 1 with        *)
(* read_entry (write_finish).                                              *)
PublishIsVisible ==
  [][writeEntry' # writeEntry => writeEntry' # readEntry]_vars

(* The packets the reader will still get, in order.                        *)
First == IF rpc \in {"clear", "drop"} THEN bwe ELSE readEntry
Message(i) ==
  [k \in 1 .. entries[i].size |-> mem[entries[i].offset + k - 1]]
Pending == [k \in 1 .. Distance(First, writeEntry) |->
              Message((First + k - 1) % MaxEntries)]

(* invalidate() returns 0 only once everything written before the call is  *)
(* out of reach, provided no earlier call was still outstanding.           *)
FlushEmptiesChannel ==
  wpc = "inval" /\ ~invalidate /\ ~wstale => Pending = << >>

(* The same without the proviso: the comment above hd_channel_invalidate   *)
(* says "0: flush succeeded" of every call.                                *)
FlushSucceeded ==
  wpc = "inval" /\ ~invalidate => Pending = << >>

(* The channel is the queue of HdFifo.                                     *)
Fifo == INSTANCE HdFifo WITH
          Messages <- {[k \in 1 .. n |-> d] :
                         d \in Payload, n \in PacketBlocks},
          queue <- Pending,
          holding <- IF rpc = "held" THEN <<Message(readEntry)>> ELSE << >>,
          flushWanted <- invalidate
ImplementsFifo == Fifo!Spec

(* A writer that keeps trying gets its packet in, whatever the ring holds. *)
BlockedWriterProceeds == wpc = "find" ~> wpc # "find"

(* Every published packet eventually leaves the ring: read or dropped.     *)
Unread(i) == Distance(readEntry, i) < Distance(readEntry, writeEntry)
EveryPacketLeaves == \A i \in Slot : Unread(i) ~> ~Unread(i)
=============================================================================
