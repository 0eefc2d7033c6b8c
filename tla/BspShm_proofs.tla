--------------------------- MODULE BspShm_proofs ----------------------------
(***************************************************************************)
(* For every number of processes, areas and entries: the driver's state    *)
(* keeps its types; the lock lets one process into the table at a time,    *)
(* whatever tries fail, give up, are reset or end; and a mapping that the  *)
(* driver counts leads to the area it was made for.                        *)
(***************************************************************************)
EXTENDS BspShm, FiniteSetTheorems, SequenceTheorems, WellFoundedInduction, TLAPS

(* A set of numbers that is not empty has a least one.                     *)
LEMMA Lowest ==
  ASSUME NEW T, T \subseteq Nat, T # {}
  PROVE  \E x \in T : \A y \in T : x <= y
<1> DEFINE R == {ss \in Nat \X Nat : ss[1] < ss[2]}
<1>1. R = OpToRel(<, Nat)
  BY Zenon DEF OpToRel
<1>2. IsWellFoundedOn(R, Nat)
  <2> HIDE DEF R
  <2> QED BY Zenon, NatLessThanWellFounded, <1>1
<1>3. \E x \in T : \A y \in T : ~(<<y, x>> \in R)
  <2> HIDE DEF R
  <2> QED BY Zenon, <1>2, WFMin
<1>4. \A x, y \in Nat : <<y, x>> \in R <=> y < x
  OBVIOUS
<1> HIDE DEF R
<1>5. PICK x \in T : \A y \in T : ~(<<y, x>> \in R)
  BY <1>3
<1>6. ASSUME NEW y \in T PROVE x <= y
  <2>1. x \in Nat /\ y \in Nat
    OBVIOUS
  <2>2. ~(y < x)
    BY <1>4, <1>5, <2>1
  <2> QED BY <2>1, <2>2
<1> QED BY <1>6

(* bspshm_find_area and bspshm_find_free_entry find what they look for.    *)
LEMMA RowIs ==
  ASSUME NEW i, \E e \in Rows : ids[e] = i
  PROVE  Row(i) \in Rows /\ ids[Row(i)] = i
<1> DEFINE T == {e \in Rows : ids[e] = i}
<1>1. T \subseteq Nat /\ T # {}
  BY ShmAssumption DEF Rows
<1>2. PICK e \in T : \A d \in T : e <= d
  BY <1>1, Lowest
<1>3. \A d \in 1..(e - 1) : ids[d] # i
  BY <1>2, ShmAssumption DEF Rows
<1>4. e \in Rows /\ ids[e] = i
  BY <1>2
<1> QED BY <1>3, <1>4 DEF Row

-----------------------------------------------------------------------------
(* Types, in groups of variables.                                          *)

Ids == AreaIds \cup {NoArea}
Mapping == [id : AreaIds, entry : Rows, counted : BOOLEAN]
Calls == {"none", "GET", "SET_ID", "MMAP", "CREATE", "UNMAP", "DESTROY", "RELEASE"}
Phases == {"user", "down", "lock", "in"}

TableType ==
  /\ ids \in [Rows -> Ids]
  /\ usage \in [Rows -> Int]
  /\ totals \in [{"bsp", "host"} -> Int]

LockType ==
  /\ lock \in Int /\ timeout \in BOOLEAN /\ failed \in Nat
  /\ tries \in [Procs -> Nat]

FileType ==
  /\ opened \subseteq Host
  /\ selected \in [Host -> Ids]
  /\ slots \in [Host -> SUBSET AreaIds]
  /\ \A f \in Host : IsFiniteSet(slots[f])
  /\ maps \in [Host -> Seq(Mapping)]

CallType ==
  /\ call \in [Host -> Calls]
  /\ arg \in [Host -> Ids]
  /\ phase \in [Procs -> Phases]
  /\ wiped \in BOOLEAN

Bounds == shmCalls \in 0..MaxShmCalls /\ cardTries \in 0..MaxCardTries

TypeInv == TableType /\ LockType /\ FileType /\ CallType /\ Bounds

(* The type invariant follows from its parts.                              *)
LEMMA TypeParts == TypeInv => ShmTypeOK
BY DEF TypeInv, TableType, LockType, FileType, CallType, Bounds, ShmTypeOK, Ids,
   Mapping, Calls, Phases

(* init_struct sets up a table of the right types.                         *)
LEMMA InitType == ShmInit => TypeInv
<1> SUFFICES ASSUME ShmInit PROVE TypeInv
  OBVIOUS
<1>1. TableType
  BY DEF ShmInit, TableType, Ids
<1>2. LockType
  <2>1. timeout \in BOOLEAN
    BY Zenon DEF ShmInit
  <2> QED BY <2>1 DEF ShmInit, LockType
<1>3. FileType
  <2>1. << >> \in Seq(Mapping)
    BY Zenon, EmptySeq
  <2>2. IsFiniteSet({})
    BY FS_EmptySet
  <2> QED BY <2>1, <2>2 DEF ShmInit, FileType, Ids
<1>4. CallType
  <2>1. wiped \in BOOLEAN
    BY Zenon DEF ShmInit
  <2> QED BY <2>1 DEF ShmInit, CallType, Calls, Phases, Ids
<1>5. Bounds
  BY ShmAssumption DEF ShmInit, Bounds
<1> QED BY <1>1, <1>2, <1>3, <1>4, <1>5 DEF TypeInv

(* A system call that ends, with or without the lock.                      *)
LEMMA ProceedType ==
  ASSUME CallType, NEW f \in Host, NEW next \in Calls, Proceed(f, next)
  PROVE  call' \in [Host -> Calls] /\ arg' \in [Host -> Ids]
BY DEF CallType, Proceed, Ids

LEMMA LeaveType ==
  ASSUME TypeInv, NEW f \in Host, NEW next \in Calls, Leave(f, next)
  PROVE  LockType' /\ CallType' /\ Bounds'
<1> USE DEF TypeInv
<1>1. LockType'
  BY DEF LockType, Leave
<1>2. CallType'
  <2>1. phase' \in [Procs -> Phases]
    BY DEF CallType, Leave, At, Phases
  <2>2. wiped' \in BOOLEAN
    BY DEF CallType, Leave
  <2> QED BY <2>1, <2>2, ProceedType DEF Leave, CallType
<1>3. Bounds'
  BY DEF Bounds, Leave
<1> QED BY <1>1, <1>2, <1>3

(* Begin and down keep the types.                                          *)
LEMMA BeginType ==
  ASSUME TypeInv, NEW f \in Host, Begin(f) \/ DownSem(f)
  PROVE  TypeInv'
<1>1. UNCHANGED <<tablevars, filevars, lockvars, call, arg, shmCalls, wiped>>
  BY DEF Begin, DownSem
<1>2. phase' \in [Procs -> Phases]
  BY DEF Begin, DownSem, At, TypeInv, CallType, Phases
<1> QED BY <1>1, <1>2 DEF TypeInv, TableType, LockType, FileType, CallType, Bounds,
  tablevars, filevars, lockvars

(* A try for the lock keeps the types.                                     *)
LEMMA TryType ==
  ASSUME TypeInv, NEW p \in Procs, TryLock(p)
  PROVE  (TableType /\ LockType /\ FileType /\ CallType)'
<1> USE DEF TypeInv
<1>1. TableType'
  BY DEF TableType, TryLock, tablevars
<1>2. LockType'
  <2>1. lock' \in Int
    BY DEF LockType, TryLock
  <2>2. failed' \in Nat
    BY DEF LockType, TryLock
  <2>3. tries' \in [Procs -> Nat]
    BY DEF LockType, TryLock
  <2>4. timeout' = timeout
    BY DEF TryLock
  <2> QED BY <2>1, <2>2, <2>3, <2>4 DEF LockType
<1>3. FileType'
  BY DEF FileType, TryLock, filevars
<1>4. CallType'
  <2>1. phase' \in [Procs -> Phases]
    BY DEF CallType, TryLock, At, Phases
  <2> QED BY <2>1 DEF CallType, TryLock
<1> QED BY <1>1, <1>2, <1>3, <1>4

(* Giving up on the lock keeps the types.                                  *)
LEMMA FailType ==
  ASSUME TypeInv, NEW f \in Host, GiveUp(f) \/ FailAtOnce(f)
  PROVE  TypeInv'
<1> USE DEF TypeInv
<1>1. Fail(f) /\ timeout' \in BOOLEAN
  <2>1. CASE GiveUp(f)
    BY <2>1, Zenon DEF GiveUp
  <2>2. CASE FailAtOnce(f)
    BY <2>2, Zenon DEF FailAtOnce, LockType
  <2> QED BY <2>1, <2>2
<1>2. f \in Procs
  BY DEF Procs
<1>3. TableType'
  BY <1>1 DEF TableType, Fail, tablevars
<1>4. LockType'
  BY <1>1, <1>2 DEF LockType, Fail
<1>5. FileType'
  <2>1. UNCHANGED maps /\ Closed(f)
    BY <1>1 DEF Fail
  <2>2. CASE call[f] = "RELEASE"
    <3>1. opened' \subseteq Host /\ selected' \in [Host -> Ids]
      BY <2>1, <2>2 DEF FileType, Closed, Ids
    <3>2. slots' = [slots EXCEPT ![f] = {}]
      BY <2>1, <2>2 DEF Closed
    <3>3. IsFiniteSet({})
      BY FS_EmptySet
    <3> QED BY <2>1, <3>1, <3>2, <3>3 DEF FileType
  <2>3. CASE call[f] # "RELEASE"
    BY <2>1, <2>3 DEF FileType, Closed
  <2> QED BY <2>2, <2>3
<1>6. CallType'
  <2>1. PICK next \in {"MMAP", "none"} : Proceed(f, next)
    BY <1>1, Zenon DEF Fail
  <2>2. phase' \in [Procs -> Phases]
    BY <1>1 DEF CallType, Fail, At, Phases
  <2>3. wiped' = wiped
    BY <1>1 DEF Fail
  <2>4. next \in Calls
    BY DEF Calls
  <2> QED BY <2>1, <2>2, <2>3, <2>4, ProceedType DEF CallType
<1>7. Bounds'
  BY <1>1 DEF Bounds, Fail
<1> QED BY <1>3, <1>4, <1>5, <1>6, <1>7

(* bspshm_unmap_area_sub changes counts only.                              *)
LEMMA UncountIs ==
  ASSUME TypeInv, NEW S, IsFiniteSet(S), Uncount(S)
  PROVE  usage' \in [Rows -> Int] /\ totals' \in [{"bsp", "host"} -> Int]
<1> DEFINE gone == {i \in S : Listed(i)}
           of(m) == Cardinality({i \in gone : Side(i) = m})
<1>1. ASSUME NEW m PROVE of(m) \in Nat
  <2>1. {i \in gone : Side(i) = m} \subseteq S
    OBVIOUS
  <2> QED BY <2>1, FS_Subset, FS_CardinalityType
<1>2. usage' = [e \in Rows |-> IF ids[e] \in gone /\ Row(ids[e]) = e
                              THEN usage[e] - 1 ELSE usage[e]]
  BY DEF Uncount
<1>3. totals' = [m \in {"bsp", "host"} |-> totals[m] - of(m)]
  BY DEF Uncount
<1> HIDE DEF of, gone
<1> QED BY <1>1, <1>2, <1>3 DEF TypeInv, TableType

(* What a process does in the table keeps the types: the table and the files *)
(* change as each call says, and the call ends.                              *)
LEMMA InTableLeaves ==
  ASSUME NEW f \in Host, InTable(f)
  PROVE  \E next \in Calls \ {"RELEASE"} : Leave(f, next)
<1>1. CASE GetArea(f)
  BY <1>1 DEF GetArea, Calls
<1>2. CASE SetId(f)
  BY <1>2 DEF SetId, Calls
<1>3. CASE CreateArea(f)
  BY <1>3 DEF CreateArea, Calls
<1>4. CASE MmapArea(f)
  BY <1>4 DEF MmapArea, Calls
<1>5. CASE UnmapArea(f)
  BY <1>5 DEF UnmapArea, Calls
<1>6. CASE DestroyArea(f)
  BY <1>6 DEF DestroyArea, Calls
<1>7. CASE ReleaseFile(f)
  BY <1>7 DEF ReleaseFile, Calls
<1> QED BY <1>1, <1>2, <1>3, <1>4, <1>5, <1>6, <1>7 DEF InTable

LEMMA InTableEnds ==
  ASSUME TypeInv, NEW f \in Host, InTable(f)
  PROVE  LockType' /\ CallType' /\ Bounds'
BY InTableLeaves, LeaveType

(* A new area takes a free entry.                                            *)
LEMMA ClaimType ==
  ASSUME TableType, FreeRows # {}, NEW i \in Ids,
         ids' = [ids EXCEPT ![Row(NoArea)] = i],
         usage' = [usage EXCEPT ![Row(NoArea)] = 0]
  PROVE  ids' \in [Rows -> Ids] /\ usage' \in [Rows -> Int]
<1>1. PICK r \in Rows : r = Row(NoArea)
  BY RowIs DEF FreeRows
<1> QED BY <1>1 DEF TableType

LEMMA CreateAreaType ==
  ASSUME TypeInv, NEW f \in Host, CreateArea(f)
  PROVE  TableType' /\ FileType'
<1> USE DEF TypeInv
<1>1. FileType' /\ totals' = totals
  BY DEF CreateArea, FileType, filevars
<1>2. arg[f] \in Ids
  BY DEF CallType
<1>3. CASE UNCHANGED <<ids, usage>>
  BY <1>1, <1>3 DEF TableType
<1>4. CASE /\ FreeRows # {}
           /\ ids' = [ids EXCEPT ![Row(NoArea)] = arg[f]]
           /\ usage' = [usage EXCEPT ![Row(NoArea)] = 0]
  BY <1>1, <1>2, <1>4, ClaimType DEF TableType
<1> QED BY <1>3, <1>4 DEF CreateArea

(* bspshm_mmap counts the area and notes it in a free slot.                  *)
LEMMA MmapAreaType ==
  ASSUME TypeInv, NEW f \in Host, MmapArea(f)
  PROVE  TableType' /\ FileType'
<1> USE DEF TypeInv
<1>1. UNCHANGED <<ids, opened, selected>>
  BY DEF MmapArea
<1>2. CASE UNCHANGED <<usage, totals, slots, maps>>
  BY <1>1, <1>2 DEF TableType, FileType
<1>3. CASE ~UNCHANGED <<usage, totals, slots, maps>>
  <2> DEFINE i == selected[f]
             free == Cardinality(slots[f]) < FileSlots
             m == [id |-> i, entry |-> Row(i), counted |-> free]
  <2>1. /\ Listed(i)
        /\ totals' = [totals EXCEPT ![Side(i)] = @ + 1]
        /\ usage' = [usage EXCEPT ![Row(i)] = @ + 1]
        /\ slots' = IF free THEN [slots EXCEPT ![f] = @ \cup {i}] ELSE slots
        /\ maps' = [maps EXCEPT ![f] = Append(@, m)]
    BY <1>3 DEF MmapArea
  <2>2. Row(i) \in Rows /\ ids[Row(i)] = i
    BY <2>1, RowIs DEF Listed
  <2>3. i \in AreaIds
    BY <2>1, <2>2 DEF Listed, TableType, Ids
  <2>4. TableType'
    <3>1. Side(i) \in {"bsp", "host"}
      BY DEF Side
    <3> HIDE DEF i, m
    <3> QED BY <1>1, <2>1, <2>2, <3>1 DEF TableType
  <2>5. slots' \in [Host -> SUBSET AreaIds] /\ \A g \in Host : IsFiniteSet(slots'[g])
    <3>1. IsFiniteSet(slots[f] \cup {i})
      BY FS_AddElement DEF FileType
    <3> HIDE DEF i, m, free
    <3> QED BY <2>1, <2>3, <3>1 DEF FileType
  <2>6. maps' \in [Host -> Seq(Mapping)]
    <3>1. m \in Mapping
      BY <2>2, <2>3 DEF Mapping
    <3> HIDE DEF m
    <3> QED BY <2>1, <3>1 DEF FileType
  <2> QED BY <1>1, <2>4, <2>5, <2>6 DEF FileType
<1> QED BY <1>2, <1>3

(* bspshm_unmap_area uncounts.                                               *)
LEMMA UncountedIs ==
  ASSUME NEW ms \in Seq(Mapping), NEW i
  PROVE  /\ Uncounted(ms, i) \in Seq(Mapping)
         /\ DOMAIN Uncounted(ms, i) = DOMAIN ms
         /\ \A k \in DOMAIN ms :
              /\ Uncounted(ms, i)[k].id = ms[k].id
              /\ Uncounted(ms, i)[k].entry = ms[k].entry
              /\ Uncounted(ms, i)[k].counted <=> ms[k].counted /\ ms[k].id # i
<1>1. \A k \in DOMAIN ms : ms[k] \in Mapping
  OBVIOUS
<1>2. ASSUME NEW k \in DOMAIN ms
      PROVE  /\ Uncounted(ms, i)[k] \in Mapping
             /\ Uncounted(ms, i)[k].id = ms[k].id
             /\ Uncounted(ms, i)[k].entry = ms[k].entry
             /\ Uncounted(ms, i)[k].counted <=> ms[k].counted /\ ms[k].id # i
  BY <1>1 DEF Uncounted, Mapping
<1>3. DOMAIN Uncounted(ms, i) = 1..Len(ms) /\ Len(ms) \in Nat
  BY DEF Uncounted
<1>4. Uncounted(ms, i) \in [1..Len(ms) -> Mapping]
  BY <1>2, <1>3 DEF Uncounted
<1> QED BY <1>2, <1>3, <1>4

LEMMA UnmapAreaType ==
  ASSUME TypeInv, NEW f \in Host, UnmapArea(f)
  PROVE  TableType' /\ FileType'
<1> USE DEF TypeInv
<1>1. UNCHANGED <<ids, opened, selected>>
  BY DEF UnmapArea
<1>2. CASE UNCHANGED <<usage, totals, slots, maps>>
  BY <1>1, <1>2 DEF TableType, FileType
<1>3. CASE ~UNCHANGED <<usage, totals, slots, maps>>
  <2>1. /\ Uncount({selected[f]})
        /\ slots' = [slots EXCEPT ![f] = @ \ {selected[f]}]
        /\ maps' = [maps EXCEPT ![f] = Uncounted(@, selected[f])]
    BY <1>3 DEF UnmapArea
  <2>2. TableType'
    <3>1. IsFiniteSet({selected[f]})
      BY FS_Singleton
    <3> QED BY <1>1, <2>1, <3>1, UncountIs DEF TableType
  <2>3. IsFiniteSet(slots[f] \ {selected[f]})
    BY FS_RemoveElement DEF FileType
  <2>4. slots' \in [Host -> SUBSET AreaIds] /\ \A g \in Host : IsFiniteSet(slots'[g])
    BY <2>1, <2>3 DEF FileType
  <2>5. maps' \in [Host -> Seq(Mapping)]
    <3>1. Uncounted(maps[f], selected[f]) \in Seq(Mapping)
      BY UncountedIs DEF FileType
    <3> QED BY <2>1, <3>1 DEF FileType
  <2> QED BY <1>1, <2>2, <2>4, <2>5 DEF FileType
<1> QED BY <1>2, <1>3

(* What becomes of the file when it is closed.                               *)
LEMMA ClosedType ==
  ASSUME FileType, NEW f \in Host, Closed(f), maps' = maps
  PROVE  FileType'
<1>1. CASE call[f] = "RELEASE"
  <2>1. opened' \subseteq Host /\ selected' \in [Host -> Ids]
    BY <1>1 DEF FileType, Closed, Ids
  <2>2. slots' = [slots EXCEPT ![f] = {}]
    BY <1>1 DEF Closed
  <2>3. IsFiniteSet({})
    BY FS_EmptySet
  <2> QED BY <2>1, <2>2, <2>3 DEF FileType
<1>2. CASE call[f] # "RELEASE"
  BY <1>2 DEF FileType, Closed
<1> QED BY <1>1, <1>2

LEMMA InTableType ==
  ASSUME TypeInv, NEW f \in Host, InTable(f)
  PROVE  TypeInv'
<1> USE DEF TypeInv
<1>1. CASE GetArea(f)
  BY <1>1, InTableEnds DEF GetArea, TableType, FileType, tablevars, filevars
<1>2. CASE SetId(f)
  <2>1. selected' \in [Host -> Ids]
    BY <1>2 DEF SetId, CallType, FileType
  <2> QED BY <1>2, <2>1, InTableEnds DEF SetId, TableType, FileType, tablevars
<1>3. CASE CreateArea(f)
  BY <1>3, InTableEnds, CreateAreaType
<1>4. CASE MmapArea(f)
  BY <1>4, InTableEnds, MmapAreaType
<1>5. CASE UnmapArea(f)
  BY <1>5, InTableEnds, UnmapAreaType
<1>6. CASE DestroyArea(f)
  <2>1. ids' \in [Rows -> Ids]
    BY <1>6 DEF DestroyArea, TableType, Ids
  <2> QED BY <1>6, <2>1, InTableEnds DEF DestroyArea, TableType, FileType, filevars
<1>7. CASE ReleaseFile(f)
  <2>1. TableType'
    BY <1>7, UncountIs DEF ReleaseFile, TableType, FileType
  <2>2. FileType'
    BY <1>7, ClosedType DEF ReleaseFile
  <2> QED BY <1>7, <2>1, <2>2, InTableEnds
<1> QED BY <1>1, <1>2, <1>3, <1>4, <1>5, <1>6, <1>7 DEF InTable

-----------------------------------------------------------------------------
(* The calls of the library, and the BSP.                                    *)

(* One more call within the bound.                                           *)
LEMMA OneMoreCall ==
  ASSUME Bounds, shmCalls < MaxShmCalls, shmCalls' = shmCalls + 1, cardTries' = cardTries
  PROVE  Bounds'
BY ShmAssumption DEF Bounds

LEMMA StartType ==
  ASSUME TypeInv, NEW f \in Host, NEW first \in Calls, NEW i \in AreaIds,
         Start(f, first, i), maps' \in [Host -> Seq(Mapping)]
  PROVE  TypeInv'
<1> USE DEF TypeInv
<1>1. CallType'
  <2>1. call' \in [Host -> Calls] /\ arg' \in [Host -> Ids]
    BY DEF Start, CallType, Ids
  <2> QED BY <2>1 DEF Start, CallType
<1>2. Bounds'
  BY OneMoreCall DEF Start, lockvars
<1>3. TableType' /\ LockType' /\ FileType'
  BY DEF Start, TableType, LockType, FileType, tablevars, lockvars
<1> QED BY <1>1, <1>2, <1>3

(* Taking a mapping off keeps the others.                                    *)
LEMMA RemoveAtIs ==
  ASSUME NEW ms \in Seq(Mapping), NEW k \in DOMAIN ms
  PROVE  /\ RemoveAt(ms, k) \in Seq(Mapping)
         /\ \A n \in DOMAIN RemoveAt(ms, k) : \E m \in DOMAIN ms : RemoveAt(ms, k)[n] = ms[m]
<1> DEFINE left == SubSeq(ms, 1, k - 1)
           right == SubSeq(ms, k + 1, Len(ms))
<1>1. k \in 1..Len(ms) /\ Len(ms) \in Nat
  OBVIOUS
<1>2. /\ left \in Seq(Mapping) /\ Len(left) = k - 1
      /\ \A n \in 1..(k - 1) : left[n] = ms[n]
  BY <1>1
<1>3. /\ right \in Seq(Mapping) /\ Len(right) = Len(ms) - k
      /\ \A n \in 1..(Len(ms) - k) : right[n] = ms[k + n]
  BY <1>1
<1>4. RemoveAt(ms, k) = left \o right
  BY DEF RemoveAt
<1> HIDE DEF left, right
<1>5. left \o right \in Seq(Mapping) /\ Len(left \o right) = Len(ms) - 1
  BY <1>1, <1>2, <1>3
<1>6. ASSUME NEW n \in 1..(Len(ms) - 1)
      PROVE  \E m \in DOMAIN ms : (left \o right)[n] = ms[m]
  <2>1. CASE n <= k - 1
    <3>1. (left \o right)[n] = left[n]
      BY <1>1, <1>2, <1>3, <1>6, <2>1
    <3> QED BY <1>1, <1>2, <2>1, <3>1
  <2>2. CASE n > k - 1
    <3>1. (left \o right)[n] = right[n - (k - 1)] /\ n - (k - 1) \in 1..(Len(ms) - k)
      BY <1>1, <1>2, <1>3, <1>6, <2>2, SMTT(40)
    <3>2. right[n - (k - 1)] = ms[k + (n - (k - 1))] /\ k + (n - (k - 1)) \in DOMAIN ms
      BY <1>1, <1>3, <3>1, SMTT(40)
    <3> QED BY <3>1, <3>2
  <2>3. n <= k - 1 \/ n > k - 1
    BY <1>1
  <2> QED BY <2>1, <2>2, <2>3
<1>7. DOMAIN (left \o right) = 1..(Len(ms) - 1)
  BY <1>5
<1> QED BY <1>4, <1>5, <1>6, <1>7

(* An area that is not in use, or in the BSP, is taken off the table by a    *)
(* reset.                                                                    *)
LEMMA ResetType ==
  ASSUME TypeInv, NEW f \in Host, ResetTable(f)
  PROVE  TypeInv'
<1> USE DEF TypeInv
<1>1. TableType'
  BY DEF ResetTable, TableType, Ids
<1>2. LockType'
  <2>1. timeout' \in BOOLEAN
    BY Zenon DEF ResetTable
  <2> QED BY <2>1 DEF ResetTable, LockType
<1>3. CallType'
  <2>1. wiped' \in BOOLEAN
    BY Zenon DEF ResetTable, CallType
  <2> QED BY <2>1 DEF ResetTable, CallType
<1>4. FileType'
  BY DEF ResetTable, FileType, filevars
<1>5. Bounds'
  BY OneMoreCall DEF ResetTable
<1> QED BY <1>1, <1>2, <1>3, <1>4, <1>5

LEMMA LibraryType ==
  ASSUME TypeInv, NEW f \in Host, LibraryCall(f)
  PROVE  TypeInv'
<1> USE DEF TypeInv
<1>1. CASE \E i \in AreaIds : \/ bsp_create_area(f, i) \/ bsp_get_area(f, i)
                              \/ bsp_destroy_area(f, i)
  <2>1. PICK i \in AreaIds : \E first \in Calls : Start(f, first, i) /\ UNCHANGED maps
    BY <1>1 DEF bsp_create_area, bsp_get_area, bsp_destroy_area, Calls
  <2> QED BY <2>1, StartType DEF FileType
<1>2. CASE \E k \in DOMAIN maps[f] : bsp_unmap_area(f, k)
  <2>1. PICK k \in DOMAIN maps[f] : bsp_unmap_area(f, k)
    BY <1>2
  <2>2. maps[f] \in Seq(Mapping) /\ maps[f][k] \in Mapping
    BY DEF FileType
  <2>3. maps[f][k].id \in AreaIds
    BY <2>2 DEF Mapping
  <2>4. maps' \in [Host -> Seq(Mapping)]
    BY <2>1, <2>2, RemoveAtIs DEF bsp_unmap_area, FileType
  <2>5. "UNMAP" \in Calls
    BY DEF Calls
  <2> QED BY <2>1, <2>3, <2>4, <2>5, StartType DEF bsp_unmap_area
<1>3. CASE ExitProcess(f)
  <2>1. maps' \in [Host -> Seq(Mapping)]
    <3>1. << >> \in Seq(Mapping)
      BY Zenon, EmptySeq
    <3> QED BY <1>3, <3>1 DEF ExitProcess, FileType
  <2>2. CallType'
    <3>1. call' \in [Host -> Calls] /\ arg' \in [Host -> Ids]
      BY <1>3 DEF ExitProcess, CallType, Calls, Ids
    <3> QED BY <1>3, <3>1 DEF ExitProcess, CallType
  <2>3. Bounds'
    BY <1>3, OneMoreCall DEF ExitProcess, lockvars
  <2> QED BY <1>3, <2>1, <2>2, <2>3
     DEF ExitProcess, TableType, LockType, FileType, tablevars, lockvars
<1>4. CASE bsp_init(f)
  BY <1>4 DEF bsp_init, TableType, LockType, FileType, CallType, Bounds,
     tablevars, lockvars
<1>5. CASE ResetTable(f)
  BY <1>5, ResetType
<1> QED BY <1>1, <1>2, <1>3, <1>4, <1>5 DEF LibraryCall

LEMMA HostType ==
  ASSUME TypeInv, NEW f \in Host, HostStep(f)
  PROVE  TypeInv'
<1>1. CASE HostTry(f)
  <2>1. f \in Procs /\ TryLock(f) /\ UNCHANGED <<shmCalls, cardTries>>
    BY <1>1 DEF Procs, HostTry, TryLock
  <2>2. Bounds'
    BY <2>1 DEF TypeInv, Bounds
  <2> QED BY <2>1, <2>2, TryType DEF TypeInv
<1> QED BY <1>1, BeginType, InTableType, FailType DEF HostStep

LEMMA CardType ==
  ASSUME TypeInv, NEW b \in Card, CardStep(b)
  PROVE  TypeInv'
<1> USE DEF TypeInv
<1>1. b \in Procs
  BY DEF Procs
<1>2. CASE CardBegin(b)
  <2>1. phase' \in [Procs -> Phases]
    BY <1>2 DEF CardBegin, At, CallType, Phases
  <2>2. cardTries' \in 0..MaxCardTries
    BY <1>2, ShmAssumption DEF CardBegin, Bounds
  <2> QED BY <1>2, <2>1, <2>2
     DEF CardBegin, TableType, LockType, FileType, CallType, Bounds, tablevars, filevars
<1>3. CASE CardTry(b)
  <2>1. TryLock(b) /\ shmCalls' = shmCalls
    BY <1>3 DEF CardTry, TryLock
  <2>2. Bounds'
    BY <1>3, <2>1, ShmAssumption DEF CardTry, Bounds
  <2> QED BY <1>1, <2>1, <2>2, TryType
<1>4. CASE CardLeave(b)
  <2>1. ids' \in [Rows -> Ids] /\ usage' \in [Rows -> Int]
    <3>1. CASE UNCHANGED <<ids, usage>>
      BY <3>1 DEF TableType
    <3>2. CASE ~UNCHANGED <<ids, usage>>
      <4>1. usage' = [usage EXCEPT ![Row(NoArea)] = 0]
        BY <1>4, <3>2 DEF CardLeave
      <4>2. PICK i \in CardIds : ids' = [ids EXCEPT ![Row(NoArea)] = i]
        BY <1>4, <3>2 DEF CardLeave
      <4>3. i \in Ids
        BY ShmAssumption DEF Ids
      <4>4. FreeRows # {}
        BY <1>4, <3>2 DEF CardLeave
      <4> QED BY <4>1, <4>2, <4>3, <4>4, ClaimType
    <3> QED BY <3>1, <3>2
  <2>2. phase' \in [Procs -> Phases]
    BY <1>4 DEF CardLeave, At, CallType, Phases
  <2>3. lock' \in Int
    BY <1>4 DEF CardLeave, LockType
  <2> QED BY <1>4, <2>1, <2>2, <2>3
     DEF CardLeave, TableType, LockType, FileType, CallType, Bounds, filevars
<1> QED BY <1>2, <1>3, <1>4 DEF CardStep

LEMMA ShmTypeStep == TypeInv /\ [ShmNext]_shmVars => TypeInv'
<1> SUFFICES ASSUME TypeInv, [ShmNext]_shmVars PROVE TypeInv'
  OBVIOUS
<1>1. CASE UNCHANGED shmVars
  BY <1>1 DEF TypeInv, TableType, LockType, FileType, CallType, Bounds, shmVars,
     tablevars, filevars, lockvars
<1>2. CASE ShmNext
  BY <1>2, HostType, LibraryType, CardType DEF ShmNext
<1> QED BY <1>1, <1>2

(* Whatever the processes and the BSP do, each variable keeps its type: a    *)
(* process waits for one thing at a time, and what an open file has mapped   *)
(* stays a finite set of areas.                                              *)
THEOREM ShmTypeInvariance == ShmSpec => []ShmTypeOK
BY InitType, ShmTypeStep, TypeParts, PTL DEF ShmSpec

-----------------------------------------------------------------------------
(* The lock.  The counter is what the failed tries have left of it, less one *)
(* when somebody is in the table; so a try gets it to 0 only when nobody is. *)

LockInv ==
  /\ TableExclusive
  /\ \A p \in Procs : phase[p] = "in" => lock = -failed
  /\ (\A p \in Procs : phase[p] # "in") => lock = 1 - failed

(* Steps outside the lock.                                                   *)
Outside ==
  /\ lock' = lock /\ failed' = failed
  /\ \A p \in Procs : phase'[p] = "in" <=> phase[p] = "in"

LEMMA OutsideLock ==
  ASSUME LockInv, Outside
  PROVE  LockInv'
BY DEF LockInv, TableExclusive, Outside

(* A try that gets the lock finds nobody in the table.                       *)
LEMMA TryKeepsLock ==
  ASSUME TypeInv, LockInv, NEW p \in Procs, TryLock(p)
  PROVE  LockInv'
<1>1. /\ lock \in Int /\ failed \in Nat /\ phase \in [Procs -> Phases]
      /\ phase[p] = "lock" /\ lock' = lock - 1
  BY DEF TypeInv, LockType, CallType, TryLock
<1>2. CASE lock' = 0
  <2>1. phase' = [phase EXCEPT ![p] = "in"] /\ failed' = failed
    BY <1>2 DEF TryLock, At
  <2>2. \A q \in Procs : phase[q] # "in"
    BY <1>1, <1>2 DEF LockInv
  <2>3. lock' = -failed'
    BY <1>1, <1>2, <2>1, <2>2 DEF LockInv
  <2>4. \A q \in Procs : phase'[q] = "in" => q = p
    BY <1>1, <2>1, <2>2
  <2>5. phase'[p] = "in"
    BY <1>1, <2>1
  <2> QED BY <2>3, <2>4, <2>5 DEF LockInv, TableExclusive
<1>3. CASE lock' # 0
  <2>1. phase' = phase /\ failed' = failed + 1
    BY <1>3 DEF TryLock
  <2>2. \A q \in Procs : phase'[q] = "in" => lock' = -failed'
    BY <1>1, <2>1 DEF LockInv
  <2>3. (\A q \in Procs : phase'[q] # "in") => lock' = 1 - failed'
    BY <1>1, <2>1 DEF LockInv
  <2> QED BY <2>1, <2>2, <2>3 DEF LockInv, TableExclusive
<1> QED BY <1>2, <1>3

(* Who leaves the table gives back what got him in.                          *)
LEMMA LeaveKeepsLock ==
  ASSUME TypeInv, LockInv, NEW p \in Procs, phase[p] = "in",
         lock' = lock + 1, failed' = failed, At(p, "user")
  PROVE  LockInv'
<1>1. lock \in Int /\ failed \in Nat /\ phase \in [Procs -> Phases]
  BY DEF TypeInv, LockType, CallType
<1>2. lock = -failed /\ \A q \in Procs \ {p} : phase[q] # "in"
  BY DEF LockInv, TableExclusive
<1>3. \A q \in Procs : phase'[q] # "in"
  BY <1>1, <1>2 DEF At
<1>4. lock' = 1 - failed'
  BY <1>1, <1>2
<1> QED BY <1>3, <1>4 DEF LockInv, TableExclusive

LEMMA HostLock ==
  ASSUME TypeInv, LockInv, NEW f \in Host, HostStep(f)
  PROVE  LockInv'
<1>1. f \in Procs /\ phase \in [Procs -> Phases]
  BY DEF Procs, TypeInv, CallType
<1>2. CASE Begin(f) \/ DownSem(f)
  BY <1>1, <1>2, OutsideLock DEF Begin, DownSem, Outside, At, lockvars
<1>3. CASE HostTry(f)
  BY <1>1, <1>3, TryKeepsLock DEF HostTry
<1>4. CASE InTable(f)
  <2>1. phase[f] = "in"
    BY <1>4 DEF InTable, InCall, GetArea, SetId, CreateArea, MmapArea, UnmapArea,
       DestroyArea, ReleaseFile
  <2>2. \E next \in Calls : Leave(f, next)
    BY <1>4, InTableLeaves
  <2> QED BY <1>1, <2>1, <2>2, LeaveKeepsLock DEF Leave
<1>5. CASE GiveUp(f) \/ FailAtOnce(f)
  <2>1. Fail(f) /\ phase[f] # "in"
    BY <1>5 DEF GiveUp, FailAtOnce
  <2> QED BY <1>1, <2>1, OutsideLock DEF Fail, Outside, At
<1> QED BY <1>2, <1>3, <1>4, <1>5 DEF HostStep

(* A reset, an exit and the calls of the library leave the lock alone.       *)
LEMMA LibraryLock ==
  ASSUME LockInv, NEW f \in Host, LibraryCall(f)
  PROVE  LockInv'
<1>1. lock' = lock /\ failed' = failed /\ phase' = phase
  BY DEF LibraryCall, bsp_create_area, bsp_get_area, bsp_destroy_area, bsp_unmap_area,
     Start, ExitProcess, bsp_init, ResetTable, lockvars
<1> QED BY <1>1, OutsideLock DEF Outside

LEMMA CardLock ==
  ASSUME TypeInv, LockInv, NEW b \in Card, CardStep(b)
  PROVE  LockInv'
<1>1. b \in Procs /\ phase \in [Procs -> Phases]
  BY DEF Procs, TypeInv, CallType
<1>2. CASE CardBegin(b)
  BY <1>1, <1>2, OutsideLock DEF CardBegin, Outside, At
<1>3. CASE CardTry(b)
  BY <1>1, <1>3, TryKeepsLock DEF CardTry
<1>4. CASE CardLeave(b)
  BY <1>1, <1>4, LeaveKeepsLock DEF CardLeave
<1> QED BY <1>2, <1>3, <1>4 DEF CardStep

(* One process, of the host or of the BSP, is in the table at a time:        *)
(* bspshm_lock_table lets nobody in while another is there, also after tries *)
(* that failed and were never added again.                                   *)
THEOREM TableIsExclusive == ShmSpec => []TableExclusive
<1>1. ShmInit => LockInv
  BY DEF ShmInit, LockInv, TableExclusive
<1>2. TypeInv /\ [ShmNext]_shmVars => TypeInv'
  BY ShmTypeStep
<1>3. TypeInv /\ LockInv /\ [ShmNext]_shmVars => LockInv'
  <2> SUFFICES ASSUME TypeInv, LockInv, [ShmNext]_shmVars PROVE LockInv'
    OBVIOUS
  <2>1. CASE UNCHANGED shmVars
    BY <2>1, OutsideLock DEF Outside, shmVars, lockvars
  <2>2. CASE ShmNext
    BY <2>2, HostLock, LibraryLock, CardLock DEF ShmNext
  <2> QED BY <2>1, <2>2
<1>4. LockInv => TableExclusive
  BY DEF LockInv
<1> QED BY <1>1, <1>2, <1>3, <1>4, InitType, PTL DEF ShmSpec

-----------------------------------------------------------------------------
(* The areas.  An area is listed once, and an ended process has no mappings. *)

Distinct == \A d, e \in Rows : ids[d] = ids[e] /\ ids[d] # NoArea => d = e

Released == \A f \in Host : call[f] = "RELEASE" => maps[f] = << >>

(* The files that have noted an area.                                        *)
ShmUsers(i) == {f \in Host : i \in slots[f]}

(* The usage of an area covers the files that have noted it, so that it is   *)
(* not destroyed before they are done.                                       *)
Counted == \A e \in Rows : ids[e] # NoArea => usage[e] >= Cardinality(ShmUsers(ids[e]))

Noted == \A f \in Host : \A i \in slots[f] : Listed(i)

Leads(m, f) == m.counted => m.id \in slots[f] /\ ids[m.entry] = m.id

Found == \A f \in Host : \A k \in DOMAIN maps[f] : Leads(maps[f][k], f)

Use == Counted /\ Noted /\ Found

UseInv == Distinct /\ Released /\ (~wiped => Use)

LEMMA UsersFinite ==
  ASSUME NEW i
  PROVE  IsFiniteSet(ShmUsers(i)) /\ Cardinality(ShmUsers(i)) \in Nat
<1>1. ShmUsers(i) \subseteq Host \cup Card
  BY DEF ShmUsers
<1> QED BY <1>1, CardAssumption, FS_Subset, FS_CardinalityType

(* Steps outside the table: mappings may go.                                 *)
Aside ==
  /\ ids' = ids /\ usage' = usage /\ slots' = slots /\ wiped' = wiped
  /\ \A f \in Host : \A k \in DOMAIN maps'[f] :
       \E m \in DOMAIN maps[f] : maps'[f][k] = maps[f][m]

LEMMA AsideUse ==
  ASSUME Use, Aside
  PROVE  Use'
<1>1. \A i : ShmUsers(i)' = ShmUsers(i)
  BY DEF Aside, ShmUsers
<1>2. Counted'
  BY <1>1 DEF Use, Counted, Aside
<1>3. Noted'
  BY DEF Use, Noted, Aside, Listed
<1>4. Found'
  BY DEF Use, Found, Aside, Leads
<1> QED BY <1>2, <1>3, <1>4 DEF Use

(* A file that is closed without the lock: its areas stay counted.           *)
LEMMA ClosedUse ==
  ASSUME TypeInv, Released, Use, NEW f \in Host, call[f] = "RELEASE",
         ids' = ids, maps' = maps, slots' = [slots EXCEPT ![f] = {}],
         \A e \in Rows : ids[e] # NoArea =>
            usage'[e] \in Int /\ usage'[e] >= Cardinality(ShmUsers(ids[e])')
  PROVE  Use'
<1>1. slots'[f] = {} /\ \A g \in Host \ {f} : slots'[g] = slots[g]
  BY DEF TypeInv, FileType
<1>2. Counted'
  BY DEF Counted, ShmUsers
<1>3. Noted'
  BY <1>1 DEF Use, Noted, Listed
<1>4. Found'
  <2> SUFFICES ASSUME NEW g \in Host, NEW k \in DOMAIN maps[g]
               PROVE  Leads(maps[g][k], g)'
    BY DEF Found
  <2>1. g # f
    BY DEF Released
  <2> QED BY <1>1, <2>1 DEF Use, Found, Leads
<1> QED BY <1>2, <1>3, <1>4 DEF Use

(* Fewer users are covered by the same count.                                *)
LEMMA FewerUsers ==
  ASSUME TypeInv, Use, NEW f \in Host, slots' = [slots EXCEPT ![f] = {}], ids' = ids,
         NEW e \in Rows, ids[e] # NoArea
  PROVE  usage[e] \in Int /\ usage[e] >= Cardinality(ShmUsers(ids[e])')
<1> DEFINE i == ids[e]
           left == {g \in Host : i \in slots'[g]}
<1>1. left \subseteq ShmUsers(i)
  BY DEF ShmUsers, TypeInv, FileType
<1>2. Cardinality(left) <= Cardinality(ShmUsers(i)) /\ Cardinality(left) \in Nat
  BY <1>1, UsersFinite, FS_Subset, FS_CardinalityType
<1>3. usage[e] \in Int /\ usage[e] >= Cardinality(ShmUsers(i))
  BY DEF Use, Counted, TypeInv, TableType
<1>4. Cardinality(ShmUsers(i)) \in Nat
  BY UsersFinite
<1>5. ShmUsers(ids[e])' = left
  BY DEF ShmUsers
<1> HIDE DEF left, i
<1> QED BY <1>2, <1>3, <1>4, <1>5

(* A system call that failed leaves the table alone.                         *)
LEMMA FailUse ==
  ASSUME TypeInv, Released, Use, NEW f \in Host, Fail(f)
  PROVE  Use'
<1>1. ids' = ids /\ usage' = usage /\ maps' = maps /\ wiped' = wiped /\ Closed(f)
  BY DEF Fail, tablevars
<1>2. CASE call[f] = "RELEASE"
  <2>1. slots' = [slots EXCEPT ![f] = {}]
    BY <1>1, <1>2 DEF Closed
  <2> QED BY <1>1, <1>2, <2>1, FewerUsers, ClosedUse
<1>3. CASE call[f] # "RELEASE"
  BY <1>1, <1>3, AsideUse DEF Closed, Aside
<1> QED BY <1>2, <1>3

(* What a new area finds: a free entry, and nobody who has noted its id.     *)
LEMMA ClaimUse ==
  ASSUME TypeInv, Use, NEW i \in AreaIds, ~Listed(i), FreeRows # {},
         ids' = [ids EXCEPT ![Row(NoArea)] = i],
         usage' = [usage EXCEPT ![Row(NoArea)] = 0],
         slots' = slots, maps' = maps
  PROVE  Use'
<1>1. PICK r \in Rows : r = Row(NoArea) /\ ids[r] = NoArea
  BY RowIs DEF FreeRows
<1>2. /\ ids'[r] = i /\ usage'[r] = 0
      /\ \A d \in Rows \ {r} : ids'[d] = ids[d] /\ usage'[d] = usage[d]
  BY <1>1 DEF TypeInv, TableType
<1>3. ShmUsers(i) = {}
  BY DEF Use, Noted, ShmUsers
<1>4. Counted'
  <2> SUFFICES ASSUME NEW d \in Rows, ids'[d] # NoArea
               PROVE  usage'[d] >= Cardinality(ShmUsers(ids'[d]))
    BY DEF Counted, ShmUsers
  <2>1. CASE d = r
    BY <2>1, <1>2, <1>3, FS_EmptySet
  <2>2. CASE d # r
    BY <2>2, <1>2 DEF Use, Counted
  <2> QED BY <2>1, <2>2
<1>5. Noted'
  <2>1. \A j : Listed(j) => Listed(j)'
    BY <1>1, <1>2, ShmAssumption DEF Listed
  <2> QED BY <2>1 DEF Use, Noted
<1>6. Found'
  <2> SUFFICES ASSUME NEW f \in Host, NEW k \in DOMAIN maps[f], maps[f][k].counted
               PROVE  Leads(maps[f][k], f)'
    BY DEF Found, Leads
  <2> DEFINE m == maps[f][k]
  <2>1. m.id \in slots[f] /\ ids[m.entry] = m.id
    BY DEF Use, Found, Leads
  <2>2. m.entry \in Rows /\ m.id \in AreaIds
    <3>1. m \in Mapping
      BY DEF TypeInv, FileType
    <3> QED BY <3>1 DEF Mapping
  <2>3. m.entry # r
    BY <2>1, <2>2, <1>1, ShmAssumption
  <2> QED BY <2>1, <2>2, <2>3, <1>2 DEF Leads
<1> QED BY <1>4, <1>5, <1>6 DEF Use

LEMMA ClaimDistinct ==
  ASSUME TypeInv, Distinct, NEW i \in AreaIds, ~Listed(i), FreeRows # {},
         ids' = [ids EXCEPT ![Row(NoArea)] = i]
  PROVE  Distinct'
<1>1. PICK r \in Rows : r = Row(NoArea) /\ ids[r] = NoArea
  BY RowIs DEF FreeRows
<1>2. ids'[r] = i /\ \A d \in Rows \ {r} : ids'[d] = ids[d] /\ ids[d] # i
  BY <1>1, ShmAssumption DEF TypeInv, TableType, Listed
<1> QED BY <1>2 DEF Distinct

(* bspshm_destroy_area_sub takes off only what no file has noted.            *)
LEMMA DestroyUse ==
  ASSUME TypeInv, Use, NEW f \in Host, DestroyArea(f)
  PROVE  Use'
<1> DEFINE i == arg[f]
<1>1. usage' = usage /\ slots' = slots /\ maps' = maps
  BY DEF DestroyArea, filevars
<1>2. CASE ids' = ids
  <2>1. Counted' /\ Noted' /\ Found'
    BY <1>1, <1>2 DEF Use, Counted, Noted, Found, Leads, ShmUsers, Listed
  <2> QED BY <2>1 DEF Use
<1>3. CASE ids' # ids
  <2>1. Listed(i) /\ usage[Row(i)] = 0 /\ ids' = [ids EXCEPT ![Row(i)] = NoArea]
    BY <1>3 DEF DestroyArea
  <2>2. PICK r \in Rows : r = Row(i) /\ ids[r] = i /\ i # NoArea
    BY <2>1, RowIs DEF Listed
  <2>3. ids'[r] = NoArea /\ \A d \in Rows \ {r} : ids'[d] = ids[d]
    BY <2>1, <2>2 DEF TypeInv, TableType
  <2>4. \A g \in Host : i \notin slots[g]
    <3>1. Cardinality(ShmUsers(i)) = 0
      BY <2>1, <2>2, UsersFinite DEF Use, Counted
    <3>2. ShmUsers(i) = {}
      BY <3>1, UsersFinite, FS_EmptySet
    <3> QED BY <3>2 DEF ShmUsers
  <2>5. Counted'
    BY <2>3, <1>1 DEF Use, Counted, ShmUsers
  <2>6. Noted'
    <3>1. \A j : Listed(j) /\ j # i => Listed(j)'
      BY <2>2, <2>3 DEF Listed
    <3> QED BY <3>1, <2>4, <1>1 DEF Use, Noted
  <2>7. Found'
    <3> SUFFICES ASSUME NEW g \in Host, NEW k \in DOMAIN maps[g], maps[g][k].counted
                 PROVE  Leads(maps[g][k], g)'
      BY <1>1 DEF Found, Leads
    <3>1. maps[g][k].id \in slots[g] /\ ids[maps[g][k].entry] = maps[g][k].id
      BY DEF Use, Found, Leads
    <3>2. maps[g][k].entry \in Rows
      <4>1. maps[g][k] \in Mapping
        BY DEF TypeInv, FileType
      <4> QED BY <4>1 DEF Mapping
    <3>3. maps[g][k].entry # r
      BY <3>1, <2>2, <2>4
    <3> QED BY <3>1, <3>2, <3>3, <2>3, <1>1 DEF Leads
  <2> QED BY <2>5, <2>6, <2>7 DEF Use
<1> QED BY <1>2, <1>3

(* Taking areas off a file, and off their counts.                            *)
LEMMA UncountUse ==
  ASSUME TypeInv, Distinct, Use, NEW f \in Host, NEW S, S \subseteq slots[f],
         Uncount(S), ids' = ids, slots' = [slots EXCEPT ![f] = @ \ S]
  PROVE  /\ \A e \in Rows : ids[e] # NoArea =>
              usage'[e] \in Int /\ usage'[e] >= Cardinality(ShmUsers(ids[e])')
         /\ Noted'
<1> DEFINE gone == {i \in S : Listed(i)}
<1>1. usage' = [e \in Rows |-> IF ids[e] \in gone /\ Row(ids[e]) = e
                              THEN usage[e] - 1 ELSE usage[e]]
  BY DEF Uncount
<1>2. slots'[f] = slots[f] \ S /\ \A g \in Host \ {f} : slots'[g] = slots[g]
  BY DEF TypeInv, FileType
<1>3. ASSUME NEW e \in Rows, ids[e] # NoArea
      PROVE  usage'[e] \in Int /\ usage'[e] >= Cardinality(ShmUsers(ids[e])')
  <2> DEFINE i == ids[e]
             left == {g \in Host : i \in slots'[g]}
  <2>1. usage[e] >= Cardinality(ShmUsers(i)) /\ usage[e] \in Int
    BY <1>3 DEF Use, Counted, TypeInv, TableType
  <2>2. Listed(i) /\ Row(i) = e
    <3>1. Listed(i)
      BY <1>3 DEF Listed
    <3>2. Row(i) \in Rows /\ ids[Row(i)] = i
      BY <3>1, RowIs DEF Listed
    <3> QED BY <3>1, <3>2, <1>3 DEF Distinct
  <2>3. ShmUsers(ids[e])' = left
    BY DEF ShmUsers
  <2>4. CASE i \in S
    <3>1. usage'[e] = usage[e] - 1
      BY <1>1, <2>2, <2>4
    <3>2. f \in ShmUsers(i)
      BY <2>4 DEF ShmUsers
    <3>3. left = ShmUsers(i) \ {f}
      BY <1>2, <2>4 DEF ShmUsers
    <3>4. Cardinality(ShmUsers(i) \ {f}) = Cardinality(ShmUsers(i)) - 1
      BY <3>2, UsersFinite, FS_RemoveElement
    <3> HIDE DEF i, left
    <3> QED BY <2>1, <2>3, <3>1, <3>3, <3>4, UsersFinite
  <2>5. CASE i \notin S
    <3>1. usage'[e] = usage[e]
      BY <1>1, <2>5
    <3>2. left = ShmUsers(i)
      BY <1>2, <2>5 DEF ShmUsers
    <3> HIDE DEF i, left
    <3> QED BY <2>1, <2>3, <3>1, <3>2
  <2> QED BY <2>4, <2>5
<1>4. Noted'
  BY <1>2 DEF Use, Noted, Listed
<1> QED BY <1>3, <1>4

(* bspshm_unmap_area takes off the selected area and its mappings' count.    *)
LEMMA UnmapUse ==
  ASSUME TypeInv, Distinct, Use, NEW f \in Host, UnmapArea(f)
  PROVE  Use'
<1> DEFINE i == selected[f]
<1>1. ids' = ids
  BY DEF UnmapArea
<1>2. CASE i \in slots[f]
  <2>1. /\ Uncount({i}) /\ slots' = [slots EXCEPT ![f] = @ \ {i}]
        /\ maps' = [maps EXCEPT ![f] = Uncounted(@, i)]
    BY <1>2 DEF UnmapArea
  <2>2. Counted' /\ Noted'
    BY <1>1, <1>2, <2>1, UncountUse DEF Counted
  <2>3. slots'[f] = slots[f] \ {i} /\ \A g \in Host \ {f} : slots'[g] = slots[g]
    BY <2>1 DEF TypeInv, FileType
  <2>4. Found'
    <3> SUFFICES ASSUME NEW g \in Host, NEW k \in DOMAIN maps'[g], maps'[g][k].counted
                 PROVE  maps'[g][k].id \in slots'[g] /\ ids[maps'[g][k].entry] = maps'[g][k].id
      BY <1>1 DEF Found, Leads
    <3>1. maps \in [Host -> Seq(Mapping)]
      BY DEF TypeInv, FileType
    <3>2. CASE g = f
      <4>1. maps'[g] = Uncounted(maps[f], i) /\ maps[f] \in Seq(Mapping)
        BY <2>1, <3>1, <3>2
      <4>2. /\ k \in DOMAIN maps[f]
            /\ maps'[g][k].id = maps[f][k].id /\ maps'[g][k].entry = maps[f][k].entry
            /\ maps[f][k].counted /\ maps[f][k].id # i
        BY <4>1, UncountedIs
      <4> QED BY <4>2, <3>2, <2>3 DEF Use, Found, Leads
    <3>3. CASE g # f
      <4>1. maps'[g] = maps[g]
        BY <2>1, <3>1, <3>3
      <4> QED BY <4>1, <3>3, <2>3 DEF Use, Found, Leads
    <3> QED BY <3>2, <3>3
  <2> QED BY <2>2, <2>4 DEF Use
<1>3. CASE i \notin slots[f]
  <2>1. usage' = usage /\ slots' = slots /\ maps' = maps
    BY <1>3 DEF UnmapArea
  <2> QED BY <1>1, <2>1 DEF Use, Counted, Noted, Found, Leads, ShmUsers, Listed
<1> QED BY <1>2, <1>3

(* bspshm_release takes off all that the file has noted.                     *)
LEMMA ReleaseUse ==
  ASSUME TypeInv, Distinct, Released, Use, NEW f \in Host, ReleaseFile(f)
  PROVE  Use'
<1>1. /\ call[f] = "RELEASE" /\ Uncount(slots[f]) /\ ids' = ids /\ maps' = maps
      /\ slots' = [slots EXCEPT ![f] = {}]
  BY DEF ReleaseFile, Closed, InCall
<1>2. slots' = [slots EXCEPT ![f] = @ \ slots[f]]
  <2>1. slots[f] \ slots[f] = {}
    OBVIOUS
  <2> QED BY <1>1, <2>1 DEF TypeInv, FileType
<1>3. \A e \in Rows : ids[e] # NoArea =>
        usage'[e] \in Int /\ usage'[e] >= Cardinality(ShmUsers(ids[e])')
  BY <1>1, <1>2, UncountUse
<1> QED BY <1>1, <1>3, ClosedUse

(* bspshm_mmap counts what it notes and maps what it has found.              *)
LEMMA MmapUse ==
  ASSUME TypeInv, Distinct, Use, NEW f \in Host, MmapArea(f)
  PROVE  Use'
<1> DEFINE i == selected[f]
           r == Row(i)
           free == Cardinality(slots[f]) < FileSlots
           m == [id |-> i, entry |-> r, counted |-> free]
<1>1. ids' = ids
  BY DEF MmapArea
<1>2. CASE i \in slots[f] \/ ~Listed(i)
  <2>1. usage' = usage /\ slots' = slots /\ maps' = maps
    BY <1>2 DEF MmapArea
  <2> QED BY <1>1, <2>1 DEF Use, Counted, Noted, Found, Leads, ShmUsers, Listed
<1>3. CASE i \notin slots[f] /\ Listed(i)
  <2>1. /\ usage' = [usage EXCEPT ![r] = @ + 1]
        /\ slots' = IF free THEN [slots EXCEPT ![f] = @ \cup {i}] ELSE slots
        /\ maps' = [maps EXCEPT ![f] = Append(@, m)]
    BY <1>3 DEF MmapArea
  <2>2. r \in Rows /\ ids[r] = i /\ i # NoArea
    BY <1>3, RowIs DEF Listed
  <2>3. i \in AreaIds
    BY <2>2 DEF TypeInv, TableType, Ids
  <2> HIDE DEF r, i, free
  <2>4. /\ slots'[f] = IF free THEN slots[f] \cup {i} ELSE slots[f]
        /\ \A g \in Host \ {f} : slots'[g] = slots[g]
    BY <2>1 DEF TypeInv, FileType
  <2>5. Counted'
    <3> SUFFICES ASSUME NEW d \in Rows, ids[d] # NoArea
                 PROVE  usage'[d] >= Cardinality({g \in Host : ids[d] \in slots'[g]})
      BY <1>1 DEF Counted, ShmUsers
    <3>1. usage[d] \in Int /\ usage[d] >= Cardinality(ShmUsers(ids[d]))
      BY DEF Use, Counted, TypeInv, TableType
    <3>2. CASE d = r
      <4>1. usage'[d] = usage[d] + 1
        BY <3>1, <3>2, <2>1 DEF TypeInv, TableType
      <4>2. PICK now : now = {g \in Host : i \in slots'[g]}
        OBVIOUS
      <4>3. now \in {ShmUsers(i), ShmUsers(i) \cup {f}}
        BY <4>2, <2>4 DEF ShmUsers
      <4>4. Cardinality(now) <= Cardinality(ShmUsers(i)) + 1 /\ Cardinality(now) \in Nat
        <5>1. IsFiniteSet(ShmUsers(i)) /\ Cardinality(ShmUsers(i)) \in Nat
          BY UsersFinite
        <5>2. CASE now = ShmUsers(i)
          BY <5>1, <5>2
        <5>3. CASE now # ShmUsers(i)
          <6>1. now = ShmUsers(i) \cup {f} /\ f \notin ShmUsers(i)
            BY <4>3, <5>3
          <6>2. Cardinality(ShmUsers(i) \cup {f}) = Cardinality(ShmUsers(i)) + 1
            BY <5>1, <6>1, FS_AddElement
          <6> QED BY <5>1, <6>1, <6>2
        <5> QED BY <5>2, <5>3
      <4>5. usage[d] >= Cardinality(ShmUsers(i)) /\ Cardinality(ShmUsers(i)) \in Nat
        BY <3>1, <3>2, <2>2, UsersFinite
      <4>6. usage'[d] >= Cardinality(now)
        BY <3>1, <4>1, <4>4, <4>5
      <4>7. now = {g \in Host : ids[d] \in slots'[g]}
        BY <3>2, <2>2, <4>2
      <4> QED BY <4>6, <4>7
    <3>3. CASE d # r
      <4>1. usage'[d] = usage[d]
        BY <3>3, <2>1, <2>2 DEF TypeInv, TableType
      <4>2. ids[d] # i
        BY <3>3, <2>2 DEF Distinct
      <4>3. {g \in Host : ids[d] \in slots'[g]} = ShmUsers(ids[d])
        BY <4>2, <2>4 DEF ShmUsers
      <4> QED BY <3>1, <4>1, <4>3
    <3> QED BY <3>2, <3>3
  <2>6. Noted'
    BY <1>1, <1>3, <2>2, <2>4 DEF Use, Noted, Listed
  <2>7. Found'
    <3> SUFFICES ASSUME NEW g \in Host, NEW k \in DOMAIN maps'[g], maps'[g][k].counted
                 PROVE  maps'[g][k].id \in slots'[g] /\ ids[maps'[g][k].entry] = maps'[g][k].id
      BY <1>1 DEF Found, Leads
    <3>1. maps \in [Host -> Seq(Mapping)]
      BY DEF TypeInv, FileType
    <3>2. slots[g] \subseteq slots'[g]
      BY <2>4
    <3>3. CASE k \in DOMAIN maps[g] /\ maps'[g][k] = maps[g][k]
      BY <3>2, <3>3 DEF Use, Found, Leads
    <3>4. CASE g = f /\ maps'[g][k] = m
      BY <3>4, <2>2, <2>4
    <3>5. \/ k \in DOMAIN maps[g] /\ maps'[g][k] = maps[g][k]
          \/ g = f /\ maps'[g][k] = m
      <4> HIDE DEF m
      <4>1. CASE g = f
        <5>1. maps[f] \in Seq(Mapping) /\ maps'[g] = Append(maps[f], m)
          BY <4>1, <2>1, <3>1
        <5>2. Len(maps[f]) \in Nat /\ DOMAIN maps[f] = 1..Len(maps[f])
          BY <5>1
        <5>3. k \in 1..(Len(maps[f]) + 1)
          BY <5>1
        <5>4. CASE k = Len(maps[f]) + 1
          BY <4>1, <5>1, <5>4
        <5>5. CASE k \in 1..Len(maps[f])
          BY <4>1, <5>1, <5>5
        <5> QED BY <5>2, <5>3, <5>4, <5>5
      <4>2. CASE g # f
        BY <4>2, <2>1, <3>1
      <4> QED BY <4>1, <4>2
    <3> QED BY <3>3, <3>4, <3>5
  <2> QED BY <2>5, <2>6, <2>7 DEF Use
<1> QED BY <1>2, <1>3

(* A reset that leaves wiped false has found nothing of the BSP mapped.      *)
LEMMA ResetUse ==
  ASSUME TypeInv, Use, NEW f \in Host, ResetTable(f), ~wiped'
  PROVE  Use'
<1>1. \A g \in Host : slots[g] \cap CardIds = {}
  BY Zenon DEF ResetTable
<1>2. /\ usage' = usage /\ slots' = slots /\ maps' = maps
      /\ ids' = [e \in Rows |-> IF ids[e] \in CardIds THEN NoArea ELSE ids[e]]
  BY DEF ResetTable, filevars
<1>3. \A e \in Rows : ids'[e] # NoArea => ids'[e] = ids[e]
  BY <1>2
<1>4. \A e \in Rows : ids[e] \notin CardIds => ids'[e] = ids[e]
  BY <1>2
<1>5. Counted'
  BY <1>2, <1>3 DEF Use, Counted, ShmUsers
<1>6. Noted'
  <2> SUFFICES ASSUME NEW g \in Host, NEW i \in slots[g] PROVE Listed(i)'
    BY <1>2 DEF Noted
  <2>1. i \notin CardIds /\ Listed(i)
    BY <1>1 DEF Use, Noted
  <2> QED BY <2>1, <1>4 DEF Listed
<1>7. Found'
  <2> SUFFICES ASSUME NEW g \in Host, NEW k \in DOMAIN maps[g], maps[g][k].counted
               PROVE  Leads(maps[g][k], g)'
    BY <1>2 DEF Found, Leads
  <2>1. maps[g][k].id \in slots[g] /\ ids[maps[g][k].entry] = maps[g][k].id
    BY DEF Use, Found, Leads
  <2>2. maps[g][k].entry \in Rows
    <3>1. maps[g][k] \in Mapping
      BY DEF TypeInv, FileType
    <3> QED BY <3>1 DEF Mapping
  <2>3. maps[g][k].id \notin CardIds
    BY <2>1, <1>1
  <2> QED BY <2>1, <2>2, <2>3, <1>2, <1>4 DEF Leads
<1> QED BY <1>5, <1>6, <1>7 DEF Use

-----------------------------------------------------------------------------
(* Every step.  What a step of f does to the others' calls and mappings.     *)

LEMMA HostReleased ==
  ASSUME TypeInv, Released, NEW f \in Host, HostStep(f)
  PROVE  Released'
<1>1. CASE call' = call /\ maps' = maps
  BY <1>1 DEF Released
<1>2. CASE Fail(f)
  <2>1. PICK next \in {"MMAP", "none"} : Proceed(f, next)
    BY <1>2, Zenon DEF Fail
  <2>2. maps' = maps
    BY <1>2 DEF Fail
  <2> QED BY <2>1, <2>2 DEF Proceed, Released, TypeInv, CallType
<1>3. CASE InTable(f)
  <2>1. PICK next \in Calls \ {"RELEASE"} : Leave(f, next)
    BY <1>3, InTableLeaves
  <2>2. call' = [call EXCEPT ![f] = next]
    BY <2>1 DEF Leave, Proceed
  <2>3. \A g \in Host \ {f} : maps'[g] = maps[g]
    BY <1>3 DEF InTable, GetArea, SetId, CreateArea, MmapArea, UnmapArea, DestroyArea,
       ReleaseFile, filevars, TypeInv, FileType
  <2> QED BY <2>2, <2>3 DEF Released, TypeInv, CallType
<1>4. CASE Begin(f) \/ DownSem(f) \/ HostTry(f)
  BY <1>1, <1>4 DEF Begin, DownSem, HostTry, TryLock, filevars
<1> QED BY <1>2, <1>3, <1>4 DEF HostStep, GiveUp, FailAtOnce

LEMMA LibraryReleased ==
  ASSUME TypeInv, Released, NEW f \in Host, LibraryCall(f)
  PROVE  Released'
<1>1. CASE call' = call /\ maps' = maps
  BY <1>1 DEF Released
<1>2. CASE \E i \in AreaIds : \/ bsp_create_area(f, i) \/ bsp_get_area(f, i)
                              \/ bsp_destroy_area(f, i)
  BY <1>2 DEF bsp_create_area, bsp_get_area, bsp_destroy_area, Start, Released,
     TypeInv, CallType
<1>3. CASE \E k \in DOMAIN maps[f] : bsp_unmap_area(f, k)
  <2>1. call' = [call EXCEPT ![f] = "UNMAP"] /\ \A g \in Host \ {f} : maps'[g] = maps[g]
    BY <1>3 DEF bsp_unmap_area, Start, TypeInv, FileType
  <2> QED BY <2>1 DEF Released, TypeInv, CallType
<1>4. CASE ExitProcess(f)
  <2>1. maps'[f] = << >> /\ \A g \in Host \ {f} : maps'[g] = maps[g]
    BY <1>4 DEF ExitProcess, TypeInv, FileType
  <2>2. \A g \in Host \ {f} : call'[g] = call[g]
    BY <1>4 DEF ExitProcess, TypeInv, CallType
  <2> QED BY <2>1, <2>2 DEF Released
<1>5. CASE bsp_init(f) \/ ResetTable(f)
  BY <1>1, <1>5 DEF bsp_init, ResetTable, filevars
<1> QED BY <1>2, <1>3, <1>4, <1>5 DEF LibraryCall

(* An area is listed once: it is created only when it is not listed.         *)
LEMMA StepDistinct ==
  ASSUME TypeInv, Distinct, ShmNext
  PROVE  Distinct'
<1>1. CASE ids' = ids
  BY <1>1 DEF Distinct
<1>2. CASE \A e \in Rows : ids'[e] # NoArea => ids'[e] = ids[e]
  BY <1>2 DEF Distinct
<1>3. ASSUME NEW f \in Host, HostStep(f) PROVE Distinct'
  <2>1. CASE CreateArea(f)
    <3>1. CASE ids' # ids
      <4>1. ~Listed(arg[f]) /\ FreeRows # {} /\ ids' = [ids EXCEPT ![Row(NoArea)] = arg[f]]
        BY <2>1, <3>1 DEF CreateArea
      <4>2. arg[f] \in Ids
        BY DEF TypeInv, CallType
      <4>3. CASE arg[f] \in AreaIds
        BY <4>1, <4>3, ClaimDistinct
      <4>4. CASE arg[f] = NoArea
        BY <4>1, <4>4, <1>2, RowIs DEF TypeInv, TableType, FreeRows
      <4> QED BY <4>2, <4>3, <4>4 DEF Ids
    <3> QED BY <3>1, <1>1
  <2>2. CASE DestroyArea(f)
    <3>1. CASE ids' # ids
      <4>1. ids' = [ids EXCEPT ![Row(arg[f])] = NoArea]
        BY <2>2, <3>1 DEF DestroyArea
      <4> QED BY <4>1, <1>2 DEF TypeInv, TableType
    <3> QED BY <3>1, <1>1
  <2>3. CASE ~CreateArea(f) /\ ~DestroyArea(f)
    BY <1>1, <1>3, <2>3 DEF HostStep, Begin, DownSem, HostTry, TryLock, InTable, GetArea,
       SetId, MmapArea, UnmapArea, ReleaseFile, GiveUp, FailAtOnce, Fail, tablevars
  <2> QED BY <2>1, <2>2, <2>3
<1>4. ASSUME NEW f \in Host, LibraryCall(f) PROVE Distinct'
  <2>1. CASE ResetTable(f)
    BY <2>1, <1>2 DEF ResetTable
  <2>2. CASE ~ResetTable(f)
    BY <1>1, <1>4, <2>2 DEF LibraryCall, bsp_create_area, bsp_get_area, bsp_destroy_area,
       bsp_unmap_area, Start, ExitProcess, bsp_init, tablevars
  <2> QED BY <2>1, <2>2
<1>5. ASSUME NEW b \in Card, CardStep(b) PROVE Distinct'
  <2>1. CASE ids' # ids
    <3>1. CardLeave(b)
      BY <1>5, <2>1 DEF CardStep, CardBegin, CardTry, TryLock, tablevars
    <3>2. PICK i \in CardIds : ~Listed(i) /\ ids' = [ids EXCEPT ![Row(NoArea)] = i]
      BY <3>1, <2>1 DEF CardLeave
    <3>3. FreeRows # {} /\ i \in AreaIds
      BY <3>1, <2>1, ShmAssumption DEF CardLeave
    <3> QED BY <3>2, <3>3, ClaimDistinct
  <2> QED BY <2>1, <1>1
<1> QED BY <1>3, <1>4, <1>5 DEF ShmNext

LEMMA CreateUse ==
  ASSUME TypeInv, Use, NEW f \in Host, CreateArea(f)
  PROVE  Use'
<1>1. slots' = slots /\ maps' = maps
  BY DEF CreateArea, filevars
<1>2. CASE UNCHANGED <<ids, usage>>
  BY <1>1, <1>2 DEF Use, Counted, Noted, Found, Leads, ShmUsers, Listed
<1>3. CASE ~UNCHANGED <<ids, usage>>
  <2>1. /\ ~Listed(arg[f]) /\ FreeRows # {}
        /\ ids' = [ids EXCEPT ![Row(NoArea)] = arg[f]]
        /\ usage' = [usage EXCEPT ![Row(NoArea)] = 0]
    BY <1>3 DEF CreateArea
  <2>2. CASE arg[f] \in AreaIds
    BY <1>1, <2>1, <2>2, ClaimUse
  <2>3. CASE arg[f] = NoArea
    <3>1. PICK r \in Rows : r = Row(NoArea) /\ ids[r] = NoArea
      BY <2>1, RowIs DEF FreeRows
    <3>2. ids' = ids
      BY <2>1, <2>3, <3>1 DEF TypeInv, TableType
    <3>3. \A e \in Rows : ids[e] # NoArea => usage'[e] = usage[e]
      BY <2>1, <3>1 DEF TypeInv, TableType
    <3> QED BY <1>1, <3>2, <3>3 DEF Use, Counted, Noted, Found, Leads, ShmUsers, Listed
  <2>4. arg[f] \in Ids
    BY DEF TypeInv, CallType
  <2> QED BY <2>2, <2>3, <2>4 DEF Ids
<1> QED BY <1>2, <1>3

LEMMA HostUse ==
  ASSUME TypeInv, Distinct, Released, Use, NEW f \in Host, HostStep(f)
  PROVE  Use' /\ wiped' = wiped
<1>1. CASE Begin(f) \/ DownSem(f) \/ HostTry(f) \/ GetArea(f) \/ SetId(f)
  <2>1. ids' = ids /\ usage' = usage /\ slots' = slots /\ maps' = maps /\ wiped' = wiped
    BY <1>1 DEF Begin, DownSem, HostTry, TryLock, GetArea, SetId, Leave, tablevars, filevars
  <2> QED BY <2>1, AsideUse DEF Aside
<1>2. CASE CreateArea(f)
  BY <1>2, CreateUse DEF CreateArea, Leave
<1>3. CASE MmapArea(f)
  BY <1>3, MmapUse DEF MmapArea, Leave
<1>4. CASE UnmapArea(f)
  BY <1>4, UnmapUse DEF UnmapArea, Leave
<1>5. CASE DestroyArea(f)
  BY <1>5, DestroyUse DEF DestroyArea, Leave
<1>6. CASE ReleaseFile(f)
  BY <1>6, ReleaseUse DEF ReleaseFile, Leave
<1>7. CASE GiveUp(f) \/ FailAtOnce(f)
  <2>1. Fail(f)
    BY <1>7 DEF GiveUp, FailAtOnce
  <2>2. wiped' = wiped
    BY <2>1 DEF Fail
  <2> QED BY <2>1, <2>2, FailUse
<1> QED BY <1>1, <1>2, <1>3, <1>4, <1>5, <1>6, <1>7 DEF HostStep, InTable

LEMMA LibraryUse ==
  ASSUME TypeInv, ~wiped => Use, NEW f \in Host, LibraryCall(f), ~wiped'
  PROVE  Use'
<1>1. CASE ResetTable(f)
  <2>1. ~wiped
    BY <1>1, Zenon DEF ResetTable
  <2> QED BY <1>1, <2>1, ResetUse
<1>2. CASE ~ResetTable(f)
  <2>1. ids' = ids /\ usage' = usage /\ slots' = slots /\ wiped' = wiped
    BY <1>2 DEF LibraryCall, bsp_create_area, bsp_get_area, bsp_destroy_area,
       bsp_unmap_area, Start, ExitProcess, bsp_init, tablevars
  <2>2. \A g \in Host : \A k \in DOMAIN maps'[g] : \E m \in DOMAIN maps[g] : maps'[g][k] = maps[g][m]
    <3>1. CASE maps' = maps
      BY <3>1
    <3>2. CASE \E k \in DOMAIN maps[f] : bsp_unmap_area(f, k)
      <4>1. PICK k \in DOMAIN maps[f] : maps' = [maps EXCEPT ![f] = RemoveAt(@, k)]
        BY <3>2 DEF bsp_unmap_area
      <4>2. maps[f] \in Seq(Mapping) /\ maps'[f] = RemoveAt(maps[f], k)
        BY <4>1 DEF TypeInv, FileType
      <4>3. \A n \in DOMAIN maps'[f] : \E m \in DOMAIN maps[f] : maps'[f][n] = maps[f][m]
        BY <4>2, RemoveAtIs
      <4>4. \A g \in Host \ {f} : maps'[g] = maps[g]
        BY <4>1 DEF TypeInv, FileType
      <4> QED BY <4>3, <4>4
    <3>3. CASE ExitProcess(f)
      <4>1. maps'[f] = << >> /\ \A g \in Host \ {f} : maps'[g] = maps[g]
        BY <3>3 DEF ExitProcess, TypeInv, FileType
      <4>2. \A k \in DOMAIN maps'[f] : FALSE
        BY <4>1
      <4> QED BY <4>1, <4>2
    <3>4. maps' = maps \/ (\E k \in DOMAIN maps[f] : bsp_unmap_area(f, k)) \/ ExitProcess(f)
      BY <1>2 DEF LibraryCall, bsp_create_area, bsp_get_area, bsp_destroy_area, bsp_init
    <3> QED BY <3>1, <3>2, <3>3, <3>4
  <2> QED BY <2>1, <2>2, AsideUse DEF Aside
<1> QED BY <1>1, <1>2

LEMMA CardUse ==
  ASSUME TypeInv, Use, NEW b \in Card, CardStep(b)
  PROVE  Use' /\ wiped' = wiped
<1>1. slots' = slots /\ maps' = maps /\ wiped' = wiped
  BY DEF CardStep, CardBegin, CardTry, TryLock, CardLeave, filevars
<1>2. CASE ids' = ids /\ usage' = usage
  BY <1>1, <1>2, AsideUse DEF Aside
<1>3. CASE ~(ids' = ids /\ usage' = usage)
  <2>1. CardLeave(b)
    BY <1>3 DEF CardStep, CardBegin, CardTry, TryLock, tablevars
  <2>2. PICK i \in CardIds : ~Listed(i) /\ ids' = [ids EXCEPT ![Row(NoArea)] = i]
    BY <2>1, <1>3 DEF CardLeave
  <2>3. FreeRows # {} /\ i \in AreaIds /\ usage' = [usage EXCEPT ![Row(NoArea)] = 0]
    BY <2>1, <1>3, ShmAssumption DEF CardLeave
  <2> QED BY <1>1, <2>2, <2>3, ClaimUse
<1> QED BY <1>2, <1>3

LEMMA CardReleased ==
  ASSUME Released, NEW b \in Card, CardStep(b)
  PROVE  Released'
BY DEF Released, CardStep, CardBegin, CardTry, TryLock, CardLeave, filevars

(* A page fault in a mapping that the driver counts finds the area that was  *)
(* mapped, whatever timed out, was created, destroyed or closed since: the   *)
(* count of its entry keeps bspshm_destroy_area_sub from freeing it.         *)
THEOREM CountedFaultsFindArea == ShmSpec => []FaultsFindArea
<1>1. ShmInit => UseInv
  <2> SUFFICES ASSUME ShmInit PROVE UseInv
    OBVIOUS
  <2>1. Distinct
    BY DEF ShmInit, Distinct
  <2>2. Released /\ Noted
    BY DEF ShmInit, Released, Noted
  <2>3. Counted
    BY DEF ShmInit, Counted
  <2>4. Found
    BY DEF ShmInit, Found
  <2> QED BY <2>1, <2>2, <2>3, <2>4 DEF UseInv, Use
<1>2. TypeInv /\ UseInv /\ [ShmNext]_shmVars => UseInv'
  <2> SUFFICES ASSUME TypeInv, UseInv, [ShmNext]_shmVars PROVE UseInv'
    OBVIOUS
  <2>1. CASE UNCHANGED shmVars
    BY <2>1 DEF UseInv, Distinct, Released, Use, Counted, Noted, Found, Leads, ShmUsers,
       Listed, shmVars, tablevars, filevars
  <2>2. ASSUME NEW f \in Host, HostStep(f) PROVE UseInv'
    <3>1. Distinct' /\ Released'
      BY <2>2, StepDistinct, HostReleased DEF UseInv, ShmNext
    <3>2. wiped' \/ Use'
      <4>1. CASE wiped
        <5>1. wiped' = wiped
          BY <2>2 DEF HostStep, Begin, DownSem, HostTry, TryLock, InTable, GetArea, SetId,
             CreateArea, MmapArea, UnmapArea, DestroyArea, ReleaseFile, GiveUp,
             FailAtOnce, Fail, Leave
        <5> QED BY <4>1, <5>1
      <4>2. CASE ~wiped
        BY <2>2, <4>2, HostUse DEF UseInv
      <4> QED BY <4>1, <4>2
    <3> QED BY <3>1, <3>2 DEF UseInv
  <2>3. ASSUME NEW f \in Host, LibraryCall(f) PROVE UseInv'
    BY <2>3, StepDistinct, LibraryReleased, LibraryUse DEF UseInv, ShmNext
  <2>4. ASSUME NEW b \in Card, CardStep(b) PROVE UseInv'
    <3>1. Distinct' /\ Released'
      BY <2>4, StepDistinct, CardReleased DEF UseInv, ShmNext
    <3>2. wiped' \/ Use'
      <4>1. wiped' = wiped
        BY <2>4 DEF CardStep, CardBegin, CardTry, TryLock, CardLeave
      <4>2. ~wiped => Use'
        BY <2>4, CardUse DEF UseInv
      <4> QED BY Zenon, <4>1, <4>2
    <3> QED BY <3>1, <3>2 DEF UseInv
  <2> QED BY <2>1, <2>2, <2>3, <2>4 DEF ShmNext
<1>3. UseInv => FaultsFindArea
  BY DEF UseInv, Use, Found, Leads, FaultsFindArea
<1> QED BY <1>1, <1>2, <1>3, InitType, ShmTypeStep, PTL DEF ShmSpec

=============================================================================
