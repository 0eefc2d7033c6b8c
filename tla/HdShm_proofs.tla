---------------------------- MODULE HdShm_proofs ----------------------------
(***************************************************************************)
(* For every number of processes, areas, entries and pages: the driver's   *)
(* state keeps its types; and as long as its lock has kept the processes   *)
(* apart, areas never share a page, the usage of an area covers the files  *)
(* that have noted it, and what is destroyed is mapped by nobody.          *)
(*                                                                         *)
(* Each invariant is strengthened by what a process holds between the two  *)
(* halves of a system call (Held, ClaimValid, MapValid): a search is only  *)
(* worth something while nobody else changes the table.                    *)
(***************************************************************************)
EXTENDS HdShm, FiniteSetTheorems, SequenceTheorems, WellFoundedInduction, TLAPS

(* A set of numbers that is not empty has a least one. *)
LEMMA Least ==
  ASSUME NEW T, T \subseteq Nat, T # {}
  PROVE  \E x \in T : \A y \in T : x <= y
<1> DEFINE R == {ss \in Nat \X Nat : ss[1] < ss[2]}
<1>1. R = OpToRel(<, Nat)
  BY Zenon DEF OpToRel
<1>2. IsWellFoundedOn(R, Nat)
  <2> HIDE DEF R
  <2> QED BY Zenon, NatLessThanWellFounded, <1>1
<1>3. \E x \in T : \A y \in T : ~(<<y, x>> \in R)
  <2> HIDE DEF R
  <2> QED BY Zenon, <1>2, WFMin
<1>4. \A x, y \in Nat : <<y, x>> \in R <=> y < x
  OBVIOUS
<1> HIDE DEF R
<1>5. PICK x \in T : \A y \in T : ~(<<y, x>> \in R)
  BY <1>3
<1>6. ASSUME NEW y \in T PROVE x <= y
  <2>1. x \in Nat /\ y \in Nat
    OBVIOUS
  <2>2. ~(y < x)
    BY <1>4, <1>5, <2>1
  <2> QED BY <2>1, <2>2
<1> QED BY <1>6

(* hdshm_find_area and hdshm_find_free_entry find what they look for. *)
LEMMA FindIs ==
  ASSUME NEW i, Live(i)
  PROVE  Find(i) \in Entries /\ ids[Find(i)] = i
<1> DEFINE T == {e \in Entries : ids[e] = i}
<1>1. T \subseteq Nat /\ T # {}
  BY TableAssumption DEF Live, Entries
<1>2. PICK e \in T : \A d \in T : e <= d
  BY <1>1, Least
<1>3. \A d \in 1..(e - 1) : ids[d] # i
  BY <1>2, TableAssumption DEF Entries
<1>4. e \in Entries /\ ids[e] = i
  BY <1>2
<1> QED BY <1>3, <1>4 DEF Find

(* The allocator finds a run of unmarked pages within the window. *)
LEMMA FirstFitIs ==
  ASSUME NEW n, Fits(n) # {}
  PROVE  FirstFit(n) \in Fits(n)
<1>1. Fits(n) \subseteq Nat
  BY TableAssumption DEF Fits, Pages
<1>2. PICK s \in Fits(n) : \A t \in Fits(n) : s <= t
  BY <1>1, Least
<1> QED BY <1>2 DEF FirstFit

Entry == [usage : Int, dma : BOOLEAN, start : Nat, pages : Nat]

(* Unmapping changes counts only. *)
LEMMA UnmapSubIs ==
  ASSUME TypeOK, NEW S, UnmapSub(S)
  PROVE  /\ entries' \in [Entries -> Entry]
         /\ totals' \in [{"hd", "host"} -> Int]
         /\ \A e \in Entries : /\ entries'[e].dma = entries[e].dma
                               /\ entries'[e].start = entries[e].start
                               /\ entries'[e].pages = entries[e].pages
<1> DEFINE hit == {e \in Entries : \E i \in S : Live(i) /\ Find(i) = e}
           of(m) == Cardinality({e \in hit : Memory(e) = m})
<1>1. entries' = [e \in Entries |->
          IF e \in hit THEN [entries[e] EXCEPT !.usage = @ - 1] ELSE entries[e]]
  BY DEF UnmapSub
<1>2. totals' = [m \in {"hd", "host"} |-> totals[m] - of(m)]
  BY DEF UnmapSub
<1>3. ASSUME NEW m PROVE of(m) \in Nat
  <2>1. IsFiniteSet(Entries)
    BY FS_Interval, TableAssumption DEF Entries
  <2>2. {e \in hit : Memory(e) = m} \subseteq Entries
    OBVIOUS
  <2> QED BY <2>1, <2>2, FS_Subset, FS_CardinalityType
<1> HIDE DEF of, hit
<1>4. totals' \in [{"hd", "host"} -> Int]
  BY <1>2, <1>3 DEF TypeOK
<1>5. entries \in [Entries -> Entry]
  BY DEF TypeOK, Entry
<1>6. entries' \in [Entries -> Entry]
  BY <1>1, <1>5 DEF Entry
<1>7. \A e \in Entries : /\ entries'[e].dma = entries[e].dma
                         /\ entries'[e].start = entries[e].start
                         /\ entries'[e].pages = entries[e].pages
  BY <1>1, <1>5 DEF Entry
<1> QED BY <1>4, <1>6, <1>7

-----------------------------------------------------------------------------
(* Types, in groups of variables. *)

TableType ==
    /\ ids \in [Entries -> Ids \cup {NoId}]
    /\ entries \in [Entries -> Entry]
    /\ alloc \subseteq Pages
    /\ totals \in [{"hd", "host"} -> Int]

LockType ==
    /\ lock \in Int
    /\ tries \in [Files -> Nat]
    /\ seen \in [Files -> Int]
    /\ raced \in BOOLEAN

Mapping == [id : Ids, area : SUBSET Nat]

FileType ==
    /\ selected \in [Files -> Ids \cup {NoId}]
    /\ slots \in [Files -> SUBSET Ids]
    /\ maps \in [Files -> Seq(Mapping)]

Ioctls == {"none", "GET", "SET_ID", "MMAP", "CREATE", "UNMAP", "DESTROY", "RELEASE"}
Phases == {"user", "dec", "decStore", "in", "do", "inc", "incStore"}

CallType ==
    /\ ioctl \in [Files -> Ioctls]
    /\ arg \in [Files -> [id : Ids \cup {NoId}, pages : Nat]]
    /\ phase \in [Files -> Phases]
    /\ found \in [Files -> [entry : Entries \cup {0}, start : Nat]]
    /\ calls \in 0..MaxCalls
    /\ wiped \in BOOLEAN

(* The type invariant in parts, so that a step is checked part by part.      *)
LEMMA TypeParts == TypeOK <=> TableType /\ LockType /\ FileType /\ CallType
BY DEF TypeOK, TableType, LockType, FileType, CallType, Entry, Mapping, Ioctls, Phases

(* What a file holds between the two halves of a system call: an entry, and  *)
(* a selected area when it is about to map one.                              *)
Held ==
    \A f \in Files :
        /\ phase[f] = "do" => found[f].entry \in Entries
        /\ phase[f] \in {"dec", "decStore", "in", "do"} /\ ioctl[f] = "MMAP"
              => selected[f] # NoId

TypeInv == TableType /\ LockType /\ FileType /\ CallType /\ Held

(* hdshm_init_struct_hd sets up a table of the right types.                  *)
LEMMA InitType == Init => TypeInv
<1> SUFFICES ASSUME Init PROVE TypeInv
  OBVIOUS
<1>1. TableType
  BY TableAssumption DEF Init, TableType, Entry, Pages
<1>2. LockType
  <2>1. raced \in BOOLEAN
    BY Zenon DEF Init
  <2> QED BY <2>1 DEF Init, LockType
<1>3. FileType
  <2>1. <<>> \in Seq(Mapping)
    BY Zenon, EmptySeq
  <2> QED BY <2>1 DEF Init, FileType
<1>4. CallType
  <2>1. wiped \in BOOLEAN
    BY Zenon DEF Init
  <2> QED BY <2>1, TableAssumption DEF Init, CallType, Ioctls, Phases, NoArg, Nowhere
<1>5. Held
  BY DEF Init, Held
<1> QED BY <1>1, <1>2, <1>3, <1>4, <1>5 DEF TypeInv

(* Down keeps the types.                                                     *)
LEMMA DownType ==
  ASSUME TypeInv, NEW f \in Files, Down(f)
  PROVE  TypeInv'
<1> USE DEF TypeInv
<1>1. TableType'
  BY DEF TableType, table, Down
<1>2. LockType'
  BY DEF LockType, locking, Down
<1>3. FileType'
  BY DEF FileType, filevars, Down
<1>4. CallType'
  BY DEF CallType, Ioctls, Phases, Goto, Down
<1>5. Held'
  BY DEF Held, CallType, FileType, Phases, Ioctls, Goto, filevars, Down
<1> QED BY <1>1, <1>2, <1>3, <1>4, <1>5

(* MmapNothing keeps the types.                                              *)
LEMMA MmapNothingType ==
  ASSUME TypeInv, NEW f \in Files, MmapNothing(f)
  PROVE  TypeInv'
<1> USE DEF TypeInv
<1>1. TableType'
  BY DEF TableType, table, MmapNothing, Then, NoArg
<1>2. LockType'
  BY DEF LockType, locking, MmapNothing, Then, NoArg
<1>3. FileType'
  BY DEF FileType, filevars, MmapNothing, Then, NoArg
<1>4. CallType'
  BY DEF CallType, Ioctls, Phases, Goto, MmapNothing, Then, NoArg
<1>5. Held'
  BY DEF Held, CallType, FileType, Phases, Ioctls, Goto, filevars, MmapNothing,
     Then, NoArg
<1> QED BY <1>1, <1>2, <1>3, <1>4, <1>5

(* LockLoad keeps the types.                                                 *)
LEMMA LockLoadType ==
  ASSUME TypeInv, NEW f \in Files, LockLoad(f)
  PROVE  TypeInv'
<1> USE DEF TypeInv
<1>1. TableType'
  BY DEF TableType, table, LockLoad
<1>2. LockType'
  BY DEF LockType, locking, LockLoad
<1>3. FileType'
  BY DEF FileType, filevars, LockLoad
<1>4. CallType'
  BY DEF CallType, Ioctls, Phases, Goto, LockLoad
<1>5. Held'
  BY DEF Held, CallType, FileType, Phases, Ioctls, Goto, filevars, LockLoad
<1> QED BY <1>1, <1>2, <1>3, <1>4, <1>5

(* LockStore keeps the types.                                                *)
LEMMA LockStoreType ==
  ASSUME TypeInv, NEW f \in Files, LockStore(f)
  PROVE  TypeInv'
<1> USE DEF TypeInv
<1>1. TableType'
  BY DEF TableType, table, LockStore
<1>2. LockType'
  <2>1. lock' \in Int /\ seen' \in [Files -> Int]
    BY DEF LockType, LockStore
  <2>2. tries' \in [Files -> Nat]
    BY DEF LockType, LockStore, Enter
  <2>3. raced' \in BOOLEAN
    BY Zenon DEF LockType, LockStore, Enter
  <2> QED BY <2>1, <2>2, <2>3 DEF LockType
<1>3. FileType'
  BY DEF FileType, filevars, LockStore
<1>4. CallType'
  BY DEF CallType, Ioctls, Phases, Goto, LockStore, Enter
<1>5. Held'
  BY DEF Held, CallType, FileType, Phases, Ioctls, Goto, filevars, LockStore, Enter
<1> QED BY <1>1, <1>2, <1>3, <1>4, <1>5

(* UnlockLoad keeps the types.                                               *)
LEMMA UnlockLoadType ==
  ASSUME TypeInv, NEW f \in Files, UnlockLoad(f)
  PROVE  TypeInv'
<1> USE DEF TypeInv
<1>1. TableType'
  BY DEF TableType, table, UnlockLoad
<1>2. LockType'
  BY DEF LockType, locking, UnlockLoad
<1>3. FileType'
  BY DEF FileType, filevars, UnlockLoad
<1>4. CallType'
  BY DEF CallType, Ioctls, Phases, Goto, UnlockLoad
<1>5. Held'
  BY DEF Held, CallType, FileType, Phases, Ioctls, Goto, filevars, UnlockLoad
<1> QED BY <1>1, <1>2, <1>3, <1>4, <1>5

(* UnlockStore keeps the types.                                              *)
LEMMA UnlockStoreType ==
  ASSUME TypeInv, NEW f \in Files, UnlockStore(f)
  PROVE  TypeInv'
<1> USE DEF TypeInv
<1>1. TableType'
  BY DEF TableType, table, UnlockStore
<1>2. LockType'
  BY DEF LockType, locking, UnlockStore
<1>3. FileType'
  BY DEF FileType, filevars, UnlockStore
<1>4. CallType'
  BY DEF CallType, Ioctls, Phases, Goto, UnlockStore
<1>5. Held'
  BY DEF Held, CallType, FileType, Phases, Ioctls, Goto, filevars, UnlockStore
<1> QED BY <1>1, <1>2, <1>3, <1>4, <1>5

(* GetArea keeps the types.                                                  *)
LEMMA GetAreaType ==
  ASSUME TypeInv, NEW f \in Files, GetArea(f)
  PROVE  TypeInv'
<1> USE DEF TypeInv
<1>1. TableType'
  BY DEF TableType, table, GetArea, In, Done, Then, NoArg, Nowhere
<1>2. LockType'
  BY DEF LockType, locking, GetArea, In, Done, Then, NoArg, Nowhere
<1>3. FileType'
  BY DEF FileType, filevars, GetArea, In, Done, Then, NoArg, Nowhere
<1>4. CallType'
  BY DEF CallType, Ioctls, Phases, Goto, GetArea, In, Done, Then, NoArg, Nowhere
<1>5. Held'
  BY DEF Held, CallType, FileType, Phases, Ioctls, Goto, filevars, GetArea, In,
     Done, Then, NoArg, Nowhere
<1> QED BY <1>1, <1>2, <1>3, <1>4, <1>5

(* SetId keeps the types.                                                    *)
LEMMA SetIdType ==
  ASSUME TypeInv, NEW f \in Files, SetId(f)
  PROVE  TypeInv'
<1> USE DEF TypeInv
<1>1. TableType'
  BY DEF TableType, table, SetId, In, Done, Then, NoArg, Nowhere
<1>2. LockType'
  BY DEF LockType, locking, SetId, In, Done, Then, NoArg, Nowhere
<1>3. FileType'
  BY DEF FileType, CallType, SetId, In, Done, Then, NoArg, Nowhere
<1>4. CallType'
  BY DEF CallType, Ioctls, Phases, Goto, SetId, In, Done, Then, NoArg, Nowhere
<1>5. Held'
  BY DEF Held, CallType, FileType, Phases, Ioctls, Goto, filevars, SetId, In,
     Done, Then, NoArg, Nowhere
<1> QED BY <1>1, <1>2, <1>3, <1>4, <1>5

(* CreateRefused keeps the types.                                            *)
LEMMA CreateRefusedType ==
  ASSUME TypeInv, NEW f \in Files, CreateRefused(f)
  PROVE  TypeInv'
<1> USE DEF TypeInv
<1>1. TableType'
  BY DEF TableType, table, CreateRefused, In, Done, Then, NoArg, Nowhere
<1>2. LockType'
  BY DEF LockType, locking, CreateRefused, In, Done, Then, NoArg, Nowhere
<1>3. FileType'
  BY DEF FileType, filevars, CreateRefused, In, Done, Then, NoArg, Nowhere
<1>4. CallType'
  <2>1. PICK next \in {"GET", "none"} : Done(f, next)
    BY Zenon DEF CreateRefused
  <2> QED BY <2>1 DEF CallType, Ioctls, Phases, Goto, Done, Then, NoArg, Nowhere
<1>5. Held'
  BY DEF Held, CallType, FileType, Phases, Ioctls, Goto, filevars,
     CreateRefused, In, Done, Then, NoArg, Nowhere
<1> QED BY <1>1, <1>2, <1>3, <1>4, <1>5

(* CreateFind keeps the types.                                               *)
LEMMA CreateFindType ==
  ASSUME TypeInv, NEW f \in Files, CreateFind(f)
  PROVE  TypeInv'
<1> USE DEF TypeInv
<1>1. TableType'
  BY DEF TableType, table, CreateFind, In
<1>2. LockType'
  BY DEF LockType, locking, CreateFind, In
<1>3. FileType'
  BY DEF FileType, filevars, CreateFind, In
<1>4. CallType'
  BY FindIs, FirstFitIs, DmaAssumption, TableAssumption DEF CallType, Ioctls,
     Phases, Goto, CreateFind, In, Fits, Pages
<1>5. Held'
  BY FindIs DEF Held, CallType, FileType, Phases, Ioctls, Goto, filevars, CreateFind, In
<1> QED BY <1>1, <1>2, <1>3, <1>4, <1>5

(* CreateClaim keeps the types.                                              *)
LEMMA CreateClaimType ==
  ASSUME TypeInv, NEW f \in Files, CreateClaim(f)
  PROVE  TypeInv'
<1> USE DEF TypeInv
<1>1. TableType'
  <2> DEFINE e == found[f].entry
             s == found[f].start
             n == arg[f].pages
             dma == arg[f].id \in DmaIds
  <2>1. e \in Entries /\ s \in Nat /\ n \in Nat /\ arg[f].id \in Ids \cup {NoId}
    BY DEF CreateClaim, Held, CallType
  <2>2. alloc' \subseteq Pages
    <3>1. alloc' = alloc \/ alloc' = Mark(s, n)
      BY Zenon DEF CreateClaim
    <3>2. alloc \subseteq Pages
      BY DEF TableType
    <3> HIDE DEF s, n
    <3>3. Mark(s, n) \subseteq Pages
      BY <2>1, <3>2, TableAssumption DEF Mark, Span, Pages
    <3> QED BY <3>1, <3>2, <3>3
  <2>3. entries' \in [Entries -> Entry]
    <3>1. [usage |-> 0, dma |-> dma, start |-> s, pages |-> n] \in Entry
      BY <2>1 DEF Entry
    <3>2. entries' = [entries EXCEPT ![e] =
                        [usage |-> 0, dma |-> dma, start |-> s, pages |-> n]]
      BY DEF CreateClaim
    <3> QED BY <3>1, <3>2 DEF TableType
  <2>4. ids' \in [Entries -> Ids \cup {NoId}]
    BY <2>1 DEF CreateClaim, TableType
  <2>5. totals' \in [{"hd", "host"} -> Int]
    BY DEF CreateClaim, TableType
  <2> QED BY <2>2, <2>3, <2>4, <2>5 DEF TableType
<1>2. LockType'
  BY DEF LockType, locking, CreateClaim, Done, Then, NoArg, Nowhere
<1>3. FileType'
  BY DEF FileType, filevars, CreateClaim, Done, Then, NoArg, Nowhere
<1>4. CallType'
  BY DEF CallType, Ioctls, Phases, Goto, CreateClaim, Done, Then, NoArg, Nowhere
<1>5. Held'
  BY DEF Held, CallType, FileType, Phases, Ioctls, Goto, filevars, CreateClaim,
     Done, Then, NoArg, Nowhere
<1> QED BY <1>1, <1>2, <1>3, <1>4, <1>5

(* MmapRefused keeps the types.                                              *)
LEMMA MmapRefusedType ==
  ASSUME TypeInv, NEW f \in Files, MmapRefused(f)
  PROVE  TypeInv'
<1> USE DEF TypeInv
<1>1. TableType'
  BY DEF TableType, table, MmapRefused, In, Done, Then, NoArg, Nowhere
<1>2. LockType'
  BY DEF LockType, locking, MmapRefused, In, Done, Then, NoArg, Nowhere
<1>3. FileType'
  BY DEF FileType, filevars, MmapRefused, In, Done, Then, NoArg, Nowhere
<1>4. CallType'
  BY DEF CallType, Ioctls, Phases, Goto, MmapRefused, In, Done, Then, NoArg, Nowhere
<1>5. Held'
  BY DEF Held, CallType, FileType, Phases, Ioctls, Goto, filevars, MmapRefused,
     In, Done, Then, NoArg, Nowhere
<1> QED BY <1>1, <1>2, <1>3, <1>4, <1>5

(* MmapFind keeps the types.                                                 *)
LEMMA MmapFindType ==
  ASSUME TypeInv, NEW f \in Files, MmapFind(f)
  PROVE  TypeInv'
<1> USE DEF TypeInv
<1>1. TableType'
  BY DEF TableType, table, MmapFind, In
<1>2. LockType'
  BY DEF LockType, locking, MmapFind, In
<1>3. FileType'
  BY DEF FileType, filevars, MmapFind, In
<1>4. CallType'
  BY FindIs DEF CallType, Ioctls, Phases, Goto, MmapFind, In
<1>5. Held'
  BY FindIs DEF Held, CallType, FileType, Phases, Ioctls, Goto, filevars, MmapFind, In
<1> QED BY <1>1, <1>2, <1>3, <1>4, <1>5

(* MmapClaim keeps the types.                                                *)
LEMMA MmapClaimType ==
  ASSUME TypeInv, NEW f \in Files, MmapClaim(f)
  PROVE  TypeInv'
<1> USE DEF TypeInv
<1>1. TableType'
  <2>1. entries' \in [Entries -> Entry]
    <3> DEFINE e == found[f].entry
    <3>1. e \in Entries
      BY DEF MmapClaim, Held
    <3>2. entries' = [entries EXCEPT ![e] = [entries[e] EXCEPT !.usage = @ + 1]]
      BY DEF MmapClaim
    <3>3. entries[e] \in Entry
      BY <3>1 DEF TableType
    <3>4. [entries[e] EXCEPT !.usage = @ + 1] \in Entry
      <4> HIDE DEF e
      <4> QED BY <3>3 DEF Entry
    <3> QED BY <3>2, <3>4 DEF TableType
  <2>2. totals' \in [{"hd", "host"} -> Int]
    BY DEF MmapClaim, TableType, Memory
  <2> QED BY <2>1, <2>2 DEF MmapClaim, TableType
<1>2. LockType'
  BY DEF LockType, locking, MmapClaim, Done, Then, NoArg, Nowhere
<1>3. FileType'
  <2> DEFINE e == found[f].entry
             m == [id |-> selected[f], area |-> Area(e)]
  <2>1. e \in Entries /\ selected[f] \in Ids
    BY DEF MmapClaim, Held, FileType
  <2>2. Area(e) \subseteq Nat
    BY <2>1 DEF Area, Span, TableType, Entry
  <2>3. m \in Mapping
    BY <2>1, <2>2 DEF Mapping
  <2>4. Append(maps[f], m) \in Seq(Mapping)
    <3>1. maps[f] \in Seq(Mapping)
      BY DEF FileType
    <3> HIDE DEF m
    <3> QED BY <2>3, <3>1, AppendProperties
  <2>5. maps' = [maps EXCEPT ![f] = Append(maps[f], m)]
    BY DEF MmapClaim
  <2>6. maps' \in [Files -> Seq(Mapping)]
    <3> HIDE DEF m
    <3> QED BY <2>4, <2>5 DEF FileType
  <2>7. slots' \in [Files -> SUBSET Ids]
    BY <2>1 DEF MmapClaim, FileType
  <2> QED BY <2>6, <2>7 DEF MmapClaim, FileType
<1>4. CallType'
  BY DEF CallType, Ioctls, Phases, Goto, MmapClaim, Done, Then, NoArg, Nowhere
<1>5. Held'
  BY DEF Held, CallType, FileType, Phases, Ioctls, Goto, filevars, MmapClaim,
     Done, Then, NoArg, Nowhere
<1> QED BY <1>1, <1>2, <1>3, <1>4, <1>5

(* UnmapArea keeps the types.                                                *)
LEMMA UnmapAreaType ==
  ASSUME TypeInv, NEW f \in Files, UnmapArea(f)
  PROVE  TypeInv'
<1> USE DEF TypeInv
<1>1. TableType'
  BY UnmapSubIs, TypeParts DEF TableType, table, UnmapArea, In, Done, Then,
     NoArg, Nowhere, Entry
<1>2. LockType'
  BY DEF LockType, locking, UnmapArea, In, Done, Then, NoArg, Nowhere
<1>3. FileType'
  BY DEF FileType, filevars, UnmapArea, In, Done, Then, NoArg, Nowhere
<1>4. CallType'
  BY DEF CallType, Ioctls, Phases, Goto, UnmapArea, In, Done, Then, NoArg, Nowhere
<1>5. Held'
  BY DEF Held, CallType, FileType, Phases, Ioctls, Goto, filevars, UnmapArea,
     In, Done, Then, NoArg, Nowhere
<1> QED BY <1>1, <1>2, <1>3, <1>4, <1>5

(* DestroyArea keeps the types.                                              *)
LEMMA DestroyAreaType ==
  ASSUME TypeInv, NEW f \in Files, DestroyArea(f)
  PROVE  TypeInv'
<1> USE DEF TypeInv
<1>1. TableType'
  BY DEF TableType, table, DestroyArea, In, Done, Then, NoArg, Nowhere, Unmark, Span
<1>2. LockType'
  BY DEF LockType, locking, DestroyArea, In, Done, Then, NoArg, Nowhere
<1>3. FileType'
  BY DEF FileType, filevars, DestroyArea, In, Done, Then, NoArg, Nowhere
<1>4. CallType'
  BY DEF CallType, Ioctls, Phases, Goto, DestroyArea, In, Done, Then, NoArg, Nowhere
<1>5. Held'
  BY DEF Held, CallType, FileType, Phases, Ioctls, Goto, filevars, DestroyArea,
     In, Done, Then, NoArg, Nowhere
<1> QED BY <1>1, <1>2, <1>3, <1>4, <1>5

(* Release keeps the types.                                                  *)
LEMMA ReleaseType ==
  ASSUME TypeInv, NEW f \in Files, Release(f)
  PROVE  TypeInv'
<1> USE DEF TypeInv
<1>1. TableType'
  BY UnmapSubIs, TypeParts DEF TableType, table, Release, In, Done, Then, NoArg,
     Nowhere, Entry
<1>2. LockType'
  BY DEF LockType, locking, Release, In, Done, Then, NoArg, Nowhere
<1>3. FileType'
  BY DEF FileType, filevars, Release, In, Done, Then, NoArg, Nowhere
<1>4. CallType'
  BY DEF CallType, Ioctls, Phases, Goto, Release, In, Done, Then, NoArg, Nowhere
<1>5. Held'
  BY DEF Held, CallType, FileType, Phases, Ioctls, Goto, filevars, Release, In,
     Done, Then, NoArg, Nowhere
<1> QED BY <1>1, <1>2, <1>3, <1>4, <1>5

(* Reset keeps the types.                                                    *)
LEMMA ResetType ==
  ASSUME TypeInv, NEW f \in Files, Reset(f)
  PROVE  TypeInv'
<1> USE DEF TypeInv
<1>1. TableType'
  BY DEF TableType, table, Reset
<1>2. LockType'
  BY DEF LockType, locking, Reset
<1>3. FileType'
  BY DEF FileType, filevars, Reset
<1>4. CallType'
  BY TableAssumption DEF CallType, Ioctls, Phases, Goto, Reset
<1>5. Held'
  BY DEF Held, CallType, FileType, Phases, Ioctls, Goto, filevars, Reset
<1> QED BY <1>1, <1>2, <1>3, <1>4, <1>5

(* The end of a process keeps the types.                                     *)
LEMMA ExitType ==
  ASSUME TypeInv, NEW f \in Files, Exit(f)
  PROVE  TypeInv'
<1> USE DEF TypeInv
<1>1. TableType'
  BY DEF TableType, table, Exit, NoArg
<1>2. LockType'
  BY DEF LockType, locking, Exit, NoArg
<1>3. FileType'
  BY EmptySeq DEF FileType, filevars, Exit, NoArg
<1>4. CallType'
  BY TableAssumption DEF CallType, Ioctls, Phases, Goto, Exit, NoArg
<1>5. Held'
  BY DEF Held, CallType, FileType, Phases, Ioctls, Goto, filevars, Exit, NoArg
<1> QED BY <1>1, <1>2, <1>3, <1>4, <1>5

(* The calls of the library: what they have in common, and what each adds.   *)
LEMMA CallStarts ==
  ASSUME TypeInv, NEW f \in Files, NEW first \in Ioctls, NEW i \in Ids, NEW n \in Nat,
         Call(f, first, i, n), maps' \in [Files -> Seq(Mapping)]
  PROVE  TypeInv'
<1> USE DEF TypeInv
<1>1. TableType'
  BY DEF TableType, table, Call
<1>2. LockType'
  BY DEF LockType, locking, Call
<1>3. FileType'
  BY DEF FileType, Call
<1>4. CallType'
  BY TableAssumption DEF CallType, Call
<1>5. Held'
  BY DEF Held, CallType, FileType, Phases, Ioctls, Call
<1> QED BY <1>1, <1>2, <1>3, <1>4, <1>5

(* Every call of the library keeps the types.                                *)
LEMMA LibraryType ==
  ASSUME TypeInv, NEW f \in Files, LibraryCall(f)
  PROVE  TypeInv'
<1>1. ASSUME NEW i \in Ids, NEW n \in Sizes, hd_create_area(f, i, n) PROVE TypeInv'
  <2>1. n \in Nat /\ "CREATE" \in Ioctls
    BY TableAssumption DEF Ioctls
  <2>2. Call(f, "CREATE", i, n) /\ maps' \in [Files -> Seq(Mapping)]
    BY <1>1 DEF hd_create_area, TypeInv, FileType
  <2> QED BY <2>1, <2>2, CallStarts
<1>2. ASSUME NEW i \in Ids, hd_get_area(f, i) PROVE TypeInv'
  <2>1. 0 \in Nat /\ "GET" \in Ioctls
    BY DEF Ioctls
  <2>2. Call(f, "GET", i, 0) /\ maps' \in [Files -> Seq(Mapping)]
    BY <1>2 DEF hd_get_area, TypeInv, FileType
  <2> QED BY <2>1, <2>2, CallStarts
<1>3. ASSUME NEW i \in Ids, hd_destroy_area(f, i) PROVE TypeInv'
  <2>1. 0 \in Nat /\ "DESTROY" \in Ioctls
    BY DEF Ioctls
  <2>2. Call(f, "DESTROY", i, 0) /\ maps' \in [Files -> Seq(Mapping)]
    BY <1>3 DEF hd_destroy_area, TypeInv, FileType
  <2> QED BY <2>1, <2>2, CallStarts
<1>4. ASSUME NEW k \in DOMAIN maps[f], hd_unmap_area(f, k) PROVE TypeInv'
  <2>1. 0 \in Nat /\ "UNMAP" \in Ioctls
    BY DEF Ioctls
  <2>2. maps[f] \in Seq(Mapping)
    BY DEF TypeInv, FileType
  <2>3. k \in 1..Len(maps[f]) /\ Len(maps[f]) \in Nat
    BY <2>2
  <2>4. maps[f][k].id \in Ids
    <3>1. maps[f][k] \in Mapping
      BY <2>2, <2>3
    <3> QED BY <3>1 DEF Mapping
  <2>5. SubSeq(maps[f], 1, k - 1) \in Seq(Mapping)
    <3>1. \A j \in 1..(k - 1) : maps[f][j] \in Mapping
      BY <2>2, <2>3
    <3>2. 1 \in Int /\ k - 1 \in Int
      BY <2>3
    <3> QED BY <3>1, <3>2, SubSeqProperties
  <2>6. SubSeq(maps[f], k + 1, Len(maps[f])) \in Seq(Mapping)
    <3>1. \A j \in (k + 1)..Len(maps[f]) : maps[f][j] \in Mapping
      BY <2>2, <2>3
    <3>2. k + 1 \in Int /\ Len(maps[f]) \in Int
      BY <2>3
    <3> QED BY <3>1, <3>2, SubSeqProperties
  <2>7. SubSeq(maps[f], 1, k - 1) \o SubSeq(maps[f], k + 1, Len(maps[f])) \in Seq(Mapping)
    BY <2>5, <2>6, ConcatProperties
  <2>8. maps' \in [Files -> Seq(Mapping)]
    BY <1>4, <2>7 DEF hd_unmap_area, TypeInv, FileType
  <2>9. Call(f, "UNMAP", maps[f][k].id, 0)
    BY <1>4 DEF hd_unmap_area
  <2> QED BY <2>1, <2>4, <2>8, <2>9, CallStarts
<1>5. ASSUME Exit(f) PROVE TypeInv'
  BY <1>5, ExitType
<1>6. ASSUME Reset(f) PROVE TypeInv'
  BY <1>6, ResetType
<1> QED BY <1>1, <1>2, <1>3, <1>4, <1>5, <1>6 DEF LibraryCall

(* A stuttering step keeps the types.                                        *)
LEMMA StutterType == TypeInv /\ UNCHANGED vars => TypeInv'
BY DEF TypeInv, TableType, LockType, FileType, CallType, Held, vars, table, filevars, locking

(* Every step of a process keeps the types.                                  *)
LEMMA StepType ==
  ASSUME TypeInv, NEW f \in Files, Step(f)
  PROVE  TypeInv'
<1>1. CASE Down(f)
  BY <1>1, DownType
<1>2. CASE MmapNothing(f)
  BY <1>2, MmapNothingType
<1>3. CASE LockLoad(f)
  BY <1>3, LockLoadType
<1>4. CASE LockStore(f)
  BY <1>4, LockStoreType
<1>5. CASE UnlockLoad(f)
  BY <1>5, UnlockLoadType
<1>6. CASE UnlockStore(f)
  BY <1>6, UnlockStoreType
<1>7. CASE Body(f)
  BY <1>7, GetAreaType, SetIdType, CreateRefusedType, CreateFindType, CreateClaimType,
     MmapRefusedType, MmapFindType, MmapClaimType, UnmapAreaType, DestroyAreaType,
     ReleaseType DEF Body
<1> QED BY <1>1, <1>2, <1>3, <1>4, <1>5, <1>6, <1>7 DEF Step

(* The types hold in every behaviour.                                        *)
LEMMA TypeInvariance == Spec => []TypeInv
<1>1. TypeInv /\ [Next]_vars => TypeInv'
  BY StepType, LibraryType, StutterType DEF Next
<1> QED BY <1>1, InitType, PTL DEF Spec

(* The table, the lock and the files keep their types. *)
THEOREM TypeCorrect == Spec => []TypeOK
<1>1. TypeInv => TypeOK
  BY TypeParts DEF TypeInv
<1> QED BY <1>1, TypeInvariance, PTL

-----------------------------------------------------------------------------
(* The areas stay apart as long as the lock has kept the processes apart.    *)

Separate ==
    \A e, d \in Entries : ids[e] # NoId =>
        /\ Area(e) \subseteq alloc \ (0..(RootPages - 1))
        /\ (d # e /\ ids[d] # NoId) => /\ ids[d] # ids[e]
                                       /\ Area(d) \cap Area(e) = {}

(* Host memory is never taken for pages of the window.                       *)
DmaOutside ==
    \A e \in Entries : entries[e].dma => entries[e].start >= NPages

RootMarked == 0..(RootPages - 1) \subseteq alloc

Claiming(f) == phase[f] = "do" /\ ioctl[f] = "CREATE"

(* What create has found is still so when it writes.                         *)
ClaimValid ==
    \A f \in Files : Claiming(f) =>
        /\ ids[found[f].entry] = NoId
        /\ arg[f].id # NoId /\ ~Live(arg[f].id)
        /\ arg[f].id \in DmaIds => found[f].start >= NPages
        /\ arg[f].id \notin DmaIds =>
              /\ found[f].start + arg[f].pages <= NPages
              /\ Span(found[f].start, arg[f].pages) \cap alloc = {}

Safe == TableLocked /\ Separate /\ DmaOutside /\ RootMarked /\ ClaimValid

IInv == TypeInv /\ (~raced => Safe)

(* A step is quiet when it leaves the areas where they are, lets nobody into *)
(* the table and touches nothing a claim rests on.                           *)
Layout(e) == [dma |-> entries[e].dma, start |-> entries[e].start, pages |-> entries[e].pages]

SameTable ==
    /\ ids' = ids /\ alloc' = alloc
    /\ \A e \in Entries : /\ entries'[e].dma = entries[e].dma
                          /\ entries'[e].start = entries[e].start
                          /\ entries'[e].pages = entries[e].pages

SameClaims ==
    \A f \in Files : Claiming(f)' => /\ Claiming(f)
                                     /\ arg'[f] = arg[f] /\ found'[f] = found[f]

NobodyEnters == \A f \in Files : InTable(f)' => InTable(f)

(* Quiet steps keep what a claim rests on.                                   *)
LEMMA QuietParts ==
  ASSUME Safe, SameTable, SameClaims
  PROVE  Separate' /\ DmaOutside' /\ RootMarked' /\ ClaimValid'
<1>1. \A e \in Entries : Area(e)' = Area(e)
  BY DEF SameTable, Area
<1>2. Separate'
  BY <1>1 DEF Safe, Separate, SameTable
<1>3. DmaOutside'
  BY DEF Safe, DmaOutside, SameTable
<1>4. RootMarked'
  BY DEF Safe, RootMarked, SameTable
<1>5. ClaimValid'
  BY DEF Safe, ClaimValid, SameTable, SameClaims, Live
<1> QED BY <1>2, <1>3, <1>4, <1>5

(* A quiet step keeps the areas apart.                                       *)
LEMMA QuietSafe ==
  ASSUME Safe, SameTable, SameClaims, NobodyEnters
  PROVE  Safe'
<1>1. TableLocked'
  BY DEF Safe, TableLocked, NobodyEnters
<1> QED BY <1>1, QuietParts DEF Safe

(* The steps that are quiet.                                                 *)
LEMMA QuietSteps ==
  ASSUME TypeInv, NEW f \in Files,
         \/ Down(f) \/ MmapNothing(f) \/ LockLoad(f) \/ UnlockLoad(f) \/ UnlockStore(f)
         \/ GetArea(f) \/ SetId(f) \/ CreateRefused(f) \/ MmapRefused(f) \/ MmapFind(f)
         \/ MmapClaim(f) \/ UnmapArea(f) \/ Release(f)
  PROVE  SameTable /\ SameClaims /\ NobodyEnters /\ raced' = raced
<1>1. CASE Down(f)
  BY <1>1 DEF Down, SameTable, SameClaims, NobodyEnters, Claiming, InTable,
     Goto, Done, Then, In, table, locking, TypeInv, CallType
<1>2. CASE MmapNothing(f)
  BY <1>2 DEF MmapNothing, SameTable, SameClaims, NobodyEnters, Claiming,
     InTable, Goto, Done, Then, In, table, locking, TypeInv, CallType
<1>3. CASE LockLoad(f)
  BY <1>3 DEF LockLoad, SameTable, SameClaims, NobodyEnters, Claiming, InTable,
     Goto, Done, Then, In, table, locking, TypeInv, CallType
<1>4. CASE UnlockLoad(f)
  BY <1>4 DEF UnlockLoad, SameTable, SameClaims, NobodyEnters, Claiming,
     InTable, Goto, Done, Then, In, table, locking, TypeInv, CallType
<1>5. CASE UnlockStore(f)
  BY <1>5 DEF UnlockStore, SameTable, SameClaims, NobodyEnters, Claiming,
     InTable, Goto, Done, Then, In, table, locking, TypeInv, CallType
<1>6. CASE GetArea(f)
  BY <1>6 DEF GetArea, SameTable, SameClaims, NobodyEnters, Claiming, InTable,
     Goto, Done, Then, In, table, locking, TypeInv, CallType
<1>7. CASE SetId(f)
  BY <1>7 DEF SetId, SameTable, SameClaims, NobodyEnters, Claiming, InTable,
     Goto, Done, Then, In, table, locking, TypeInv, CallType
<1>8. CASE CreateRefused(f)
  <2>1. PICK next \in {"GET", "none"} : Done(f, next)
    BY <1>8, Zenon DEF CreateRefused
  <2>2. SameTable
    BY <1>8 DEF CreateRefused, SameTable, table
  <2>3. phase[f] = "in"
    BY <1>8 DEF CreateRefused, In
  <2> QED BY <2>1, <2>2, <2>3 DEF SameClaims, NobodyEnters, Claiming, InTable, Goto, Done, Then, locking, TypeInv, CallType
<1>9. CASE MmapRefused(f)
  BY <1>9 DEF MmapRefused, SameTable, SameClaims, NobodyEnters, Claiming,
     InTable, Goto, Done, Then, In, table, locking, TypeInv, CallType
<1>10. CASE MmapFind(f)
  BY <1>10 DEF MmapFind, SameTable, SameClaims, NobodyEnters, Claiming, InTable,
     Goto, Done, Then, In, table, locking, TypeInv, CallType
<1>11. CASE MmapClaim(f)
  <2>1. SameTable
    BY <1>11 DEF MmapClaim, SameTable, TypeInv, TableType, Entry, Held
  <2>2. SameClaims /\ NobodyEnters /\ raced' = raced
    BY <1>11 DEF MmapClaim, SameClaims, NobodyEnters, Claiming, InTable, Goto,
       Done, Then, locking, TypeInv, CallType
  <2> QED BY <2>1, <2>2
<1>12. CASE UnmapArea(f)
  <2>1. SameTable
    BY <1>12, UnmapSubIs, TypeParts DEF UnmapArea, SameTable, TypeInv
  <2>2. SameClaims /\ NobodyEnters /\ raced' = raced
    BY <1>12 DEF UnmapArea, SameClaims, NobodyEnters, Claiming, InTable, Goto,
       Done, Then, In, locking, TypeInv, CallType
  <2> QED BY <2>1, <2>2
<1>13. CASE Release(f)
  <2>1. SameTable
    BY <1>13, UnmapSubIs, TypeParts DEF Release, SameTable, TypeInv
  <2>2. SameClaims /\ NobodyEnters /\ raced' = raced
    BY <1>13 DEF Release, SameClaims, NobodyEnters, Claiming, InTable, Goto,
       Done, Then, In, locking, TypeInv, CallType
  <2> QED BY <2>1, <2>2
<1> QED BY <1>1, <1>2, <1>3, <1>4, <1>5, <1>6, <1>7, <1>8, <1>9, <1>10, <1>11, <1>12, <1>13

(* So are the calls of the library, but for a reset.                         *)
LEMMA LibraryQuiet ==
  ASSUME TypeInv, NEW f \in Files, LibraryCall(f), ~Reset(f)
  PROVE  SameTable /\ SameClaims /\ NobodyEnters /\ raced' = raced
<1>1. PICK g \in Files : /\ phase[g] = "user" /\ g = f
                         /\ phase' = phase
                         /\ UNCHANGED <<table, locking, found>>
                         /\ \A h \in Files \ {g} : arg'[h] = arg[h] /\ ioctl'[h] = ioctl[h]
  BY DEF LibraryCall, hd_create_area, hd_get_area, hd_destroy_area,
     hd_unmap_area, Call, Exit,
         TypeInv, CallType
<1> QED BY <1>1 DEF SameTable, SameClaims, NobodyEnters, Claiming, InTable, table, locking

(* At boot the table is empty and only its own pages are marked.             *)
LEMMA InitSafe == Init => Safe
BY TableAssumption DEF Init, Safe, TableLocked, Separate, DmaOutside, RootMarked, ClaimValid,
   Claiming, InTable

(* Only LockStore lets a process in; if another is there, raced becomes true.*)
LEMMA LockStoreSafe ==
  ASSUME IInv, NEW f \in Files, LockStore(f), ~raced'
  PROVE  Safe'
<1>1. ~raced /\ Safe
  <2>1. Enter(f) \/ raced' = raced
    BY Zenon DEF LockStore
  <2>2. CASE Enter(f)
    BY Zenon, <2>2 DEF Enter, IInv
  <2>3. CASE raced' = raced
    BY Zenon, <2>3 DEF IInv
  <2> QED BY Zenon, <2>1, <2>2, <2>3
<1>2. SameTable /\ SameClaims
  BY DEF LockStore, Enter, Goto, SameTable, SameClaims, Claiming, table, IInv,
     TypeInv, CallType
<1>3. TableLocked'
  <2>1. CASE Enter(f)
    <3>1. \A g \in Files \ {f} : ~InTable(g)
      BY <2>1 DEF Enter
    <3>2. \A g \in Files \ {f} : phase'[g] = phase[g]
      BY <2>1 DEF Enter, Goto, IInv, TypeInv, CallType
    <3> QED BY <3>1, <3>2 DEF TableLocked, InTable
  <2>2. CASE Goto(f, "dec")
    BY <1>1, <2>2 DEF Safe, TableLocked, InTable, Goto, IInv, TypeInv, CallType
  <2> QED BY <2>1, <2>2 DEF LockStore
<1> QED BY <1>1, <1>2, <1>3, QuietParts DEF Safe

(* What create finds is free.                                                *)
LEMMA CreateFindSafe ==
  ASSUME TypeInv, Safe, NEW f \in Files, CreateFind(f)
  PROVE  Safe'
<1>1. UNCHANGED <<ids, entries, alloc, arg, ioctl>>
  BY DEF CreateFind, table
<1>2. /\ In(f, "CREATE") /\ ~Live(arg[f].id) /\ Live(NoId)
      /\ phase' = [phase EXCEPT ![f] = "do"]
  BY DEF CreateFind, Goto
<1>3. TableLocked'
  BY <1>2 DEF Safe, TableLocked, InTable, In, TypeInv, CallType
<1>4. Separate' /\ DmaOutside' /\ RootMarked'
  <2>1. \A e \in Entries : Area(e)' = Area(e)
    BY <1>1 DEF Area
  <2> QED BY <1>1, <2>1 DEF Safe, Separate, DmaOutside, RootMarked
<1>5. ClaimValid'
  <2>1. ASSUME NEW g \in Files, Claiming(g)' PROVE g = f
    BY <1>1, <1>2, <2>1 DEF Claiming, In, Safe, TableLocked, InTable, TypeInv, CallType
  <2>2. arg[f].id # NoId
    BY <1>2
  <2>3. /\ found'[f].entry = Find(NoId)
        /\ arg[f].id \in DmaIds => found'[f].start \in DmaPhys
        /\ arg[f].id \notin DmaIds => /\ Fits(arg[f].pages) # {}
                                      /\ found'[f].start = FirstFit(arg[f].pages)
    BY DEF CreateFind, TypeInv, CallType
  <2>4. ids[found'[f].entry] = NoId
    BY <1>2, <2>3, FindIs
  <2>5. arg[f].id \in DmaIds => found'[f].start >= NPages
    BY <2>3, DmaAssumption
  <2>6. arg[f].id \notin DmaIds =>
            /\ found'[f].start + arg[f].pages <= NPages
            /\ Span(found'[f].start, arg[f].pages) \cap alloc = {}
    BY <2>3, FirstFitIs DEF Fits
  <2> QED BY <1>1, <1>2, <2>1, <2>2, <2>4, <2>5, <2>6 DEF ClaimValid, Live
<1> QED BY <1>3, <1>4, <1>5 DEF Safe

(* Nobody else is in the table while a process is between find and claim.    *)
LEMMA NoOtherClaim ==
  ASSUME TypeInv, Safe, NEW f \in Files, InTable(f), NEW next, Done(f, next)
  PROVE  (\A g \in Files : ~Claiming(g)') /\ NobodyEnters
BY DEF Done, Goto, Then, Safe, TableLocked, InTable, Claiming, NobodyEnters, TypeInv, CallType

(* What create writes: one entry, with pages that were not marked before.    *)
LEMMA ClaimIs ==
  ASSUME TypeInv, Safe, NEW f \in Files, CreateClaim(f), NEW e, e = found[f].entry
  PROVE  /\ e \in Entries /\ alloc \subseteq alloc' /\ Area(e)' \subseteq alloc' \ alloc
         /\ ids'[e] = arg[f].id /\ \A d \in Entries : ids[d] # arg[f].id
         /\ entries'[e].dma => entries'[e].start >= NPages
         /\ \A d \in Entries \ {e} :
              entries'[d] = entries[d] /\ Area(d)' = Area(d) /\ ids'[d] = ids[d]
<1>0. PICK s, n, i : s = found[f].start /\ n = arg[f].pages /\ i = arg[f].id
  OBVIOUS
<1>1. /\ e \in Entries /\ ids[e] = NoId /\ i # NoId /\ ~Live(i)
      /\ i \in DmaIds => s >= NPages
      /\ i \notin DmaIds => s + n <= NPages /\ Span(s, n) \cap alloc = {}
      /\ s \in Nat /\ n \in Nat
  BY <1>0 DEF CreateClaim, Safe, ClaimValid, Claiming, TypeInv, Held, CallType
<1>2. /\ ids' = [ids EXCEPT ![e] = i]
      /\ entries' = [entries EXCEPT ![e] =
            [usage |-> 0, dma |-> i \in DmaIds, start |-> s, pages |-> n]]
      /\ i \in DmaIds => alloc' = alloc
      /\ i \notin DmaIds => alloc' = Mark(s, n)
  BY <1>0 DEF CreateClaim
<1>4. i \notin DmaIds => alloc' = alloc \cup Span(s, n)
  BY <1>1, <1>2, TableAssumption DEF Mark
<1>5. alloc \subseteq alloc'
  BY <1>2, <1>4
<1>6. Area(e)' = IF i \in DmaIds THEN {} ELSE Span(s, n)
  <2>1. entries'[e] = [usage |-> 0, dma |-> i \in DmaIds, start |-> s, pages |-> n]
    BY <1>1, <1>2 DEF TypeInv, TableType
  <2>2. /\ entries'[e].dma = (i \in DmaIds)
        /\ entries'[e].start = s /\ entries'[e].pages = n
    BY <2>1
  <2>3. Area(e)' = IF entries'[e].dma THEN {} ELSE Span(entries'[e].start, entries'[e].pages)
    BY Zenon DEF Area, Span
  <2>4. CASE i \in DmaIds
    BY <2>2, <2>3, <2>4
  <2>5. CASE i \notin DmaIds
    BY <2>2, <2>3, <2>5
  <2> QED BY Zenon, <2>4, <2>5
<1>7. \A d \in Entries \ {e} : /\ entries'[d] = entries[d]
                               /\ Area(d)' = Area(d) /\ ids'[d] = ids[d]
  BY <1>1, <1>2 DEF Area, TypeInv, TableType
<1>8. ids'[e] = i /\ \A d \in Entries : ids[d] # i
  BY <1>1, <1>2 DEF TypeInv, TableType, Live
<1>9. Area(e)' \subseteq alloc' \ alloc
  BY <1>1, <1>4, <1>6
<1>10. entries'[e].dma => entries'[e].start >= NPages
  BY <1>1, <1>2 DEF TypeInv, TableType
<1> QED BY <1>0, <1>1, <1>5, <1>7, <1>8, <1>9, <1>10

(* Writing what create has found keeps the areas apart.                      *)
LEMMA CreateClaimSafe ==
  ASSUME TypeInv, Safe, NEW f \in Files, CreateClaim(f)
  PROVE  Safe'
<1>1. PICK e, i : e = found[f].entry /\ i = arg[f].id
  OBVIOUS
<1>3. (\A g \in Files : ~Claiming(g)') /\ NobodyEnters
  BY NoOtherClaim DEF CreateClaim, InTable
<1>5. e \in Entries /\ alloc \subseteq alloc'
  BY <1>1, ClaimIs
<1>7. \A d \in Entries \ {e} : /\ entries'[d] = entries[d]
                               /\ Area(d)' = Area(d) /\ ids'[d] = ids[d]
  BY <1>1, ClaimIs
<1>8. ids'[e] = i /\ \A d \in Entries : ids[d] # i
  BY <1>1, ClaimIs
<1>9. Area(e)' \subseteq alloc' \ alloc
  BY <1>1, ClaimIs
<1>2. entries'[e].dma => entries'[e].start >= NPages
  BY <1>1, ClaimIs
<1>10. \A d \in Entries \ {e} : ids[d] # NoId => Area(d) \subseteq alloc \ (0..(RootPages - 1))
  BY DEF Safe, Separate
<1>11. Separate'
  <2>1. ASSUME NEW d \in Entries, ids'[d] # NoId
        PROVE  Area(d)' \subseteq alloc' \ (0..(RootPages - 1))
    <3>1. CASE d = e
      <4>1. Area(d)' = Area(e)'
        BY Zenon, <3>1 DEF Area
      <4> QED BY <4>1, <1>9 DEF Safe, RootMarked
    <3>2. CASE d # e
      BY <3>2, <2>1, <1>5, <1>7, <1>10
    <3> QED BY <3>1, <3>2
  <2>2. ASSUME NEW c \in Entries, NEW d \in Entries, c # d, ids'[c] # NoId, ids'[d] # NoId
        PROVE  ids'[d] # ids'[c] /\ Area(d)' \cap Area(c)' = {}
    <3>1. CASE c = e
      <4>1. Area(c)' = Area(e)' /\ ids'[c] = i
        BY Zenon, <3>1, <1>8 DEF Area
      <4>2. Area(d)' = Area(d) /\ ids'[d] = ids[d] /\ Area(d) \subseteq alloc
        BY <3>1, <2>2, <1>7, <1>10
      <4> QED BY <4>1, <4>2, <1>8, <1>9
    <3>2. CASE d = e
      <4>1. Area(d)' = Area(e)' /\ ids'[d] = i
        BY Zenon, <3>2, <1>8 DEF Area
      <4>2. Area(c)' = Area(c) /\ ids'[c] = ids[c] /\ Area(c) \subseteq alloc
        BY <3>2, <2>2, <1>7, <1>10
      <4> QED BY <4>1, <4>2, <1>8, <1>9
    <3>3. CASE c # e /\ d # e
      <4>1. ids[c] # NoId /\ ids[d] # NoId
        BY <3>3, <2>2, <1>7
      <4>2. ids[d] # ids[c] /\ Area(d) \cap Area(c) = {}
        BY <4>1, <2>2 DEF Safe, Separate
      <4> QED BY <4>2, <3>3, <1>7
    <3> QED BY <3>1, <3>2, <3>3
  <2> QED BY <2>1, <2>2 DEF Separate
<1>12. DmaOutside'
  <2>1. ASSUME NEW d \in Entries, entries'[d].dma
        PROVE  entries'[d].start >= NPages
    <3>1. CASE d = e
      BY <3>1, <2>1, <1>2
    <3>2. CASE d # e
      BY <3>2, <2>1, <1>7 DEF Safe, DmaOutside
    <3> QED BY <3>1, <3>2
  <2> QED BY <2>1 DEF DmaOutside
<1>13. RootMarked'
  BY <1>5 DEF Safe, RootMarked
<1>14. TableLocked'
  BY <1>3 DEF Safe, TableLocked, NobodyEnters
<1>15. ClaimValid'
  BY <1>3 DEF ClaimValid
<1> QED BY <1>11, <1>12, <1>13, <1>14, <1>15 DEF Safe

(* A step that only takes areas out of the table keeps the others apart.     *)
LEMMA FewerAreas ==
  ASSUME TypeInv, Safe, alloc' = alloc, entries' = entries,
         \A e \in Entries : ids'[e] \in {ids[e], NoId}
  PROVE  Separate' /\ DmaOutside' /\ RootMarked'
<1>1. \A e \in Entries : Area(e)' = Area(e)
  BY DEF Area
<1>2. \A e \in Entries : ids'[e] # NoId => ids'[e] = ids[e]
  OBVIOUS
<1>3. Separate'
  BY <1>1, <1>2 DEF Safe, Separate
<1> QED BY <1>2, <1>3 DEF Safe, DmaOutside, RootMarked

(* What destroy gives back lies outside of the window.                       *)
LEMMA DestroyIs ==
  ASSUME TypeInv, Safe, NEW f \in Files, DestroyArea(f)
  PROVE  UNCHANGED <<entries, alloc>> /\ \A d \in Entries : ids'[d] \in {ids[d], NoId}
<1> DEFINE i == arg[f].id
           e == Find(i)
<1>1. entries' = entries
  BY DEF DestroyArea
<1>2. alloc' = alloc /\ \A d \in Entries : ids'[d] \in {ids[d], NoId}
  <2>1. CASE ~Destroyable(i)
    BY <2>1 DEF DestroyArea
  <2>2. CASE Destroyable(i)
    <3>1. e \in Entries /\ ids[e] = i /\ entries[e].dma
      BY <2>2, FindIs DEF Destroyable
    <3>2. ids' = [ids EXCEPT ![e] = NoId] /\ alloc' = Unmark(entries[e].start, entries[e].pages)
      BY <2>2 DEF DestroyArea
    <3>3. entries[e].start >= NPages /\ entries[e].start \in Nat /\ entries[e].pages \in Nat
      BY <3>1 DEF Safe, DmaOutside, TypeInv, TableType, Entry
    <3>4. Unmark(entries[e].start, entries[e].pages) = alloc
      BY <3>3, TableAssumption DEF Unmark, Span, TypeInv, TableType, Pages
    <3> QED BY <3>1, <3>2, <3>4 DEF TypeInv, TableType
  <2> QED BY <2>1, <2>2
<1> QED BY <1>1, <1>2

(* Destroying an area gives no page of another one back.                     *)
LEMMA DestroyAreaSafe ==
  ASSUME TypeInv, Safe, NEW f \in Files, DestroyArea(f)
  PROVE  Safe'
<1>1. (\A g \in Files : ~Claiming(g)') /\ NobodyEnters
  BY NoOtherClaim DEF DestroyArea, In, InTable
<1>2. TableLocked' /\ ClaimValid'
  BY <1>1 DEF Safe, TableLocked, NobodyEnters, ClaimValid
<1> QED BY <1>2, DestroyIs, FewerAreas DEF Safe

(* A reset only takes ids away: it can come between the halves of create.    *)
LEMMA ResetSafe ==
  ASSUME TypeInv, Safe, NEW f \in Files, Reset(f)
  PROVE  Safe'
<1>1. /\ UNCHANGED <<entries, alloc, ioctl, arg, phase, found>>
      /\ \A e \in Entries : ids'[e] \in {ids[e], NoId}
  BY DEF Reset
<1>2. Separate' /\ DmaOutside' /\ RootMarked'
  BY <1>1, FewerAreas
<1>3. TableLocked'
  BY <1>1 DEF Safe, TableLocked, InTable
<1>4. ClaimValid'
  <2>1. ASSUME NEW g \in Files, Claiming(g)
        PROVE  ids'[found[g].entry] = NoId /\ (~Live(arg[g].id))'
    <3>1. found[g].entry \in Entries
      BY <2>1 DEF Claiming, TypeInv, Held
    <3>2. ids[found[g].entry] = NoId /\ arg[g].id # NoId /\ ~Live(arg[g].id)
      BY <2>1 DEF Safe, ClaimValid
    <3> QED BY <1>1, <3>1, <3>2 DEF Live
  <2> QED BY <1>1, <2>1 DEF Safe, ClaimValid, Claiming
<1> QED BY <1>2, <1>3, <1>4 DEF Safe

(* The areas stay apart in every behaviour.                                  *)
LEMMA SafeInvariance == Spec => []IInv
<1>1. Init => IInv
  BY InitType, InitSafe DEF IInv
<1>2. ASSUME IInv, [Next]_vars PROVE IInv'
  <2>1. TypeInv'
    BY <1>2, StepType, LibraryType, StutterType DEF Next, IInv
  <2>2. ASSUME ~raced' PROVE Safe'
    <3>1. CASE UNCHANGED vars
      BY <3>1, <2>2, <1>2, QuietSafe
      DEF IInv, vars, table, locking, SameTable, SameClaims, NobodyEnters,
         Claiming, InTable
    <3>2. ASSUME NEW f \in Files, Step(f) PROVE Safe'
      <4>1. CASE LockStore(f)
        BY <4>1, <2>2, <1>2, LockStoreSafe
      <4>2. CASE ~LockStore(f)
        <5>1. CASE CreateFind(f)
          BY <5>1, <2>2, <1>2, CreateFindSafe DEF IInv, CreateFind, locking
        <5>2. CASE CreateClaim(f)
          BY <5>2, <2>2, <1>2, CreateClaimSafe DEF IInv, CreateClaim, Done, locking
        <5>3. CASE DestroyArea(f)
          BY <5>3, <2>2, <1>2, DestroyAreaSafe DEF IInv, DestroyArea, Done, locking
        <5>4. CASE ~(CreateFind(f) \/ CreateClaim(f) \/ DestroyArea(f))
          BY <3>2, <4>2, <5>4, <2>2, <1>2, QuietSteps, QuietSafe DEF IInv, Step, Body
        <5> QED BY <5>1, <5>2, <5>3, <5>4
      <4> QED BY <4>1, <4>2
    <3>3. ASSUME NEW f \in Files, LibraryCall(f) PROVE Safe'
      <4>1. CASE Reset(f)
        BY <4>1, <2>2, <1>2, ResetSafe DEF IInv, Reset, locking
      <4>2. CASE ~Reset(f)
        BY <3>3, <4>2, <2>2, <1>2, LibraryQuiet, QuietSafe DEF IInv
      <4> QED BY <4>1, <4>2
    <3> QED BY <1>2, <3>1, <3>2, <3>3 DEF Next
  <2> QED BY <2>1, <2>2 DEF IInv
<1> QED BY <1>1, <1>2, PTL DEF Spec

(* For every number of processes, areas, entries and pages: as long as the   *)
(* lock has kept the processes apart, areas have ids and pages of their own. *)
THEOREM AreasStayDisjoint == Spec => []AreasDisjoint
<1>1. IInv => AreasDisjoint
  BY DEF IInv, Safe, Separate, AreasDisjoint
<1> QED BY <1>1, SafeInvariance, PTL

-----------------------------------------------------------------------------
(* Usage counts cover the mappings the driver has noted.                     *)

Users(i) == {f \in Files : i \in slots[f]}

Counted ==
    \A e \in Entries : ids[e] # NoId => entries[e].usage >= Cardinality(Users(ids[e]))

(* The driver has noted only areas that are in the table.                    *)
Noted == \A f \in Files : \A i \in slots[f] : Live(i)

MmapHalfway(f) == phase[f] = "do" /\ ioctl[f] = "MMAP"

(* What mmap has found is still so when it counts.                           *)
MapValid ==
    \A f \in Files : MmapHalfway(f) => ids[found[f].entry] = selected[f] /\ selected[f] \notin slots[f]

Use == Counted /\ Noted /\ MapValid

UInv == IInv /\ (~raced /\ ~wiped => Use)

(* Finitely many files use an area.                                          *)
LEMMA UsersFinite ==
  ASSUME NEW i
  PROVE  IsFiniteSet(Users(i)) /\ Cardinality(Users(i)) \in Nat
<1>1. Users(i) \subseteq Files
  BY DEF Users
<1>2. IsFiniteSet(Files)
  BY SidesAssumption DEF Files
<1> QED BY <1>1, <1>2, FS_Subset, FS_CardinalityType

(* Steps that change neither usages nor slots.                               *)
SameUse ==
    /\ ids' = ids /\ entries' = entries /\ slots' = slots
    /\ \A f \in Files : MmapHalfway(f)' => /\ MmapHalfway(f)
                                        /\ found'[f] = found[f] /\ selected'[f] = selected[f]

(* Steps that change no usage keep the counts.                               *)
LEMMA SameUseUse ==
  ASSUME Use, SameUse
  PROVE  Use'
<1>1. \A i : Users(i)' = Users(i)
  BY DEF SameUse, Users
<1>2. Counted'
  BY <1>1 DEF Use, Counted, SameUse
<1>3. Noted'
  BY DEF Use, Noted, SameUse, Live
<1>4. MapValid'
  BY DEF Use, MapValid, SameUse
<1> QED BY <1>2, <1>3, <1>4 DEF Use

(* The lock, the searches and the refusals change no usage.                  *)
LEMMA SameUseSteps ==
  ASSUME TypeInv, NEW f \in Files,
         \/ Down(f) \/ MmapNothing(f) \/ LockLoad(f) \/ LockStore(f)
         \/ UnlockLoad(f) \/ UnlockStore(f)
         \/ GetArea(f) \/ SetId(f) \/ CreateRefused(f) \/ CreateFind(f) \/ MmapRefused(f)
  PROVE  SameUse /\ wiped' = wiped /\ (~raced' => ~raced)
<1>1. CASE Down(f)
  BY <1>1 DEF Down, SameUse, MmapHalfway, Goto, Done, Then, In, table, filevars,
     locking, TypeInv, CallType, FileType
<1>2. CASE MmapNothing(f)
  BY <1>2 DEF MmapNothing, SameUse, MmapHalfway, Goto, Done, Then, In, table,
     filevars, locking, TypeInv, CallType, FileType
<1>3. CASE LockLoad(f)
  BY <1>3 DEF LockLoad, SameUse, MmapHalfway, Goto, Done, Then, In, table,
     filevars, locking, TypeInv, CallType, FileType
<1>4. CASE UnlockLoad(f)
  BY <1>4 DEF UnlockLoad, SameUse, MmapHalfway, Goto, Done, Then, In, table,
     filevars, locking, TypeInv, CallType, FileType
<1>5. CASE UnlockStore(f)
  BY <1>5 DEF UnlockStore, SameUse, MmapHalfway, Goto, Done, Then, In, table,
     filevars, locking, TypeInv, CallType, FileType
<1>6. CASE GetArea(f)
  BY <1>6 DEF GetArea, SameUse, MmapHalfway, Goto, Done, Then, In, table,
     filevars, locking, TypeInv, CallType, FileType
<1>7. CASE SetId(f)
  BY <1>7 DEF SetId, SameUse, MmapHalfway, Goto, Done, Then, In, table,
     filevars, locking, TypeInv, CallType, FileType
<1>8. CASE MmapRefused(f)
  BY <1>8 DEF MmapRefused, SameUse, MmapHalfway, Goto, Done, Then, In, table,
     filevars, locking, TypeInv, CallType, FileType
<1>9. CASE LockStore(f)
  <2>1. SameUse
    BY <1>9 DEF LockStore, Enter, Goto, SameUse, MmapHalfway, table, filevars,
       TypeInv, CallType
  <2>2. ~raced' => ~raced
    <3>1. Enter(f) \/ raced' = raced
      BY <1>9, Zenon DEF LockStore
    <3>2. Enter(f) => (~raced' => ~raced)
      BY Zenon DEF Enter
    <3> QED BY Zenon, <3>1, <3>2
  <2>3. wiped' = wiped
    BY <1>9 DEF LockStore
  <2> QED BY <2>1, <2>2, <2>3
<1>10. CASE CreateRefused(f)
  <2>1. PICK next \in {"GET", "none"} : Done(f, next)
    BY <1>10, Zenon DEF CreateRefused
  <2>2. UNCHANGED <<table, filevars>>
    BY <1>10 DEF CreateRefused
  <2> QED BY <2>1, <2>2 DEF SameUse, MmapHalfway, Done, Goto, Then, table, filevars, locking, TypeInv, CallType
<1>11. CASE CreateFind(f)
  BY <1>11 DEF CreateFind, In, Goto, SameUse, MmapHalfway, table, filevars,
     locking, TypeInv, CallType
<1> QED BY <1>1, <1>2, <1>3, <1>4, <1>5, <1>6, <1>7, <1>8, <1>9, <1>10, <1>11

(* Nor do the calls of the library, but for a reset.                         *)
LEMMA LibrarySameUse ==
  ASSUME TypeInv, NEW f \in Files, LibraryCall(f), ~Reset(f)
  PROVE  SameUse /\ wiped' = wiped /\ raced' = raced
<1>1. /\ phase[f] = "user"
      /\ phase' = phase
      /\ UNCHANGED <<table, locking, found, selected, slots, wiped>>
      /\ \A h \in Files \ {f} : ioctl'[h] = ioctl[h]
  BY DEF LibraryCall, hd_create_area, hd_get_area, hd_destroy_area,
     hd_unmap_area, Call, Exit,
         TypeInv, CallType
<1> QED BY <1>1 DEF SameUse, MmapHalfway, table, locking

(* A call that is done leaves nobody between the halves of mmap.             *)
LEMMA NoOtherMapping ==
  ASSUME TypeInv, Safe, NEW f \in Files, InTable(f), NEW next, Done(f, next)
  PROVE  MapValid'
BY DEF Done, Goto, Then, Safe, TableLocked, InTable, MmapHalfway, MapValid, TypeInv, CallType

(* Taking a set of noted areas off a file, and off their counts.             *)
LEMMA UnmapSubUse ==
  ASSUME TypeInv, Safe, Use, NEW f \in Files, NEW S, S \subseteq slots[f], UnmapSub(S),
         ids' = ids, slots' = [slots EXCEPT ![f] = @ \ S]
  PROVE  Counted' /\ Noted'
<1> DEFINE hit == {e \in Entries : \E i \in S : Live(i) /\ Find(i) = e}
<1>1. entries' = [e \in Entries |->
          IF e \in hit THEN [entries[e] EXCEPT !.usage = @ - 1] ELSE entries[e]]
  BY DEF UnmapSub
<1>2. \A g \in Files \ {f} : slots'[g] = slots[g]
  BY DEF TypeInv, FileType
<1>3. slots'[f] = slots[f] \ S
  BY DEF TypeInv, FileType
<1>4. \A e \in Entries : entries[e] \in Entry
  BY DEF TypeInv, TableType
<1>5. ASSUME NEW e \in Entries, ids[e] # NoId
      PROVE  entries'[e].usage >= Cardinality(Users(ids[e])')
  <2> DEFINE i == ids[e]
  <2>1. entries[e].usage >= Cardinality(Users(i)) /\ entries[e].usage \in Int
    BY <1>4, <1>5 DEF Use, Counted, Entry
  <2>2. CASE i \in S
    <3>1. e \in hit
      <4>1. Live(i)
        BY DEF Live
      <4>2. Find(i) = e
        BY <4>1, <1>5, FindIs DEF Safe, Separate
      <4> QED BY <2>2, <4>1, <4>2
    <3>2. entries'[e].usage = entries[e].usage - 1
      <4> HIDE DEF hit
      <4> QED BY <1>1, <1>4, <3>1 DEF Entry
    <3>3. f \in Users(i)
      BY <2>2 DEF Users
    <3>4. Users(ids[e])' = Users(i) \ {f}
      BY <1>2, <1>3, <2>2 DEF Users
    <3>5. Cardinality(Users(i) \ {f}) = Cardinality(Users(i)) - 1
      BY <3>3, UsersFinite, FS_RemoveElement
    <3> QED BY <2>1, <3>2, <3>4, <3>5, UsersFinite
  <2>3. CASE i \notin S
    <3>1. e \notin hit
      BY <2>3, FindIs
    <3>2. entries'[e] = entries[e]
      <4> HIDE DEF hit
      <4> QED BY <1>1, <3>1
    <3>3. Users(ids[e])' = Users(i)
      BY <1>2, <1>3, <2>3 DEF Users
    <3> QED BY <2>1, <3>2, <3>3
  <2> QED BY <2>2, <2>3
<1>6. Counted'
  BY <1>5 DEF Counted
<1>7. Noted'
  BY <1>2, <1>3 DEF Use, Noted, Live
<1> QED BY <1>6, <1>7

(* hdshm_unmap_area uncounts the selected area, which the file has noted.    *)
LEMMA UnmapAreaUse ==
  ASSUME TypeInv, Safe, Use, NEW f \in Files, UnmapArea(f)
  PROVE  Use'
<1>1. MapValid'
  BY NoOtherMapping DEF UnmapArea, In, InTable
<1>2. CASE selected[f] \in slots[f]
  <2>1. UnmapSub({selected[f]}) /\ ids' = ids /\ slots' = [slots EXCEPT ![f] = @ \ {selected[f]}]
    BY <1>2 DEF UnmapArea
  <2> QED BY <1>1, <1>2, <2>1, UnmapSubUse DEF Use
<1>3. CASE selected[f] \notin slots[f]
  <2>1. ids' = ids /\ entries' = entries /\ slots' = slots
    BY <1>3 DEF UnmapArea
  <2> QED BY <1>1, <2>1 DEF Use, Counted, Noted, Users, Live
<1> QED BY <1>2, <1>3

(* hdshm_release uncounts what the file has noted.                           *)
LEMMA ReleaseUse ==
  ASSUME TypeInv, Safe, Use, NEW f \in Files, Release(f)
  PROVE  Use'
<1>1. MapValid'
  BY NoOtherMapping DEF Release, In, InTable
<1>2. UnmapSub(slots[f]) /\ ids' = ids /\ slots' = [slots EXCEPT ![f] = @ \ slots[f]]
  <2>1. slots[f] \ slots[f] = {}
    OBVIOUS
  <2> QED BY <2>1 DEF Release, TypeInv, FileType
<1> QED BY <1>1, <1>2, UnmapSubUse DEF Use

(* What mmap finds is in the table and not noted yet.                        *)
LEMMA MmapFindUse ==
  ASSUME TypeInv, Safe, Use, NEW f \in Files, MmapFind(f)
  PROVE  Use'
<1>1. ids' = ids /\ entries' = entries /\ slots' = slots /\ selected' = selected /\ ioctl' = ioctl
  BY DEF MmapFind, table, filevars
<1>2. Counted' /\ Noted'
  BY <1>1 DEF Use, Counted, Noted, Users, Live
<1>3. MapValid'
  <2>1. ASSUME NEW g \in Files, MmapHalfway(g)' PROVE g = f
    BY <1>1, <2>1 DEF MmapFind, In, Goto, MmapHalfway, Safe, TableLocked,
       InTable, TypeInv, CallType
  <2>2. /\ selected[f] \notin slots[f] /\ Live(selected[f])
        /\ found'[f].entry = Find(selected[f])
    BY DEF MmapFind, TypeInv, CallType
  <2> QED BY <1>1, <2>1, <2>2, FindIs DEF MapValid
<1> QED BY <1>2, <1>3 DEF Use

(* mmap counts what it notes.                                                *)
LEMMA MmapClaimUse ==
  ASSUME TypeInv, Safe, Use, NEW f \in Files, MmapClaim(f)
  PROVE  Use'
<1>0. PICK e, i : e = found[f].entry /\ i = selected[f]
  OBVIOUS
<1>1. e \in Entries /\ ids[e] = i /\ i \notin slots[f] /\ i \in Ids
  BY <1>0 DEF MmapClaim, Use, MapValid, MmapHalfway, TypeInv, Held, FileType
<1>2. /\ ids' = ids
      /\ entries' = [entries EXCEPT ![e].usage = @ + 1]
      /\ slots' \in {slots, [slots EXCEPT ![f] = @ \cup {i}]}
  BY <1>0 DEF MmapClaim
<1>3. MapValid'
  BY NoOtherMapping DEF MmapClaim, InTable
<1>4. entries'[e].usage = entries[e].usage + 1 /\ \A d \in Entries \ {e} : entries'[d] = entries[d]
  BY <1>1, <1>2 DEF TypeInv, TableType, Entry
<1>5. \A j : j # i => Users(j)' = Users(j)
  BY <1>2 DEF Users, TypeInv, FileType
<1>6. Cardinality(Users(i)') <= Cardinality(Users(i)) + 1
  <2>1. Users(i)' \in {Users(i), Users(i) \cup {f}}
    BY <1>2 DEF Users, TypeInv, FileType
  <2>2. IsFiniteSet(Users(i)) /\ Cardinality(Users(i)) \in Nat
    BY UsersFinite
  <2>3. Cardinality(Users(i) \cup {f}) \in {Cardinality(Users(i)), Cardinality(Users(i)) + 1}
    <3>1. CASE f \in Users(i)
      <4>1. Users(i) \cup {f} = Users(i)
        BY <3>1
      <4> QED BY <4>1
    <3>2. CASE f \notin Users(i)
      BY <3>2, <2>2, FS_AddElement
    <3> QED BY <3>1, <3>2
  <2>4. CASE Users(i)' = Users(i)
    BY <2>4, <2>2
  <2>5. CASE Users(i)' = Users(i) \cup {f}
    BY <2>5, <2>2, <2>3
  <2> QED BY <2>1, <2>4, <2>5
<1>7. ASSUME NEW d \in Entries, ids[d] # NoId
      PROVE  entries'[d].usage >= Cardinality(Users(ids[d])')
  <2>1. entries[d].usage >= Cardinality(Users(ids[d])) /\ entries[d].usage \in Int
    BY <1>7 DEF Use, Counted, TypeInv, TableType, Entry
  <2>2. CASE d = e
    <3>1. Users(ids[d])' = Users(i)'
      BY <2>2, <1>1, <1>2 DEF Users
    <3>2. Cardinality(Users(i)') \in Nat
      <4>1. IsFiniteSet(Files) /\ Users(i)' \subseteq Files
        BY SidesAssumption DEF Files, Users
      <4> QED BY <4>1, FS_Subset, FS_CardinalityType
    <3>3. Cardinality(Users(i)) \in Nat
      BY UsersFinite
    <3>4. entries[e].usage >= Cardinality(Users(i)) /\ entries[e].usage \in Int
      BY <2>1, <2>2, <1>1
    <3> QED BY <2>2, <3>1, <3>2, <3>3, <3>4, <1>4, <1>6
  <2>3. CASE d # e
    <3>1. ids[d] # i
      BY <2>3, <1>1, <1>7 DEF Safe, Separate
    <3>2. Users(ids[d])' = Users(ids[d])
      BY <3>1, <1>2, <1>5 DEF Users
    <3> QED BY <2>1, <2>3, <3>2, <1>4
  <2> QED BY <2>2, <2>3
<1>8. Counted'
  BY <1>2, <1>7 DEF Counted
<1>9. Noted'
  BY <1>1, <1>2 DEF Use, Noted, Live, TypeInv, FileType
<1> QED BY <1>3, <1>8, <1>9 DEF Use

(* A new area starts with no users, because nobody has noted its id.         *)
LEMMA CreateClaimUse ==
  ASSUME TypeInv, Safe, Use, NEW f \in Files, CreateClaim(f)
  PROVE  Use'
<1>0. PICK e, i : e = found[f].entry /\ i = arg[f].id
  OBVIOUS
<1>1. e \in Entries /\ ids[e] = NoId /\ ~Live(i)
  BY <1>0 DEF CreateClaim, Safe, ClaimValid, Claiming, TypeInv, Held
<1>2. /\ slots' = slots
      /\ ids' = [ids EXCEPT ![e] = i]
      /\ entries'[e].usage = 0
      /\ \A d \in Entries \ {e} : entries'[d] = entries[d]
  BY <1>0, <1>1 DEF CreateClaim, filevars, TypeInv, TableType
<1>3. MapValid'
  BY NoOtherMapping DEF CreateClaim, InTable
<1>4. Users(i) = {}
  BY <1>1 DEF Use, Noted, Users
<1>5. \A j : Users(j)' = Users(j)
  BY <1>2 DEF Users
<1>6. ASSUME NEW d \in Entries, ids'[d] # NoId
      PROVE  entries'[d].usage >= Cardinality(Users(ids'[d]))
  <2>1. CASE d = e
    BY <2>1, <1>1, <1>2, <1>4, FS_EmptySet DEF TypeInv, TableType
  <2>2. CASE d # e
    BY <2>2, <1>6, <1>2 DEF Use, Counted, TypeInv, TableType
  <2> QED BY <2>1, <2>2
<1>7. Counted'
  BY <1>2, <1>6 DEF Counted, Users
<1>8. Noted'
  <2>1. \A j \in Ids : Live(j) => Live(j)'
    BY <1>1, <1>2, IdsAssumption DEF Live, TypeInv, TableType
  <2> QED BY <2>1, <1>2 DEF Use, Noted, TypeInv, FileType
<1> QED BY <1>3, <1>7, <1>8 DEF Use

(* An area that can be destroyed is noted by no file.                        *)
LEMMA DestroyableUnused ==
  ASSUME Use, NEW i, Destroyable(i), i # NoId
  PROVE  \A f \in Files : i \notin slots[f]
<1>1. Find(i) \in Entries /\ ids[Find(i)] = i /\ entries[Find(i)].usage = 0
  BY FindIs DEF Destroyable
<1>2. Cardinality(Users(i)) = 0
  BY <1>1, UsersFinite DEF Use, Counted
<1>3. Users(i) = {}
  BY <1>2, UsersFinite, FS_EmptySet
<1> QED BY <1>3 DEF Users

(* Destroying keeps the counts of the others.                                *)
LEMMA DestroyAreaUse ==
  ASSUME TypeInv, Safe, Use, NEW f \in Files, DestroyArea(f)
  PROVE  Use'
<1>0. PICK e, i : i = arg[f].id /\ e = Find(i)
  OBVIOUS
<1>1. MapValid'
  BY NoOtherMapping DEF DestroyArea, In, InTable
<1>2. slots' = slots /\ entries' = entries
  BY DEF DestroyArea, filevars
<1>3. \A j : Users(j)' = Users(j)
  BY <1>2 DEF Users
<1>4. CASE ~Destroyable(i) \/ i = NoId
  <2>1. ids' = ids
    <3>1. CASE ~Destroyable(i)
      BY <3>1, <1>0 DEF DestroyArea
    <3>2. CASE Destroyable(i) /\ i = NoId
      <4>1. e \in Entries /\ ids[e] = NoId
        BY <3>2, <1>0, FindIs DEF Destroyable
      <4> QED BY <3>2, <4>1, <1>0 DEF DestroyArea, TypeInv, TableType
    <3> QED BY <3>1, <3>2, <1>4
  <2> QED BY <1>1, <1>2, <2>1 DEF Use, Counted, Noted, Users, Live
<1>5. CASE Destroyable(i) /\ i # NoId
  <2>1. e \in Entries /\ ids[e] = i
    BY <1>5, <1>0, FindIs DEF Destroyable
  <2>2. ids' = [ids EXCEPT ![e] = NoId]
    BY <1>5, <1>0 DEF DestroyArea
  <2>3. \A d \in Entries : ids'[d] # NoId => ids'[d] = ids[d]
    BY <2>1, <2>2 DEF TypeInv, TableType
  <2>4. Counted'
    BY <2>3, <1>2 DEF Use, Counted, Users
  <2>5. \A j : Live(j) /\ j # i => Live(j)'
    BY <2>1, <2>2 DEF Live, TypeInv, TableType
  <2>6. Noted'
    BY <2>5, <1>2, <1>5, DestroyableUnused DEF Use, Noted
  <2> QED BY <1>1, <2>4, <2>6 DEF Use
<1> QED BY <1>4, <1>5

(* A reset that keeps wiped false has found nothing mapped.                  *)
LEMMA ResetUse ==
  ASSUME TypeInv, Use, NEW f \in Files, Reset(f), ~wiped'
  PROVE  Use'
<1>1. \A g \in Files : slots[g] = {} /\ ~InTable(g)
  BY Zenon DEF Reset
<1>2. /\ UNCHANGED <<entries, slots, ioctl, phase>>
      /\ \A e \in Entries : ids'[e] # NoId => ids'[e] = ids[e]
  BY DEF Reset, filevars
<1>3. Counted'
  BY <1>2 DEF Use, Counted, Users
<1>4. Noted'
  BY <1>1, <1>2 DEF Noted
<1>5. MapValid'
  BY <1>1, <1>2 DEF MapValid, MmapHalfway, InTable
<1> QED BY <1>3, <1>4, <1>5 DEF Use

(* At boot nothing is mapped.                                                *)
LEMMA InitUse == Init => Use
<1> SUFFICES ASSUME Init PROVE Use
  OBVIOUS
<1>1. Counted
  BY DEF Init, Counted
<1>2. Noted
  BY DEF Init, Noted
<1>3. MapValid
  BY DEF Init, MapValid, MmapHalfway
<1> QED BY <1>1, <1>2, <1>3 DEF Use

(* The counts are enough in every behaviour.                                 *)
LEMMA UseInvariance == Spec => []UInv
<1>1. Init => Use
  BY InitUse
<1>2. ASSUME IInv, IInv', ~raced /\ ~wiped => Use, [Next]_vars, ~raced', ~wiped'
      PROVE  Use'
  <2>1. CASE UNCHANGED vars
    <3>1. SameUse /\ ~raced /\ ~wiped
      BY <1>2, <2>1 DEF vars, table, filevars, locking, SameUse, MmapHalfway
    <3> QED BY <3>1, <1>2, SameUseUse
  <2>2. ASSUME NEW f \in Files, Step(f) PROVE Use'
    <3>1. CASE \/ Down(f) \/ MmapNothing(f) \/ LockLoad(f) \/ LockStore(f)
               \/ UnlockLoad(f) \/ UnlockStore(f)
               \/ GetArea(f) \/ SetId(f) \/ CreateRefused(f) \/ CreateFind(f) \/ MmapRefused(f)
      BY <3>1, <1>2, SameUseSteps, SameUseUse DEF IInv
    <3>2. CASE CreateClaim(f)
      BY <3>2, <1>2, CreateClaimUse DEF IInv, CreateClaim, Done, locking
    <3>3. CASE MmapFind(f)
      BY <3>3, <1>2, MmapFindUse DEF IInv, MmapFind, locking
    <3>4. CASE MmapClaim(f)
      BY <3>4, <1>2, MmapClaimUse DEF IInv, MmapClaim, Done, locking
    <3>5. CASE UnmapArea(f)
      BY <3>5, <1>2, UnmapAreaUse DEF IInv, UnmapArea, Done, locking
    <3>6. CASE DestroyArea(f)
      BY <3>6, <1>2, DestroyAreaUse DEF IInv, DestroyArea, Done, locking
    <3>7. CASE Release(f)
      BY <3>7, <1>2, ReleaseUse DEF IInv, Release, Done, locking
    <3> QED BY <2>2, <3>1, <3>2, <3>3, <3>4, <3>5, <3>6, <3>7 DEF Step, Body
  <2>3. ASSUME NEW f \in Files, LibraryCall(f) PROVE Use'
    <3>1. CASE Reset(f)
      <4>1. ~raced /\ ~wiped
        BY <3>1, <1>2, Zenon DEF Reset, locking
      <4> QED BY <3>1, <4>1, <1>2, ResetUse DEF IInv
    <3>2. CASE ~Reset(f)
      BY <2>3, <3>2, <1>2, LibrarySameUse, SameUseUse DEF IInv
    <3> QED BY <3>1, <3>2
  <2> QED BY <1>2, <2>1, <2>2, <2>3 DEF Next
<1> DEFINE J == ~raced /\ ~wiped => Use
<1>3. Init => J
  BY <1>1
<1>4. IInv /\ IInv' /\ J /\ [Next]_vars => J'
  BY <1>2
<1>5. UInv <=> IInv /\ J
  BY DEF UInv
<1> HIDE DEF J
<1> QED BY <1>3, <1>4, <1>5, SafeInvariance, PTL DEF Spec

(* For every number of processes and areas: as long as the lock has kept the *)
(* processes apart and no reset has hit an area in use, the usage of an area *)
(* covers the files that have noted it.                                      *)
THEOREM UsageIsEnough == Spec => []UsageCounts
<1>1. UInv => UsageCounts
  BY DEF UInv, Use, Counted, Users, UsageCounts
<1> QED BY <1>1, UseInvariance, PTL

(* Under the same conditions nothing that a file has noted is destroyed.     *)
THEOREM DestroysOnlyUnmapped == Spec => DestroyedUnmapped
<1>1. ASSUME UInv, [Next]_vars, NEW e \in Entries,
             ids[e] # NoId, ids'[e] = NoId, entries[e].dma, ~raced, ~wiped
      PROVE  \A f \in Files : ids[e] \notin slots[f]
  <2>1. ids' # ids
    BY <1>1
  <2>2. PICK f \in Files : CreateClaim(f) \/ DestroyArea(f) \/ Reset(f)
    BY <1>1, <2>1, SameUseSteps, LibrarySameUse
    DEF Next, Step, Body, vars, table, SameUse, UInv, IInv, MmapFind, MmapClaim,
       UnmapArea, Release
  <2>3. ~Reset(f)
    BY <1>1 DEF Reset
  <2>4. ~CreateClaim(f)
    <3>1. CreateClaim(f) => ids[found[f].entry] = NoId /\ ids' = [ids EXCEPT ![found[f].entry] = arg[f].id]
      BY <1>1 DEF CreateClaim, UInv, IInv, Safe, ClaimValid, Claiming
    <3> QED BY <1>1, <3>1 DEF UInv, IInv, TypeInv, TableType
  <2>5. Destroyable(arg[f].id) /\ ids' = [ids EXCEPT ![Find(arg[f].id)] = NoId]
    BY <2>1, <2>2, <2>3, <2>4 DEF DestroyArea
  <2>6. e = Find(arg[f].id)
    BY <1>1, <2>5 DEF UInv, IInv, TypeInv, TableType
  <2>7. ids[e] = arg[f].id
    BY <2>5, <2>6, FindIs DEF Destroyable
  <2> QED BY <1>1, <2>5, <2>7, DestroyableUnused DEF UInv
<1>2. UInv /\ [Next]_vars =>
        [\A e \in Entries :
          ids[e] # NoId /\ ids'[e] = NoId /\ entries[e].dma /\ ~raced /\ ~wiped
              => \A f \in Files : ids[e] \notin slots[f]]_vars
  BY <1>1
<1> QED BY <1>2, UseInvariance, PTL DEF Spec, DestroyedUnmapped

-----------------------------------------------------------------------------
(* The mappings that processes have.                                         *)

(* Memory that is marked and belongs to no area but i.                       *)
Apart(i, A) ==
    /\ A \subseteq alloc
    /\ \A e \in Entries : ids[e] # NoId /\ ids[e] # i => Area(e) \cap A = {}

(* The same memory after a step.                                             *)
ApartAfter(i, A) ==
    /\ A \subseteq alloc'
    /\ \A e \in Entries : ids'[e] # NoId /\ ids'[e] # i => Area(e)' \cap A = {}

ApartMappings == {m \in Mapping : Apart(m.id, m.area)}
Kept == maps \in [Files -> Seq(ApartMappings)]
HalfwayApart ==
    \A f \in Files : MmapHalfway(f) => Apart(selected[f], Area(found[f].entry))

MapInv == Kept /\ HalfwayApart
PInv == IInv /\ (~raced => MapInv)

(* Steps that move no area keep memory apart.                                *)
LEMMA StillApart ==
  ASSUME alloc' = alloc, \A e \in Entries : Area(e)' = Area(e),
         \A e \in Entries : ids'[e] \in {ids[e], NoId},
         NEW i, NEW A, Apart(i, A)
  PROVE  ApartAfter(i, A)
BY DEF Apart, ApartAfter

(* Every step keeps memory apart: marks are never taken away, and a new area *)
(* gets pages that were not marked.  All but create move no area.            *)
LEMMA StepApart ==
  ASSUME IInv, ~raced, NEW f \in Files, Step(f) \/ LibraryCall(f)
  PROVE  /\ \A i, A : Apart(i, A) => ApartAfter(i, A)
         /\ CreateClaim(f) \/ \A e \in Entries : Area(e)' = Area(e)
<1>0. TypeInv /\ Safe
  BY DEF IInv
<1>1. CASE CreateClaim(f)
  <2>1. PICK e : e = found[f].entry
    OBVIOUS
  <2>2. /\ alloc \subseteq alloc' /\ Area(e)' \subseteq alloc' \ alloc
        /\ \A d \in Entries \ {e} : Area(d)' = Area(d) /\ ids'[d] = ids[d]
    BY <1>0, <1>1, <2>1, ClaimIs
  <2>3. ASSUME NEW i, NEW A, Apart(i, A) PROVE ApartAfter(i, A)
    <3>1. ASSUME NEW d \in Entries, ids'[d] # NoId, ids'[d] # i PROVE Area(d)' \cap A = {}
      <4>1. CASE d = e
        <5>1. Area(d)' = Area(e)'
          BY Zenon, <4>1 DEF Area
        <5> QED BY <2>2, <2>3, <5>1 DEF Apart
      <4>2. CASE d # e
        BY <2>2, <2>3, <3>1, <4>2 DEF Apart
      <4> QED BY <4>1, <4>2
    <3> QED BY <2>2, <2>3, <3>1 DEF Apart, ApartAfter
  <2> QED BY <1>1, <2>3
<1>2. CASE Reset(f) \/ DestroyArea(f)
  <2>1. UNCHANGED <<entries, alloc>> /\ \A e \in Entries : ids'[e] \in {ids[e], NoId}
    BY <1>0, <1>2, DestroyIs DEF Reset
  <2>2. \A e \in Entries : Area(e)' = Area(e)
    BY <2>1 DEF Area
  <2> QED BY <2>1, <2>2, StillApart
<1>3. CASE ~(CreateClaim(f) \/ Reset(f) \/ DestroyArea(f))
  <2>2. SameTable
    <3>1. CASE CreateFind(f) \/ LockStore(f)
      BY <3>1 DEF CreateFind, LockStore, SameTable, table
    <3>2. CASE ~(CreateFind(f) \/ LockStore(f))
      BY <1>0, <1>3, <3>2, QuietSteps, LibraryQuiet DEF Step, Body
    <3> QED BY <3>1, <3>2
  <2>3. \A e \in Entries : Area(e)' = Area(e)
    BY <2>2 DEF SameTable, Area
  <2> QED BY <2>2, <2>3, StillApart DEF SameTable
<1> QED BY <1>1, <1>2, <1>3

(* A process is halfway through mmap only by its own search.                 *)
LEMMA HalfwayBefore ==
  ASSUME TypeInv, NEW f \in Files, Step(f) \/ LibraryCall(f),
         NEW g \in Files, MmapHalfway(g)', ~(MmapFind(f) /\ g = f)
  PROVE  MmapHalfway(g) /\ found'[g] = found[g] /\ selected'[g] = selected[g]
<1> USE DEF MmapHalfway, TypeInv, CallType, FileType
<1>1. CASE MmapFind(f)
  BY <1>1 DEF MmapFind, Goto, filevars
<1>2. CASE CreateClaim(f) \/ DestroyArea(f)
  BY <1>2 DEF CreateClaim, DestroyArea, Done, Goto, Then, filevars
<1>3. CASE MmapClaim(f) \/ UnmapArea(f) \/ Release(f)
  BY <1>3 DEF MmapClaim, UnmapArea, Release, Done, Goto, Then
<1>4. CASE Reset(f)
  BY <1>4 DEF Reset, filevars
<1>5. CASE SameUse
  BY <1>5 DEF SameUse
<1> QED BY <1>1, <1>2, <1>3, <1>4, <1>5, SameUseSteps, LibrarySameUse DEF Step, Body

(* That processes have been in the table at once is not forgotten.           *)
LEMMA RacedStays ==
  ASSUME TypeInv, NEW f \in Files, Step(f) \/ LibraryCall(f), ~raced'
  PROVE  ~raced
<1>1. CASE MmapFind(f) \/ CreateClaim(f) \/ DestroyArea(f) \/ MmapClaim(f) \/ UnmapArea(f)
           \/ Release(f) \/ Reset(f)
  BY <1>1, Zenon DEF MmapFind, CreateClaim, DestroyArea, MmapClaim, UnmapArea, Release, Reset,
     Done, locking
<1>2. CASE LibraryCall(f) /\ ~Reset(f)
  BY <1>2, LibrarySameUse
<1> QED BY <1>1, <1>2, SameUseSteps DEF Step, Body

LEMMA MoreMappings ==
  ASSUME NEW S, NEW T, S \subseteq T, NEW s \in Seq(S)
  PROVE  s \in Seq(T)
<1>1. Len(s) \in Nat /\ \A j \in 1..Len(s) : s[j] \in T
  OBVIOUS
<1>2. s = [j \in 1..Len(s) |-> s[j]]
  OBVIOUS
<1> QED BY <1>1, <1>2

(* A process that maps gets memory that is apart; the others lose mappings.  *)
LEMMA KeptBefore ==
  ASSUME IInv, MapInv, NEW f \in Files, Step(f) \/ LibraryCall(f)
  PROVE  maps' \in [Files -> Seq(ApartMappings)]
<1>0. TypeInv /\ Kept /\ maps[f] \in Seq(ApartMappings)
  BY DEF IInv, MapInv, Kept
<1>1. CASE MmapClaim(f)
  <2> DEFINE A == Area(found[f].entry)
             m == [id |-> selected[f], area |-> A]
  <2>0. MmapHalfway(f)
    BY <1>1 DEF MmapClaim, MmapHalfway
  <2>1. Apart(selected[f], A)
    BY <2>0 DEF MapInv, HalfwayApart
  <2>3. selected[f] \in Ids
    BY <1>0, <1>1 DEF MmapClaim, TypeInv, Held, FileType
  <2> HIDE DEF A
  <2>2. A \in SUBSET Nat
    BY <1>0, <2>1 DEF Apart, TypeInv, TableType, Pages
  <2>4. m \in Mapping /\ m.id = selected[f] /\ m.area = A
    BY <2>2, <2>3 DEF Mapping
  <2>5. m \in ApartMappings
    BY <2>1, <2>4 DEF ApartMappings
  <2>6. maps' = [maps EXCEPT ![f] = Append(maps[f], m)]
    BY <1>1 DEF MmapClaim, A
  <2> HIDE DEF m
  <2>7. Append(maps[f], m) \in Seq(ApartMappings)
    BY <1>0, <2>5
  <2> QED BY <1>0, <2>6, <2>7 DEF Kept
<1>2. ASSUME NEW k \in DOMAIN maps[f], hd_unmap_area(f, k)
      PROVE  maps' \in [Files -> Seq(ApartMappings)]
  <2>1. k \in 1..Len(maps[f]) /\ Len(maps[f]) \in Nat
        /\ \A j \in 1..Len(maps[f]) : maps[f][j] \in ApartMappings
    BY <1>0
  <2>2. SubSeq(maps[f], 1, k - 1) \in Seq(ApartMappings)
    <3>1. \A j \in 1..(k - 1) : maps[f][j] \in ApartMappings
      BY <2>1
    <3>2. 1 \in Int /\ k - 1 \in Int
      BY <2>1
    <3> QED BY <3>1, <3>2, SubSeqProperties
  <2>3. SubSeq(maps[f], k + 1, Len(maps[f])) \in Seq(ApartMappings)
    <3>1. \A j \in (k + 1)..Len(maps[f]) : maps[f][j] \in ApartMappings
      BY <2>1
    <3>2. k + 1 \in Int /\ Len(maps[f]) \in Int
      BY <2>1
    <3> QED BY <3>1, <3>2, SubSeqProperties
  <2>4. SubSeq(maps[f], 1, k - 1) \o SubSeq(maps[f], k + 1, Len(maps[f]))
          \in Seq(ApartMappings)
    BY <2>2, <2>3, ConcatProperties
  <2> QED BY <1>0, <1>2, <2>4 DEF hd_unmap_area, Kept
<1>3. CASE Exit(f)
  BY <1>0, <1>3 DEF Exit, Kept
<1>4. CASE maps' = maps
  BY <1>0, <1>4 DEF Kept
<1>5. \/ maps' = maps \/ MmapClaim(f) \/ Exit(f)
      \/ \E k \in DOMAIN maps[f] : hd_unmap_area(f, k)
  BY DEF Step, Body, Down, MmapNothing, LockLoad, LockStore, UnlockLoad, UnlockStore, GetArea,
     SetId, CreateRefused, CreateFind, CreateClaim, MmapRefused, MmapFind, UnmapArea,
     DestroyArea, Release, LibraryCall, hd_create_area, hd_get_area, hd_destroy_area, Reset,
     filevars
<1> QED BY <1>1, <1>2, <1>3, <1>4, <1>5

LEMMA KeptStep ==
  ASSUME IInv, ~raced, MapInv, NEW f \in Files, Step(f) \/ LibraryCall(f)
  PROVE  Kept'
<1>1. \A m \in ApartMappings : ApartAfter(m.id, m.area)
  BY StepApart DEF ApartMappings
<1>2. \A m \in Mapping : ApartAfter(m.id, m.area) => m \in ApartMappings'
  BY DEF ApartMappings, Apart, ApartAfter
<1>3. ApartMappings \subseteq ApartMappings'
  BY <1>1, <1>2 DEF ApartMappings
<1>4. \A g \in Files : maps'[g] \in Seq(ApartMappings')
  BY <1>3, KeptBefore, MoreMappings
<1>5. maps' = [g \in Files |-> maps'[g]]
  BY KeptBefore
<1> QED BY <1>4, <1>5 DEF Kept

(* Between the two halves of mmap its own area stays where it was found.     *)
LEMMA HalfwayStep ==
  ASSUME IInv, ~raced, MapInv, NEW f \in Files, Step(f) \/ LibraryCall(f)
  PROVE  HalfwayApart'
<1>0. TypeInv /\ Safe
  BY DEF IInv
<1> DEFINE A(g) == Area(found[g].entry)
<1>a. \A g \in Files : ApartAfter(selected'[g], A(g)') => Apart(selected[g], A(g))'
  BY DEF Apart, ApartAfter
<1>1. SUFFICES ASSUME NEW g \in Files, MmapHalfway(g)'
               PROVE  ApartAfter(selected'[g], A(g)')
  BY <1>a DEF HalfwayApart
<1>b. \A i, S : Apart(i, S) => ApartAfter(i, S)
  BY StepApart
<1>2. CASE CreateClaim(f)
  BY <1>0, <1>1, <1>2 DEF CreateClaim, Done, Goto, Then, Safe, TableLocked, InTable,
     MmapHalfway, TypeInv, CallType
<1>3. CASE MmapFind(f) /\ g = f
  <2> DEFINE e == Find(selected[f])
  <2>1. found'[g].entry = e /\ selected'[g] = selected[g] /\ UNCHANGED table
    BY <1>0, <1>3 DEF MmapFind, filevars, TypeInv, CallType
  <2>2. e \in Entries /\ ids[e] = selected[f] /\ ids[e] # NoId
    BY <1>0, <1>3, FindIs DEF MmapFind, In, TypeInv, Held
  <2>3. Apart(selected[f], Area(e))
    BY <1>0, <2>2 DEF Apart, Safe, Separate
  <2>4. ApartAfter(selected[f], Area(e))
    BY <2>3, <1>b
  <2>5. A(g)' = Area(e)
    BY <2>1 DEF Area, table
  <2> QED BY <1>3, <2>1, <2>4, <2>5
<1>4. CASE ~CreateClaim(f) /\ ~(MmapFind(f) /\ g = f)
  <2>1. MmapHalfway(g) /\ found'[g] = found[g] /\ selected'[g] = selected[g]
    BY <1>0, <1>1, <1>4, HalfwayBefore
  <2>2. Apart(selected[g], Area(found[g].entry)) /\ found[g].entry \in Entries
    BY <1>0, <2>1 DEF MapInv, HalfwayApart, MmapHalfway, TypeInv, Held
  <2>3. \A e \in Entries : Area(e)' = Area(e)
    BY <1>4, StepApart
  <2>4. A(g)' = A(g)
    <3>1. PICK e \in Entries : e = found[g].entry
      BY <2>2
    <3>2. A(g)' = Area(e)'
      BY <2>1, <3>1 DEF Area
    <3> QED BY <2>3, <3>1, <3>2
  <2>5. ApartAfter(selected[g], A(g))
    BY <1>b, <2>2
  <2> QED BY <2>1, <2>4, <2>5
<1> QED BY <1>2, <1>3, <1>4

LEMMA MapInvariance == Spec => []PInv
<1>1. Init => MapInv
  BY DEF Init, MapInv, Kept, HalfwayApart, MmapHalfway
<1>2. ASSUME IInv, IInv', [Next]_vars, ~raced => MapInv, ~raced' PROVE MapInv'
  <2>1. CASE UNCHANGED vars
    BY <1>2, <2>1 DEF vars, table, filevars, locking, MapInv, Kept, HalfwayApart,
       MmapHalfway, ApartMappings, Apart, Area
  <2>2. ASSUME NEW f \in Files, Step(f) \/ LibraryCall(f) PROVE MapInv'
    <3>1. ~raced
      BY <1>2, <2>2, RacedStays DEF IInv
    <3> QED BY <1>2, <2>2, <3>1, KeptStep, HalfwayStep DEF MapInv
  <2> QED BY <1>2, <2>1, <2>2 DEF Next
<1> DEFINE J == ~raced => MapInv
<1>3. Init => J
  BY <1>1
<1>4. IInv /\ IInv' /\ J /\ [Next]_vars => J'
  BY <1>2
<1>5. PInv <=> IInv /\ J
  BY DEF PInv
<1> HIDE DEF J
<1> QED BY <1>3, <1>4, <1>5, SafeInvariance, PTL DEF Spec

(* For every number of processes, areas and pages: as long as the lock has   *)
(* kept the processes apart, no mapping that a process still has shows the   *)
(* data of another area, whatever has been reset and created anew since.     *)
THEOREM MappedPagesStaySafe == Spec => []MappedPagesSafe
<1>1. PInv => MappedPagesSafe
  <2> SUFFICES ASSUME PInv, ~raced, NEW f \in Files, NEW k \in DOMAIN maps[f],
                      NEW e \in Entries, ids[e] # NoId, ids[e] # maps[f][k].id
               PROVE  Area(e) \cap maps[f][k].area = {}
    BY DEF MappedPagesSafe
  <2>1. maps[f][k] \in ApartMappings
    BY DEF PInv, MapInv, Kept
  <2> QED BY <2>1 DEF ApartMappings, Apart
<1> QED BY <1>1, MapInvariance, PTL

=============================================================================
