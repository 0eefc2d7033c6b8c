------------------------------- MODULE BspShm -------------------------------
(***************************************************************************)
(* The memory that the host shares with the BSP card: the driver           *)
(* (bspshm.c, bspshm_gen.h) and the host library (hostlib/bspshmlib.c).    *)
(*                                                                         *)
(* The table of areas lies in host memory and is locked with a counter     *)
(* that both sides decrement until it gets 0.  Unlike in hdshm, whose      *)
(* ancestor this is, a process that has tried too often gives up and does  *)
(* not enter the table.  Because the lock keeps all others out (theorem    *)
(* TableIsExclusive), what a process does in the table is one step here.   *)
(* A process has one thread and one open file.  What the BSP does is       *)
(* external: it locks the same way and creates areas in its own memory.    *)
(***************************************************************************)
EXTENDS Integers, FiniteSets, Sequences, SequencesExt

CONSTANTS
    Host,        \* the processes on the host
    Card,        \* the processors of the BSP
    LockTries,   \* bsd.lock_tries
    AreaIds,     \* the identifiers of areas
    CardIds,     \* those of areas in the memory of the BSP
    NoArea,      \* 0
    TableSize,   \* ENTRIES_FOR_ROOT
    FileSlots,   \* MAPPED_IDS_PER_FILE
    MaxShmCalls, \* bound on the calls to the library
    MaxCardTries \* bound on the times the BSP tries to lock

ASSUME CardAssumption == Host \cap Card = {} /\ IsFiniteSet(Host \cup Card)
ASSUME ShmAssumption ==
    /\ CardIds \subseteq AreaIds /\ NoArea \notin AreaIds
    /\ {LockTries, TableSize, FileSlots, MaxShmCalls, MaxCardTries} \subseteq Nat

VARIABLES
    ids,        \* bsp_root->ids
    usage,      \* bse->usage of each entry
    totals,     \* bsp_root->host_usage and bsp_usage
    lock,       \* bsp_root->table_lock: 1 when free
    timeout,    \* bsd.lock_timeout
    failed,     \* history: the tries that found the lock taken
    opened,     \* the processes that have the device open
    selected,   \* bsf->id
    slots,      \* bsf->bsm: the areas the file has mapped, as the driver knows
    maps,       \* the mappings of the process: the area, vm_private_data, and
                \* (history) whether the driver still counts it for this file
    call,       \* the next system call of the library call in progress
    arg,        \* the area it is about
    phase,      \* how far a process, or the BSP, is
    tries,      \* failed tries of this call
    shmCalls, cardTries,   \* how many calls and tries of the BSP there were
    wiped       \* history: a reset has cleared an area that was mapped

tablevars == <<ids, usage, totals>>
filevars == <<opened, selected, slots, maps>>
lockvars == <<lock, timeout, failed, tries, cardTries>>
shmVars == <<tablevars, filevars, lockvars, call, arg, phase, shmCalls, wiped>>

Procs == Host \cup Card
Rows == 1..TableSize
At(p, where) == phase' = [phase EXCEPT ![p] = where]

----------------------------------------------------------------------------
(* The table *)

Listed(i) == i # NoArea /\ \E e \in Rows : ids[e] = i
FreeRows == {e \in Rows : ids[e] = NoArea}

\* The first entry with this id; bspshm_find_area and _find_free_entry.
Row(i) == CHOOSE e \in Rows : ids[e] = i /\ \A d \in 1..(e - 1) : ids[d] # i

Side(i) == IF i \in CardIds THEN "bsp" ELSE "host"

\* bspshm_unmap_area_sub for the areas of a set.
Uncount(S) ==
    LET gone == {i \in S : Listed(i)} IN
    /\ usage' = [e \in Rows |-> IF ids[e] \in gone /\ Row(ids[e]) = e
                                THEN usage[e] - 1 ELSE usage[e]]
    /\ totals' = [m \in {"bsp", "host"} |->
                     totals[m] - Cardinality({i \in gone : Side(i) = m})]

----------------------------------------------------------------------------
(* The lock.  A host process holds table_sem from "lock" on. *)

SemHeld == \E f \in Host : phase[f] \in {"lock", "in"}

\* A call begins.  With lock_timeout set it fails at once.
Begin(f) ==
    /\ phase[f] = "user" /\ call[f] # "none" /\ ~timeout
    /\ call[f] = "MMAP" => selected[f] # NoArea
    /\ At(f, "down")
    /\ UNCHANGED <<tablevars, filevars, lockvars, call, arg, shmCalls, wiped>>

DownSem(f) ==
    /\ phase[f] = "down" /\ ~SemHeld
    /\ At(f, "lock")
    /\ UNCHANGED <<tablevars, filevars, lockvars, call, arg, shmCalls, wiped>>

\* atomic_dec_and_test.
TryLock(p) ==
    /\ phase[p] = "lock"
    /\ lock' = lock - 1
    /\ IF lock' = 0
       THEN At(p, "in") /\ tries' = [tries EXCEPT ![p] = 0] /\ UNCHANGED failed
       ELSE /\ tries' = [tries EXCEPT ![p] = @ + 1]
            /\ failed' = failed + 1
            /\ UNCHANGED phase
    /\ UNCHANGED <<tablevars, filevars, timeout, call, arg, shmCalls, wiped>>

----------------------------------------------------------------------------
(* How a system call ends, and what the library does next: it looks at the *)
(* result of GET and of CREATE only.                                       *)

Proceed(f, next) ==
    /\ call' = [call EXCEPT ![f] = next]
    /\ arg' = IF next = "none" THEN [arg EXCEPT ![f] = NoArea] ELSE arg

\* The file is closed whatever becomes of the lock: without it the areas that
\* the file has mapped stay counted.
Closed(f) ==
    IF call[f] = "RELEASE"
    THEN /\ opened' = opened \ {f}
         /\ selected' = [selected EXCEPT ![f] = NoArea]
         /\ slots' = [slots EXCEPT ![f] = {}]
    ELSE UNCHANGED <<opened, selected, slots>>

Fail(f) ==
    /\ At(f, "user")
    /\ Proceed(f, IF call[f] = "SET_ID" THEN "MMAP" ELSE "none")
    /\ tries' = [tries EXCEPT ![f] = 0]
    /\ Closed(f)
    /\ UNCHANGED <<tablevars, maps, lock, failed, cardTries, shmCalls, wiped>>

\* The semaphore is given back; the decrements are not.
GiveUp(f) ==
    /\ phase[f] = "lock" /\ tries[f] > LockTries
    /\ timeout' = TRUE
    /\ Fail(f)

FailAtOnce(f) ==
    /\ phase[f] = "user" /\ call[f] # "none"
    /\ timeout \/ (call[f] = "MMAP" /\ selected[f] = NoArea)
    /\ Fail(f)
    /\ UNCHANGED timeout

\* bspshm_unlock_table.
Leave(f, next) ==
    /\ lock' = lock + 1
    /\ At(f, "user")
    /\ Proceed(f, next)
    /\ UNCHANGED <<timeout, failed, tries, cardTries, shmCalls, wiped>>

----------------------------------------------------------------------------
(* The system calls, in the table *)

InCall(f, c) == phase[f] = "in" /\ call[f] = c

GetArea(f) ==
    /\ InCall(f, "GET")
    /\ Leave(f, IF Listed(arg[f]) THEN "SET_ID" ELSE "none")
    /\ UNCHANGED <<tablevars, filevars>>

SetId(f) ==
    /\ InCall(f, "SET_ID")
    /\ selected' = IF Listed(arg[f]) THEN [selected EXCEPT ![f] = arg[f]] ELSE selected
    /\ Leave(f, "MMAP")
    /\ UNCHANGED <<tablevars, opened, slots, maps>>

\* -EEXIST is no error to the library; a full table and no memory are.
CreateArea(f) ==
    LET i == arg[f]
        possible == ~Listed(i) /\ FreeRows # {}
    IN
    /\ InCall(f, "CREATE")
    /\ \/ /\ possible
          /\ ids' = [ids EXCEPT ![Row(NoArea)] = i]
          /\ usage' = [usage EXCEPT ![Row(NoArea)] = 0]
          /\ Leave(f, "GET")
       \/ /\ Leave(f, IF Listed(i) THEN "GET" ELSE "none")
          /\ UNCHANGED <<ids, usage>>
    /\ UNCHANGED <<totals, filevars>>

\* With all slots in use the area is mapped and counted but not noted.
MmapArea(f) ==
    LET i == selected[f] IN
    /\ InCall(f, "MMAP")
    /\ IF i \in slots[f] \/ ~Listed(i)
       THEN UNCHANGED <<usage, totals, slots, maps>>
       ELSE /\ totals' = [totals EXCEPT ![Side(i)] = @ + 1]
            /\ usage' = [usage EXCEPT ![Row(i)] = @ + 1]
            /\ slots' = IF Cardinality(slots[f]) < FileSlots
                        THEN [slots EXCEPT ![f] = @ \cup {i}] ELSE slots
            /\ maps' = [maps EXCEPT ![f] = Append(@,
                   [id |-> i, entry |-> Row(i),
                    counted |-> Cardinality(slots[f]) < FileSlots])]
    /\ Leave(f, "none")
    /\ UNCHANGED <<ids, opened, selected>>

Uncounted(ms, i) ==
    [k \in DOMAIN ms |-> [ms[k] EXCEPT !.counted = @ /\ ms[k].id # i]]

\* The loop declares an id of its own: what is unmapped is the selected area,
\* whatever the argument says.
UnmapArea(f) ==
    /\ InCall(f, "UNMAP")
    /\ IF selected[f] \in slots[f]
       THEN /\ Uncount({selected[f]})
            /\ slots' = [slots EXCEPT ![f] = @ \ {selected[f]}]
            /\ maps' = [maps EXCEPT ![f] = Uncounted(@, selected[f])]
       ELSE UNCHANGED <<usage, totals, slots, maps>>
    /\ Leave(f, "none")
    /\ UNCHANGED <<ids, opened, selected>>

\* Slip: what the file itself has mapped decides whether the area is in use.
DestroyUnlessMine(f) ==
    LET i == arg[f] IN
    /\ InCall(f, "DESTROY")
    /\ ids' = IF Listed(i) /\ i \notin slots[f] \cup CardIds
              THEN [ids EXCEPT ![Row(i)] = NoArea] ELSE ids
    /\ Leave(f, "none")
    /\ UNCHANGED <<usage, totals, filevars>>

\* bspshm_destroy_area_sub refuses an area in use, and one of the BSP.
DestroyArea(f) ==
    LET i == arg[f] IN
    /\ InCall(f, "DESTROY")
    /\ ids' = IF Listed(i) /\ usage[Row(i)] = 0 /\ i \notin CardIds
              THEN [ids EXCEPT ![Row(i)] = NoArea] ELSE ids
    /\ Leave(f, "none")
    /\ UNCHANGED <<usage, totals, filevars>>

ReleaseFile(f) ==
    /\ InCall(f, "RELEASE")
    /\ Uncount(slots[f])
    /\ Closed(f)
    /\ Leave(f, "none")
    /\ UNCHANGED <<ids, maps>>

\* Slip: a reset also frees the lock.
ResetUnlocking(f) ==
    /\ phase[f] = "user" /\ call[f] = "none" /\ f \in opened
    /\ shmCalls < MaxShmCalls /\ shmCalls' = shmCalls + 1
    /\ ~SemHeld
    /\ ids' = [e \in Rows |-> IF ids[e] \in CardIds THEN NoArea ELSE ids[e]]
    /\ timeout' = FALSE /\ lock' = 1
    /\ wiped' = (wiped \/ \E g \in Host : slots[g] \cap CardIds # {} \/ phase[g] # "user")
    /\ UNCHANGED <<usage, totals, filevars, failed, tries, cardTries, call, arg, phase>>

\* bspshm_reset takes the semaphore of the host but not the lock.
ResetTable(f) ==
    /\ phase[f] = "user" /\ call[f] = "none" /\ f \in opened
    /\ shmCalls < MaxShmCalls /\ shmCalls' = shmCalls + 1
    /\ ~SemHeld
    /\ ids' = [e \in Rows |-> IF ids[e] \in CardIds THEN NoArea ELSE ids[e]]
    /\ timeout' = FALSE
    /\ wiped' = (wiped \/ \E g \in Host : slots[g] \cap CardIds # {} \/ phase[g] # "user")
    /\ UNCHANGED <<usage, totals, filevars, lock, failed, tries, cardTries, call,
                   arg, phase>>

----------------------------------------------------------------------------
(* The BSP.  It creates an area of its own when it has the lock. *)

CardBegin(b) ==
    /\ phase[b] = "user" /\ cardTries < MaxCardTries
    /\ cardTries' = cardTries + 1
    /\ At(b, "lock")
    /\ UNCHANGED <<tablevars, filevars, lock, timeout, failed, tries, call, arg,
                   shmCalls, wiped>>

CardTry(b) ==
    /\ TryLock(b) /\ cardTries < MaxCardTries
    /\ cardTries' = cardTries + 1

CardLeave(b) ==
    /\ phase[b] = "in"
    /\ \/ /\ FreeRows # {}
          /\ \E i \in CardIds : /\ ~Listed(i)
                                /\ ids' = [ids EXCEPT ![Row(NoArea)] = i]
          /\ usage' = [usage EXCEPT ![Row(NoArea)] = 0]
       \/ UNCHANGED <<ids, usage>>
    /\ lock' = lock + 1
    /\ At(b, "user")
    /\ UNCHANGED <<totals, filevars, timeout, failed, tries, cardTries, call, arg,
                   shmCalls, wiped>>

----------------------------------------------------------------------------
(* The library *)

Start(f, first, i) ==
    /\ phase[f] = "user" /\ call[f] = "none" /\ f \in opened
    /\ shmCalls < MaxShmCalls /\ shmCalls' = shmCalls + 1
    /\ call' = [call EXCEPT ![f] = first]
    /\ arg' = [arg EXCEPT ![f] = i]
    /\ UNCHANGED <<tablevars, opened, selected, slots, lockvars, phase, wiped>>

\* An area in the memory of the BSP is refused at once (-EINVAL).
bsp_create_area(f, i) ==
    i \notin CardIds /\ Start(f, "CREATE", i) /\ UNCHANGED maps
bsp_get_area(f, i) == Start(f, "GET", i) /\ UNCHANGED maps
bsp_destroy_area(f, i) == Start(f, "DESTROY", i) /\ UNCHANGED maps

\* bsp_unmap_area removes the mapping and then tells the driver.
bsp_unmap_area(f, k) ==
    /\ Start(f, "UNMAP", maps[f][k].id)
    /\ maps' = [maps EXCEPT ![f] = RemoveAt(@, k)]

\* The process ends, also between two system calls of a library call.
ExitProcess(f) ==
    /\ phase[f] = "user" /\ call[f] # "RELEASE" /\ f \in opened
    /\ shmCalls < MaxShmCalls /\ shmCalls' = shmCalls + 1
    /\ maps' = [maps EXCEPT ![f] = <<>>]
    /\ call' = [call EXCEPT ![f] = "RELEASE"]
    /\ arg' = [arg EXCEPT ![f] = NoArea]
    /\ UNCHANGED <<tablevars, opened, selected, slots, lockvars, phase, wiped>>

\* bsp_init; bspshm_open refuses as long as lock_timeout is set.
bsp_init(f) ==
    /\ f \notin opened /\ ~timeout
    /\ opened' = opened \cup {f}
    /\ UNCHANGED <<tablevars, selected, slots, maps, lockvars, call, arg, phase,
                   shmCalls, wiped>>

----------------------------------------------------------------------------

ShmInit ==
    /\ ids = [e \in Rows |-> NoArea]
    /\ usage = [e \in Rows |-> 0]
    /\ totals = [m \in {"bsp", "host"} |-> 0]
    /\ lock = 1 /\ timeout = FALSE /\ failed = 0
    /\ opened = {}
    /\ selected = [f \in Host |-> NoArea]
    /\ slots = [f \in Host |-> {}]
    /\ maps = [f \in Host |-> <<>>]
    /\ call = [f \in Host |-> "none"]
    /\ arg = [f \in Host |-> NoArea]
    /\ phase = [p \in Procs |-> "user"]
    /\ tries = [p \in Procs |-> 0]
    /\ shmCalls = 0 /\ cardTries = 0 /\ wiped = FALSE

InTable(f) == \/ GetArea(f) \/ SetId(f) \/ CreateArea(f) \/ MmapArea(f)
              \/ UnmapArea(f) \/ DestroyArea(f) \/ ReleaseFile(f)

HostTry(f) == tries[f] <= LockTries /\ TryLock(f) /\ UNCHANGED cardTries

\* What a process does by itself until its library call returns.
HostStep(f) == \/ Begin(f) \/ DownSem(f) \/ HostTry(f) \/ InTable(f)
               \/ GiveUp(f) \/ FailAtOnce(f)

LibraryCall(f) ==
    \/ \E i \in AreaIds : \/ bsp_create_area(f, i) \/ bsp_get_area(f, i)
                          \/ bsp_destroy_area(f, i)
    \/ \E k \in DOMAIN maps[f] : bsp_unmap_area(f, k)
    \/ ExitProcess(f) \/ bsp_init(f) \/ ResetTable(f)

CardStep(b) == CardBegin(b) \/ CardTry(b) \/ CardLeave(b)

ShmNext == \/ \E f \in Host : HostStep(f) \/ LibraryCall(f)
           \/ \E b \in Card : CardStep(b)

ShmSpec == ShmInit /\ [][ShmNext]_shmVars

----------------------------------------------------------------------------
(* Properties *)

\* The type of the variables.
ShmTypeOK ==
    /\ ids \in [Rows -> AreaIds \cup {NoArea}]
    /\ usage \in [Rows -> Int]
    /\ totals \in [{"bsp", "host"} -> Int]
    /\ lock \in Int /\ timeout \in BOOLEAN /\ failed \in Nat
    /\ opened \subseteq Host
    /\ selected \in [Host -> AreaIds \cup {NoArea}]
    /\ slots \in [Host -> SUBSET AreaIds]
    /\ maps \in [Host -> Seq([id : AreaIds, entry : Rows, counted : BOOLEAN])]
    /\ call \in [Host -> {"none", "GET", "SET_ID", "MMAP", "CREATE", "UNMAP",
                          "DESTROY", "RELEASE"}]
    /\ arg \in [Host -> AreaIds \cup {NoArea}]
    /\ phase \in [Procs -> {"user", "down", "lock", "in"}]
    /\ tries \in [Procs -> Nat]
    /\ shmCalls \in 0..MaxShmCalls /\ cardTries \in 0..MaxCardTries
    /\ wiped \in BOOLEAN

\* The host and the BSP are never in the table together ("The lock is shared
\* between Geode and BSP"), whatever fails, gives up, is reset or ends.
TableExclusive == \A p, q \in Procs : phase[p] = "in" /\ phase[q] = "in" => p = q

\* As long as the driver counts a mapping, a page fault in it (bspshm_nopage
\* reads the entry that was noted when it was made) finds the area that was
\* mapped, also after calls that timed out and processes that ended without
\* the lock - unless an area in use has been reset.
FaultsFindArea ==
    ~wiped => \A f \in Host : \A k \in DOMAIN maps[f] :
        maps[f][k].counted => ids[maps[f][k].entry] = maps[f][k].id

\* With nobody in the table or on the way to it the lock is free, so that the
\* next process gets it.
FreeWhenIdle == (\A p \in Procs : phase[p] \in {"user", "down"}) => lock = 1

=============================================================================
