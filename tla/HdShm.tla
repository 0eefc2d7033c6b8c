------------------------------- MODULE HdShm -------------------------------
(***************************************************************************)
(* The driver of the memory shared by the host and the HD extension        *)
(* (hdshm.c, hdshm_gen.h) and the host library that calls it (hdshmlib.c). *)
(*                                                                         *)
(* One table of areas lives in the shared memory.  Each side runs its own  *)
(* copy of the driver; the processes of both sides enter the table under a *)
(* lock that is a counter in the same memory, reached by the host over     *)
(* PCI.  A process is identified with its open file and has one thread.    *)
(***************************************************************************)
EXTENDS Integers, FiniteSets, Sequences

CONSTANTS
    Host,       \* the processes on the host
    Hd,         \* the processes on the HD extension
    HostTries,  \* hdd.lock_tries on the host (never set there: 0)
    HdTries,    \* hdd.lock_tries on the extension (600)
    Ids,        \* the identifiers of areas
    DmaIds,     \* those whose areas are created with HDSHM_MEM_DMA
    NoId,       \* 0
    NEntries,   \* ENTRIES_FOR_ROOT
    NPages,     \* HD_ALLOC_PAGES
    RootPages,  \* PAGES_FOR_ROOT, the pages of the table itself
    Sizes,      \* lengths of areas, in pages
    DmaPhys,    \* where host memory lies, in pages from MAP_START
    NSlots,     \* MAPPED_IDS_PER_FILE
    MaxCalls    \* bound on the calls to the library

ASSUME SidesAssumption == Host \cap Hd = {} /\ IsFiniteSet(Host \cup Hd)
ASSUME TriesAssumption == HostTries \in Nat /\ HdTries \in Nat
ASSUME IdsAssumption == DmaIds \subseteq Ids /\ NoId \notin Ids
ASSUME TableAssumption ==
    /\ NEntries \in Nat /\ NPages \in Nat /\ NSlots \in Nat /\ MaxCalls \in Nat
    /\ RootPages \in 0..NPages
    /\ Sizes \subseteq Nat \ {0}
\* The buffers of the host do not lie in the window of the extension.
ASSUME DmaAssumption == DmaPhys \subseteq Nat /\ \A p \in DmaPhys : p >= NPages

Files == Host \cup Hd
Entries == 1..NEntries
Pages == 0..(NPages - 1)

VARIABLES
    ids,       \* hd_root->ids: the area of each entry, or NoId
    entries,   \* hd_root->entries: where it lies, and how often it is mapped
    alloc,     \* hd_root->alloc_bits: the pages that are marked
    totals,    \* hd_root->hd_usage and host_usage
    lock,      \* hd_root->table_lock: 1 when free
    selected,  \* bsf->id: the area the file has selected
    slots,     \* bsf->bsm: the areas the file has mapped, as the driver knows
    maps,      \* the mappings the process really has, oldest first
    ioctl,     \* the next system call of the library call in progress
    arg,       \* its arguments
    phase,     \* how far the system call is
    tries,     \* failed attempts to lock
    seen,      \* the value of the lock this processor has loaded
    found,     \* the entry and the page a search has found
    calls,     \* number of library calls so far
    raced,     \* history: two processes have been in the table at once
    wiped      \* history: a reset has cleared an area that was mapped

table == <<ids, entries, alloc, totals>>
filevars == <<selected, slots, maps>>
locking == <<lock, tries, seen, raced>>
vars == <<table, filevars, locking, ioctl, arg, phase, found, calls, wiped>>

----------------------------------------------------------------------------
(* The table *)

Live(i) == \E e \in Entries : ids[e] = i

\* hdshm_find_area returns the first entry with this id.
Find(i) == CHOOSE e \in Entries : ids[e] = i /\ \A d \in 1..(e - 1) : ids[d] # i

Span(start, n) == start..(start + n - 1)
Area(e) == IF entries[e].dma THEN {}
           ELSE Span(entries[e].start, entries[e].pages)

\* hdshm_allocate_memory: the first run of n unmarked pages.
Fits(n) == {s \in Pages : s + n <= NPages /\ Span(s, n) \cap alloc = {}}
FirstFit(n) == CHOOSE s \in Fits(n) : \A t \in Fits(n) : s <= t

\* Slip: one page too many is marked.
MarkOneMore(start, n) == IF start + n > NPages THEN alloc ELSE alloc \cup Span(start, n + 1)
\* Slip: one page too few is marked.
MarkOneLess(start, n) == IF start + n > NPages THEN alloc ELSE alloc \cup Span(start, n - 1)

\* hdshm_allocate_mark ignores a span that is not in the window.
Mark(start, n) == IF start + n > NPages THEN alloc ELSE alloc \cup Span(start, n)
Unmark(start, n) == IF start + n > NPages THEN alloc ELSE alloc \ Span(start, n)

Memory(e) == IF entries[e].dma THEN "host" ELSE "hd"

\* hdshm_unmap_area_sub for the areas of a set.
UnmapSub(S) ==
    LET hit == {e \in Entries : \E i \in S : Live(i) /\ Find(i) = e}
        of(m) == Cardinality({e \in hit : Memory(e) = m})
    IN /\ entries' = [e \in Entries |->
             IF e \in hit THEN [entries[e] EXCEPT !.usage = @ - 1] ELSE entries[e]]
       /\ totals' = [m \in {"hd", "host"} |-> totals[m] - of(m)]

----------------------------------------------------------------------------
(* The lock *)

Side(f) == IF f \in Host THEN Host ELSE Hd
Tries(f) == IF f \in Host THEN HostTries ELSE HdTries

\* A decrement or increment over PCI is a load and a store; only the other
\* processors of its own side wait for it.
BusFree(f) == \A g \in Side(f) : phase[g] \notin {"decStore", "incStore"}

\* table_sem is held while a file tries to lock.
SemFree(f) == \A g \in Side(f) : phase[g] \notin {"dec", "decStore"}

InTable(f) == phase[f] \in {"in", "do"}

Goto(f, p) == phase' = [phase EXCEPT ![f] = p]

NoArg == [id |-> NoId, pages |-> 0]
Nowhere == [entry |-> 0, start |-> 0]

\* The system call the library makes after this one.
Then(f, next) ==
    /\ ioctl' = [ioctl EXCEPT ![f] = next]
    /\ arg' = IF next = "none" THEN [arg EXCEPT ![f] = NoArg] ELSE arg

Down(f) ==
    /\ phase[f] = "user" /\ ioctl[f] # "none"
    /\ ioctl[f] = "MMAP" => selected[f] # NoId
    /\ SemFree(f)
    /\ Goto(f, "dec")
    /\ UNCHANGED <<table, filevars, locking, ioctl, arg, found, calls, wiped>>

\* hdshm_mmap with nothing selected returns before it locks.
MmapNothing(f) ==
    /\ phase[f] = "user" /\ ioctl[f] = "MMAP" /\ selected[f] = NoId
    /\ Then(f, "none")
    /\ UNCHANGED <<table, filevars, locking, phase, found, calls, wiped>>

LockLoad(f) ==
    /\ phase[f] = "dec" /\ BusFree(f)
    /\ seen' = [seen EXCEPT ![f] = lock]
    /\ Goto(f, "decStore")
    /\ UNCHANGED <<table, filevars, lock, tries, raced, ioctl, arg, found, calls, wiped>>

TimedOut(f) == tries[f] + 1 > Tries(f)

Enter(f) ==
    /\ Goto(f, "in")
    /\ tries' = [tries EXCEPT ![f] = 0]
    /\ raced' = (raced \/ \E g \in Files \ {f} : InTable(g))

LockStore(f) ==
    /\ phase[f] = "decStore"
    /\ lock' = seen[f] - 1
    /\ seen' = [seen EXCEPT ![f] = 0]
    /\ \/ lock' = 0 /\ Enter(f)
       \/ lock' # 0 /\ TimedOut(f) /\ Enter(f)          \* "Ignore Timeout"
       \/ /\ lock' # 0 /\ ~TimedOut(f) /\ Goto(f, "dec")
          /\ tries' = [tries EXCEPT ![f] = @ + 1]
          /\ UNCHANGED raced
    /\ UNCHANGED <<table, filevars, ioctl, arg, found, calls, wiped>>

UnlockLoad(f) ==
    /\ phase[f] = "inc" /\ BusFree(f)
    /\ seen' = [seen EXCEPT ![f] = lock]
    /\ Goto(f, "incStore")
    /\ UNCHANGED <<table, filevars, lock, tries, raced, ioctl, arg, found, calls, wiped>>

UnlockStore(f) ==
    /\ phase[f] = "incStore"
    /\ lock' = seen[f] + 1
    /\ seen' = [seen EXCEPT ![f] = 0]
    /\ Goto(f, "user")
    /\ UNCHANGED <<table, filevars, tries, raced, ioctl, arg, found, calls, wiped>>

----------------------------------------------------------------------------
(* The system calls, in the table.  One that is done unlocks, and the      *)
(* library goes on with the call next, or returns when it is "none".       *)

In(f, call) == phase[f] = "in" /\ ioctl[f] = call

Done(f, next) ==
    /\ Goto(f, "inc")
    /\ Then(f, next)
    /\ found' = [found EXCEPT ![f] = Nowhere]
    /\ UNCHANGED <<locking, calls, wiped>>

GetArea(f) ==
    /\ In(f, "GET")
    /\ Done(f, IF Live(arg[f].id) THEN "SET_ID" ELSE "none")
    /\ UNCHANGED <<table, filevars>>

\* The library does not look at the result of SET_ID.
SetId(f) ==
    /\ In(f, "SET_ID")
    /\ selected' = IF Live(arg[f].id) THEN [selected EXCEPT ![f] = arg[f].id] ELSE selected
    /\ Done(f, "MMAP")
    /\ UNCHANGED <<table, slots, maps>>

\* -EEXIST is no error to the library; a full table or no memory is, and the
\* host may always be short of memory for DMA.
CreateRefused(f) ==
    LET i == arg[f].id IN
    /\ In(f, "CREATE")
    /\ \/ Live(i) /\ Done(f, "GET")
       \/ /\ ~Live(i)
          /\ ~Live(NoId) \/ i \in DmaIds \/ Fits(arg[f].pages) = {}
          /\ Done(f, "none")
    /\ UNCHANGED <<table, filevars>>

CreateFind(f) ==
    LET i == arg[f].id IN
    /\ In(f, "CREATE") /\ ~Live(i) /\ Live(NoId)
    /\ \/ /\ i \in DmaIds
          /\ \E p \in DmaPhys :
                found' = [found EXCEPT ![f] = [entry |-> Find(NoId), start |-> p]]
       \/ /\ i \notin DmaIds /\ Fits(arg[f].pages) # {}
          /\ found' = [found EXCEPT ![f] =
                [entry |-> Find(NoId), start |-> FirstFit(arg[f].pages)]]
    /\ Goto(f, "do")
    /\ UNCHANGED <<table, filevars, locking, ioctl, arg, calls, wiped>>

CreateClaim(f) ==
    LET e == found[f].entry
        s == found[f].start
        dma == arg[f].id \in DmaIds
    IN
    /\ phase[f] = "do" /\ ioctl[f] = "CREATE"
    /\ alloc' = IF dma THEN alloc ELSE Mark(s, arg[f].pages)
    /\ entries' = [entries EXCEPT ![e] =
          [usage |-> 0, dma |-> dma, start |-> s, pages |-> arg[f].pages]]
    /\ ids' = [ids EXCEPT ![e] = arg[f].id]
    /\ Done(f, "GET")
    /\ UNCHANGED <<totals, filevars>>

MmapRefused(f) ==
    /\ In(f, "MMAP")
    /\ selected[f] \in slots[f] \/ ~Live(selected[f])
    /\ Done(f, "none")
    /\ UNCHANGED <<table, filevars>>

MmapFind(f) ==
    /\ In(f, "MMAP")
    /\ selected[f] \notin slots[f] /\ Live(selected[f])
    /\ found' = [found EXCEPT ![f] = [@ EXCEPT !.entry = Find(selected[f])]]
    /\ Goto(f, "do")
    /\ UNCHANGED <<table, filevars, locking, ioctl, arg, calls, wiped>>

\* With all slots in use the area is mapped and counted but not noted.
MmapClaim(f) ==
    LET e == found[f].entry IN
    /\ phase[f] = "do" /\ ioctl[f] = "MMAP"
    /\ totals' = [totals EXCEPT ![Memory(e)] = @ + 1]
    /\ entries' = [entries EXCEPT ![e].usage = @ + 1]
    /\ slots' = IF Cardinality(slots[f]) < NSlots
                THEN [slots EXCEPT ![f] = @ \cup {selected[f]}] ELSE slots
    /\ maps' = [maps EXCEPT ![f] = Append(@, [id |-> selected[f], area |-> Area(e)])]
    /\ Done(f, "none")
    /\ UNCHANGED <<ids, alloc, selected>>

\* Slip: the selected area is forgotten, but the one of the argument uncounted.
UnmapOther(f) ==
    /\ In(f, "UNMAP")
    /\ IF selected[f] \in slots[f]
       THEN /\ UnmapSub({arg[f].id})
            /\ slots' = [slots EXCEPT ![f] = @ \ {selected[f]}]
       ELSE UNCHANGED <<entries, totals, slots>>
    /\ Done(f, "none")
    /\ UNCHANGED <<ids, alloc, selected, maps>>

\* The loop declares an id of its own: what is unmapped is the selected area,
\* whatever the argument says.
UnmapArea(f) ==
    /\ In(f, "UNMAP")
    /\ IF selected[f] \in slots[f]
       THEN /\ UnmapSub({selected[f]})
            /\ slots' = [slots EXCEPT ![f] = @ \ {selected[f]}]
       ELSE UNCHANGED <<entries, totals, slots>>
    /\ Done(f, "none")
    /\ UNCHANGED <<ids, alloc, selected, maps>>

\* Slip: an area in use can be destroyed.
DestroyableInUse(i) == Live(i) /\ entries[Find(i)].dma

Destroyable(i) == Live(i) /\ entries[Find(i)].usage = 0 /\ entries[Find(i)].dma

DestroyArea(f) ==
    LET i == arg[f].id
        e == Find(i)
    IN
    /\ In(f, "DESTROY")
    /\ IF Destroyable(i)
       THEN /\ alloc' = Unmark(entries[e].start, entries[e].pages)
            /\ ids' = [ids EXCEPT ![e] = NoId]
       ELSE UNCHANGED <<alloc, ids>>
    /\ Done(f, "none")
    /\ UNCHANGED <<entries, totals, filevars>>

\* hdshm_release, after the last mapping of the file is gone.
Release(f) ==
    /\ In(f, "RELEASE")
    /\ UnmapSub(slots[f])
    /\ slots' = [slots EXCEPT ![f] = {}]
    /\ selected' = [selected EXCEPT ![f] = NoId]
    /\ Done(f, "none")
    /\ UNCHANGED <<ids, alloc, maps>>

\* Slip: reset gives the pages of the areas back.
ResetFreeing(f) ==
    LET hd == {e \in Entries : ids[e] # NoId /\ ~entries[e].dma} IN
    /\ phase[f] = "user" /\ ioctl[f] = "none" /\ calls < MaxCalls
    /\ SemFree(f)
    /\ ids' = [e \in Entries |-> IF e \in hd THEN NoId ELSE ids[e]]
    /\ alloc' = alloc \ UNION {Area(e) : e \in hd}
    /\ calls' = calls + 1
    /\ wiped' = (wiped \/ \E g \in Files : \/ slots[g] # {} \/ InTable(g))
    /\ UNCHANGED <<entries, totals, filevars, locking, ioctl, arg, phase, found>>

\* hdshm_reset takes only the semaphore of its side.
Reset(f) ==
    LET hd == {e \in Entries : ids[e] # NoId /\ ~entries[e].dma} IN
    /\ phase[f] = "user" /\ ioctl[f] = "none" /\ calls < MaxCalls
    /\ SemFree(f)
    /\ ids' = [e \in Entries |-> IF e \in hd THEN NoId ELSE ids[e]]
    /\ calls' = calls + 1
    /\ wiped' = (wiped \/ \E g \in Files : \/ slots[g] # {} \/ InTable(g))
    /\ UNCHANGED <<entries, alloc, totals, filevars, locking, ioctl, arg, phase, found>>

----------------------------------------------------------------------------
(* The library *)

Call(f, first, i, n) ==
    /\ phase[f] = "user" /\ ioctl[f] = "none" /\ calls < MaxCalls
    /\ ioctl' = [ioctl EXCEPT ![f] = first]
    /\ arg' = [arg EXCEPT ![f] = [id |-> i, pages |-> n]]
    /\ calls' = calls + 1
    /\ UNCHANGED <<table, selected, slots, locking, phase, found, wiped>>

\* The extension may only create areas in its own memory.
hd_create_area(f, i, n) ==
    (i \in DmaIds => f \in Host) /\ Call(f, "CREATE", i, n) /\ UNCHANGED maps

hd_get_area(f, i) == Call(f, "GET", i, 0) /\ UNCHANGED maps

hd_destroy_area(f, i) == Call(f, "DESTROY", i, 0) /\ UNCHANGED maps

\* hd_unmap_area removes the mapping and then tells the driver.
hd_unmap_area(f, k) ==
    /\ Call(f, "UNMAP", maps[f][k].id, 0)
    /\ maps' = [maps EXCEPT ![f] = SubSeq(@, 1, k - 1) \o SubSeq(@, k + 1, Len(@))]

\* The process ends or is killed, also between two system calls of a library
\* call; the next one opens the file anew.
Exit(f) ==
    /\ phase[f] = "user" /\ ioctl[f] # "RELEASE" /\ calls < MaxCalls
    /\ maps' = [maps EXCEPT ![f] = <<>>]
    /\ ioctl' = [ioctl EXCEPT ![f] = "RELEASE"]
    /\ arg' = [arg EXCEPT ![f] = NoArg]
    /\ calls' = calls + 1
    /\ UNCHANGED <<table, selected, slots, locking, phase, found, wiped>>

----------------------------------------------------------------------------

Init ==
    /\ ids = [e \in Entries |-> NoId]
    /\ entries = [e \in Entries |-> [usage |-> 0, dma |-> FALSE, start |-> 0, pages |-> 0]]
    /\ alloc = 0..(RootPages - 1)
    /\ totals = [m \in {"hd", "host"} |-> 0]
    /\ lock = 1
    /\ selected = [f \in Files |-> NoId]
    /\ slots = [f \in Files |-> {}]
    /\ maps = [f \in Files |-> <<>>]
    /\ ioctl = [f \in Files |-> "none"]
    /\ arg = [f \in Files |-> NoArg]
    /\ phase = [f \in Files |-> "user"]
    /\ tries = [f \in Files |-> 0]
    /\ seen = [f \in Files |-> 0]
    /\ found = [f \in Files |-> Nowhere]
    /\ calls = 0
    /\ raced = FALSE
    /\ wiped = FALSE

Body(f) ==
    \/ GetArea(f) \/ SetId(f)
    \/ CreateRefused(f) \/ CreateFind(f) \/ CreateClaim(f)
    \/ MmapRefused(f) \/ MmapFind(f) \/ MmapClaim(f)
    \/ UnmapArea(f) \/ DestroyArea(f) \/ Release(f)

\* What a process does by itself until its library call returns.
Step(f) ==
    \/ Down(f) \/ MmapNothing(f) \/ LockLoad(f) \/ LockStore(f)
    \/ Body(f) \/ UnlockLoad(f) \/ UnlockStore(f)

LibraryCall(f) ==
    \/ \E i \in Ids : \/ \E n \in Sizes : hd_create_area(f, i, n)
                      \/ hd_get_area(f, i)
                      \/ hd_destroy_area(f, i)
    \/ \E k \in DOMAIN maps[f] : hd_unmap_area(f, k)
    \/ Exit(f)
    \/ Reset(f)

Next == \E f \in Files : Step(f) \/ LibraryCall(f)

Spec == Init /\ [][Next]_vars /\ \A f \in Files : WF_vars(Step(f))

----------------------------------------------------------------------------
(* Properties *)

\* The type of the variables.
TypeOK ==
    /\ ids \in [Entries -> Ids \cup {NoId}]
    /\ entries \in [Entries -> [usage : Int, dma : BOOLEAN, start : Nat, pages : Nat]]
    /\ alloc \subseteq Pages
    /\ totals \in [{"hd", "host"} -> Int]
    /\ lock \in Int
    /\ selected \in [Files -> Ids \cup {NoId}]
    /\ slots \in [Files -> SUBSET Ids]
    /\ maps \in [Files -> Seq([id : Ids, area : SUBSET Nat])]
    /\ ioctl \in [Files -> {"none", "GET", "SET_ID", "MMAP", "CREATE",
                            "UNMAP", "DESTROY", "RELEASE"}]
    /\ arg \in [Files -> [id : Ids \cup {NoId}, pages : Nat]]
    /\ phase \in [Files -> {"user", "dec", "decStore", "in", "do", "inc", "incStore"}]
    /\ tries \in [Files -> Nat]
    /\ seen \in [Files -> Int]
    /\ found \in [Files -> [entry : Entries \cup {0}, start : Nat]]
    /\ calls \in 0..MaxCalls
    /\ raced \in BOOLEAN /\ wiped \in BOOLEAN

\* As long as the lock has kept the processes apart there is one area per id,
\* and no two areas of the extension share a page with each other or with the
\* table: what create has searched is still true when it writes, even when a
\* reset, which does not take the lock, comes in between.
AreasDisjoint ==
    ~raced => \A e, d \in Entries : ids[e] # NoId =>
        /\ Area(e) \subseteq alloc \ (0..(RootPages - 1))
        /\ (d # e /\ ids[d] # NoId) => /\ ids[d] # ids[e]
                                       /\ Area(d) \cap Area(e) = {}

\* A process never finds another area's data in a mapping it still has,
\* although the area may have been reset, and its id created anew since.
MappedPagesSafe ==
    ~raced => \A f \in Files : \A k \in DOMAIN maps[f] : \A e \in Entries :
        ids[e] # NoId /\ ids[e] # maps[f][k].id => Area(e) \cap maps[f][k].area = {}

\* The usage of an area is never less than the mappings the driver has noted,
\* however processes map, unmap and are killed, unless an area that was in use
\* has been reset.
UsageCounts ==
    ~raced /\ ~wiped => \A e \in Entries : ids[e] # NoId =>
        entries[e].usage >= Cardinality({f \in Files : ids[e] \in slots[f]})

\* Destroying removes no area that a process has mapped.
DestroyedUnmapped ==
    [][\A e \in Entries :
          ids[e] # NoId /\ ids'[e] = NoId /\ entries[e].dma /\ ~raced /\ ~wiped
              => \A f \in Files : ids[e] \notin slots[f]]_vars

\* A process maps an area at most once (hdshm_mmap: "Only one mapping per id
\* per process").
OneMappingPerId ==
    \A f \in Files : \A j, k \in DOMAIN maps[f] :
        j # k => maps[f][j].id # maps[f][k].id

\* The helpers that search and change the table are called under its lock
\* (hdshm_gen.h: "Needs table_lock").
TableLocked == \A f, g \in Files : InTable(f) /\ InTable(g) => f = g

=============================================================================
