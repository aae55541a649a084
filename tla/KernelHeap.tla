----------------------------- MODULE KernelHeap -----------------------------
(***************************************************************************)
(* The kernel heap (memory/mman.c): a table of regions of the addresses    *)
(* above the kernel, searched first fit, split on allocation and never     *)
(* joined.  Addresses and sizes are counted in pages from                  *)
(* kernel_heap_start; a request has at least one page, as all of the       *)
(* kernel's requests do.                                                   *)
(***************************************************************************)
EXTENDS Integers, FiniteSets

CONSTANTS
    ALLOC_MAP_SIZE,   \* 1024 in the source
    HeapPages,        \* map[0].pages after init_mman
    MaxRequest        \* the largest request explored

ASSUME HeapAssumption ==
    /\ ALLOC_MAP_SIZE \in Nat /\ ALLOC_MAP_SIZE > 1
    /\ HeapPages \in Nat \ {0} /\ MaxRequest \in Nat \ {0}

MapSlots == 0 .. ALLOC_MAP_SIZE - 1
Requests == 1 .. MaxRequest
KernelPages == 0 .. HeapPages - 1

VARIABLES
    map,        \* map[i] = [start, pages, free]
    map_index,  \* entries in use
    mapped,     \* pages mapped in the kernel's page tables
    held,       \* what kmalloc returned and was not freed: [start, pages]
    panicked    \* the message of the panic, or "no"

heap_vars == <<map, map_index, mapped, held, panicked>>

Run(start, pages) == start .. start + pages - 1
Region(i) == Run(map[i].start, map[i].pages)
UsedSlots == 0 .. map_index - 1

\* init_mman
HeapInit ==
    /\ map = [i \in MapSlots |-> [start |-> 0, free |-> i = 0,
                               pages |-> IF i = 0 THEN HeapPages ELSE 0]]
    /\ map_index = 1
    /\ mapped = {} /\ held = {} /\ panicked = "no"

\* find_available_va: the first free entry that is large enough.
Fits(i, n) == i \in UsedSlots /\ map[i].free /\ map[i].pages >= n
FirstFit(i, n) == Fits(i, n) /\ \A j \in UsedSlots : j < i => ~Fits(j, n)

\* What is left of entry i after n pages are taken from it.
Rest(i, n) == [start |-> map[i].start + n, pages |-> map[i].pages - n, free |-> TRUE]

\* The table after entry i is cut to n pages and taken.
Take(i, n) ==
    IF map[i].pages > n
    THEN [map EXCEPT ![map_index] = Rest(i, n), ![i].pages = n, ![i].free = FALSE]
    ELSE [map EXCEPT ![i].free = FALSE]

\* kmalloc: find_available_va, then alloc_region, which panics on a mapped page.
kmalloc(n) ==
    \/ /\ \A i \in UsedSlots : ~Fits(i, n)
       /\ panicked' = "Out of kernel heap addresses"
       /\ UNCHANGED <<map, map_index, mapped, held>>
    \/ \E i \in UsedSlots :
        LET grown == map_index + (IF map[i].pages > n THEN 1 ELSE 0)
            run == Run(map[i].start, n)
            full == grown >= ALLOC_MAP_SIZE
            clash == run \cap mapped # {}
        IN /\ FirstFit(i, n)
           /\ map' = IF full THEN [map EXCEPT ![map_index] = Rest(i, n)] ELSE Take(i, n)
           /\ map_index' = grown
           /\ panicked' = IF full THEN "Too many kernel allocations"
                          ELSE IF clash THEN "already mapped" ELSE panicked
           /\ mapped' = IF full \/ clash THEN mapped ELSE mapped \cup run
           /\ held' = IF full \/ clash THEN held
                      ELSE held \cup {[start |-> map[i].start, pages |-> n]}

\* Mutant: the region is marked free, its pages stay mapped.
UnmapNothing(i) == mapped

\* Mutant: the loop runs one page too far.
UnmapOneMore(i) == mapped \ Run(map[i].start, map[i].pages + 1)

Unmap(i) == mapped \ Region(i)

\* kfree of a pointer kmalloc returned: the last entry that starts there.
kfree(a) ==
    /\ a \in held
    /\ \E i \in UsedSlots :
        /\ map[i].start = a.start
        /\ \A j \in UsedSlots : map[j].start = a.start => j <= i
        /\ mapped' = Unmap(i)
        /\ map' = [map EXCEPT ![i].free = TRUE]
    /\ held' = held \ {a}
    /\ UNCHANGED <<map_index, panicked>>

HeapNext ==
    /\ panicked = "no"
    /\ \/ \E n \in Requests : kmalloc(n)
       \/ \E a \in held : kfree(a)

HeapSpec == HeapInit /\ [][HeapNext]_heap_vars

----------------------------------------------------------------------------
HeapTypeOK ==
    /\ map \in [MapSlots -> [start : 0 .. HeapPages, pages : 0 .. HeapPages, free : BOOLEAN]]
    /\ map_index \in 1 .. ALLOC_MAP_SIZE
    /\ mapped \subseteq KernelPages
    /\ held \subseteq [start : 0 .. HeapPages, pages : 1 .. HeapPages]
    /\ panicked \in {"no", "Out of kernel heap addresses",
                     "Too many kernel allocations", "already mapped"}

\* While the kernel runs, the entries of the table cut the heap into pieces
\* that do not overlap and leave nothing out, whatever is split and freed.
RegionsTile ==
    panicked = "no" =>
        /\ \A i, j \in UsedSlots : i # j => Region(i) \cap Region(j) = {}
        /\ \A p \in KernelPages : \E i \in UsedSlots : p \in Region(i)

\* While the kernel runs, what is held is what the table says is taken.
HeldAreTaken ==
    panicked = "no" =>
        /\ map_index < ALLOC_MAP_SIZE
        /\ \A i \in UsedSlots : map[i].pages >= 1 /\ map[i].start + map[i].pages <= HeapPages
        /\ \A a \in held : \E i \in UsedSlots :
                ~map[i].free /\ map[i].start = a.start /\ map[i].pages = a.pages
        /\ \A i \in UsedSlots : ~map[i].free => [start |-> map[i].start, pages |-> map[i].pages] \in held

\* Two allocations that are held never share a page, and each has all of its
\* pages mapped: no holder writes into another one's memory or faults on its own.
HeldAreDisjoint ==
    /\ \A a, b \in held : a # b => Run(a.start, a.pages) \cap Run(b.start, b.pages) = {}
    /\ \A a \in held : Run(a.start, a.pages) \subseteq mapped

\* Only what is held is mapped: kfree gives every page back, so alloc_region
\* does not panic on a page that is still there.
OnlyHeldMapped ==
    /\ \A p \in mapped : \E a \in held : p \in Run(a.start, a.pages)
    /\ panicked # "already mapped"

HeapInv == HeapTypeOK /\ RegionsTile /\ HeldAreTaken /\ HeldAreDisjoint /\ OnlyHeldMapped
=============================================================================
