------------------------------ MODULE Paging -------------------------------
(***************************************************************************)
(* memory/paging.c: physical frames, page tables, copy on write and the    *)
(* processor's cache of translations.                                      *)
(*                                                                         *)
(* The four levels of tables are abstracted to two: a root (the PML4) and  *)
(* tables (PDPT, PD and PT are allocated, cloned and freed by the same     *)
(* code one level apart).  A slot is an entry of that structure: the Root, *)
(* a table or a page.  Slots are numbers, in the order in which the code   *)
(* visits them: the root first, a table before its pages.                  *)
(***************************************************************************)
EXTENDS Integers, FiniteSets

CONSTANTS
    Procs,        \* address spaces a process may own (values of cr3)
    Kernel,       \* the upper half: its tables are shared by every space
    Root,         \* the slot of the PML4 itself
    Tables,       \* slots of page tables
    UserPages,    \* slots of the pages of the lower half
    KernelPages,  \* slots of the pages of the upper half
    TableOf,      \* TableOf[p]: the table that holds the entry of page p
    usable_page_count,
    Reserved,     \* frames marked used at boot and never given out
    zero_page,    \* the frame alloc_zero_region maps
    vvar_paddr,   \* the frame of the clock, mapped read-only
    Values,       \* what a page may hold
    Zero,         \* a page of zeroes
    Unmapped,     \* see AddressSpaces
    Vvar          \* see AddressSpaces

Frames == 0 .. usable_page_count - 1
Pages == UserPages \cup KernelPages
Slots == {Root} \cup Tables \cup Pages
Spaces == Procs \cup {Kernel}
Refs == Spaces \X Slots
Places == (Procs \X UserPages) \cup ({Kernel} \X KernelPages)

ASSUME SlotAssumption ==
    /\ Slots \subseteq Int /\ IsFiniteSet(Slots)
    /\ Root \notin Tables \cup Pages
    /\ Tables \cap Pages = {}
    /\ TableOf \in [Pages -> Tables]

ASSUME SpaceAssumption ==
    /\ IsFiniteSet(Procs)
    /\ Kernel \notin Procs

ASSUME FrameAssumption ==
    /\ usable_page_count \in Nat
    /\ Reserved \subseteq Frames
    /\ zero_page \in Reserved
    /\ vvar_paddr \in Reserved
    /\ zero_page # vvar_paddr

ASSUME ValueAssumption ==
    /\ Zero \in Values
    /\ Unmapped \notin Values /\ Vvar \notin Values /\ Unmapped # Vvar

VARIABLES
    memory_bitmap,  \* how often each frame is in use
    first_usable,   \* where the search for a free frame starts
    pte,            \* pte[<<s, x>>]: the frame slot x of space s points to
    flags,          \* its flag bits, see Flags
    pml4_physical,  \* the address space the processor runs in
    tlb,            \* cached translations <<place, frame, writable>>
    mem             \* what each frame holds

vars == <<memory_bitmap, first_usable, pte, flags, pml4_physical, tlb, mem>>

\* "table" points to a lower level, "rw" has FLAGS_RW, "cow" has FLAGS_COW
\* and not FLAGS_RW, "ro" has neither, "none" is not FLAGS_PRESENT.
Flags == {"none", "table", "rw", "cow", "ro"}

Present(r) == flags[r] # "none"
Alive(s) == flags[<<s, Root>>] = "table"
Active == {pml4_physical, Kernel}
PagesOf(s) == IF s = Kernel THEN KernelPages ELSE UserPages
Entries(s, X) == {<<s, x>> : x \in X}
TablesFor(R) == {TableOf[p] : p \in R}

\* A region is a run of consecutive virtual pages.
Regions(s) ==
    {R \in SUBSET PagesOf(s) :
        /\ R # {}
        /\ \A p, q \in R : \A x \in PagesOf(s) : p <= x /\ x <= q => x \in R}

----------------------------------------------------------------------------
\* get_available_address: the frames the search can return.
Available == {f \in Frames : f >= first_usable /\ memory_bitmap[f] = 0}

\* One frame for each slot of need, lowest first, in the order of the slots.
\* Without enough frames the kernel panics: there is no next state.
FirstFit(need) ==
    {g \in [need -> Available] :
        /\ \A x, y \in need : x < y => g[x] < g[y]
        /\ \A x \in need, f \in Available : f < g[x] => \E y \in need : g[y] = f}

\* The search leaves its hint just after the frame it returned last.
AdvanceHint(need, g) ==
    IF need = {} THEN UNCHANGED first_usable
    ELSE \E last \in need :
            /\ \A x \in need : g[x] <= g[last]
            /\ first_usable' = g[last] + 1

\* How many of the entries X point to frame f.
Uses(X, f) == Cardinality({r \in X : pte[r] = f})

\* Mutant: the counts stay.
DroppedKeepsCounts(X) == memory_bitmap

\* The counts after the entries X are dropped; a count never goes below 0.
Dropped(X) ==
    [f \in Frames |-> IF memory_bitmap[f] >= Uses(X, f)
                      THEN memory_bitmap[f] - Uses(X, f) ELSE 0]

\* Mutant: the hint never moves down.
LowerHintNever(X) == UNCHANGED first_usable

\* The hint moves down to the lowest frame that became free.
LowerHint(X) ==
    LET freed == {f \in Frames : Uses(X, f) > 0 /\ Dropped(X)[f] = 0}
    IN  \E m \in freed \cup {first_usable} :
            /\ \A f \in freed \cup {first_usable} : m <= f
            /\ first_usable' = m

Clear(X) ==
    /\ memory_bitmap' = Dropped(X)
    /\ LowerHint(X)
    /\ flags' = [r \in Refs |-> IF r \in X THEN "none" ELSE flags[r]]
    /\ pte' = [r \in Refs |-> IF r \in X THEN 0 ELSE pte[r]]

\* The slots of DOMAIN h, in space s, come to point to the frames of h.
Install(s, h) ==
    /\ memory_bitmap' = [f \in Frames |-> memory_bitmap[f] +
                            Cardinality({x \in DOMAIN h : h[x] = f})]
    /\ pte' = [r \in Refs |-> IF r[1] = s /\ r[2] \in DOMAIN h
                              THEN h[r[2]] ELSE pte[r]]

\* Mutant: no invlpg.
InvalidateNothing(X) == UNCHANGED tlb

\* invlpg for the pages of X.
Invalidate(X) == tlb' = {e \in tlb : e[1] \notin X}

----------------------------------------------------------------------------
\* init_paging, scheduler_init and run_init: every reserved frame counts
\* once; the first process has a root and nothing mapped.
Init ==
    /\ \E s \in Procs, root \in Frames \ Reserved :
          /\ \A f \in Frames \ Reserved : root <= f
          /\ memory_bitmap = [f \in Frames |->
                                 IF f \in Reserved \cup {root} THEN 1 ELSE 0]
          /\ first_usable = root + 1
          /\ pte = [r \in Refs |-> IF r = <<s, Root>> THEN root ELSE 0]
          /\ flags = [r \in Refs |->
                         IF r = <<s, Root>> THEN "table" ELSE "none"]
          /\ pml4_physical = s
    /\ tlb = {}
    /\ mem = [f \in Frames |-> Zero]

\* The tables and pages of an allocation: missing tables, then the pages
\* fresh frames are wanted for.
NewTables(s, R) == {t \in TablesFor(R) : ~Present(<<s, t>>)}

\* The pages R become present with the given flags, in present tables.
Mark(s, R, flag) ==
    flags' = [r \in Refs |->
                 IF r[1] = s /\ r[2] \in R THEN flag
                 ELSE IF r[1] = s /\ r[2] \in NewTables(s, R) THEN "table"
                 ELSE flags[r]]

\* alloc_region(vaddr, size, FLAGS_RW) followed by its caller's fill (memset
\* in set_brk and kmalloc, read_file and memset in load_elf).  A page of the
\* region that is already mapped is a panic.
alloc_region(s, R, v) ==
    LET need == NewTables(s, R) \cup R
    IN  /\ \A p \in R : ~Present(<<s, p>>)
        /\ \E g \in FirstFit(need) :
              /\ AdvanceHint(need, g)
              /\ Install(s, g)
              /\ mem' = [f \in Frames |->
                            IF \E p \in R : g[p] = f THEN v
                            ELSE IF \E t \in need : g[t] = f THEN Zero
                            ELSE mem[f]]
        /\ Mark(s, R, "rw")
        /\ tlb' = {}
        /\ UNCHANGED pml4_physical

\* Map the pages R to one frame that already exists.
MapShared(s, R, frame, flag) ==
    LET need == NewTables(s, R)
    IN  /\ \A p \in R : ~Present(<<s, p>>)
        /\ \E g \in FirstFit(need) :
              /\ AdvanceHint(need, g)
              /\ Install(s, [x \in need \cup R |->
                                IF x \in need THEN g[x] ELSE frame])
              /\ mem' = [f \in Frames |->
                            IF \E t \in need : g[t] = f THEN Zero ELSE mem[f]]
        /\ Mark(s, R, flag)
        /\ tlb' = {}
        /\ UNCHANGED pml4_physical

\* The user stack: pages that read as zeroes until they are written.
alloc_zero_region(s, R) == MapShared(s, R, zero_page, "cow")

\* The clock, one page, read-only.
alloc_mmio_region(s, p) == MapShared(s, {p}, vvar_paddr, "ro")

\* Mutant: a table goes with the first of its pages.
TablesEmptiedEarly(s, gone) == TablesFor(gone)

\* The tables that have no mapped page left once gone is unmapped.
TablesEmptied(s, gone) ==
    TablesFor(gone) \
        TablesFor({p \in PagesOf(s) \ gone : Present(<<s, p>>)})

\* free_region and free_page: pages that are not mapped are skipped; a table
\* none of whose pages is left mapped is freed with them.
free_region(s, R) ==
    LET gone == {p \in R : Present(<<s, p>>)}
    IN  /\ Clear(Entries(s, gone \cup TablesEmptied(s, gone)))
        /\ Invalidate(Entries(s, gone))
        /\ UNCHANGED <<pml4_physical, mem>>

\* clone_page_tables(base_pml4): the base has nothing in its lower half, so
\* the new space is a root alone (add_task, create_kworker).
clone_base(t) ==
    /\ t \in Procs /\ ~Alive(t)
    /\ \E g \in FirstFit({Root}) :
          /\ AdvanceHint({Root}, g)
          /\ Install(t, g)
          /\ mem' = [mem EXCEPT ![g[Root]] = Zero]
    /\ flags' = [flags EXCEPT ![<<t, Root>>] = "table"]
    /\ UNCHANGED <<pml4_physical, tlb>>

\* Mutant: the parent and the child stay writable.
CoWKeepsRw(flag) == flag

CoW(flag) == IF flag = "rw" THEN "cow" ELSE flag

\* clone_page_tables(current_task->cr3), called by fork: fresh tables, shared
\* pages, and both sides lose FLAGS_RW on what was writable.
clone_page_tables(t) ==
    LET s      == pml4_physical
        need   == {x \in {Root} \cup Tables : Present(<<s, x>>)}
        shared == {p \in UserPages : Present(<<s, p>>)}
    IN  /\ t \in Procs /\ ~Alive(t)
        /\ \E g \in FirstFit(need) :
              /\ AdvanceHint(need, g)
              /\ Install(t, [x \in need \cup shared |->
                                IF x \in need THEN g[x] ELSE pte[<<s, x>>]])
              /\ mem' = [f \in Frames |->
                            IF \E x \in need : g[x] = f THEN Zero ELSE mem[f]]
        /\ flags' = [r \in Refs |->
                        IF r[1] = t /\ r[2] \in need THEN "table"
                        ELSE IF r[1] \in {s, t} /\ r[2] \in shared
                        THEN CoW(flags[<<s, r[2]>>]) ELSE flags[r]]
        /\ Invalidate(Entries(s, shared))
        /\ UNCHANGED pml4_physical

\* free_page_tables, called by gc_tasks for a task that is not running.
free_page_tables(t) ==
    /\ t \in Procs /\ Alive(t) /\ t # pml4_physical
    /\ Clear({r \in Entries(t, Slots) : Present(r)})
    /\ UNCHANGED <<pml4_physical, tlb, mem>>

\* Mutant: two users do not count as sharing.
SharedByThree(f) == memory_bitmap[f] > 2

Shared(f) == memory_bitmap[f] > 1

\* A write fault on a page marked FLAGS_COW.
cow_handler(r) ==
    LET f == pte[r]
    IN  /\ r[1] \in Active /\ flags[r] = "cow"
        /\ \/ /\ Shared(f)
              /\ \E g \in FirstFit({r[2]}) :
                    /\ AdvanceHint({r[2]}, g)
                    /\ memory_bitmap' = [memory_bitmap EXCEPT
                                            ![f] = @ - 1, ![g[r[2]]] = 1]
                    /\ mem' = [mem EXCEPT ![g[r[2]]] = mem[f]]
                    /\ pte' = [pte EXCEPT ![r] = g[r[2]]]
           \/ /\ ~Shared(f)
              /\ UNCHANGED <<memory_bitmap, first_usable, mem, pte>>
        /\ flags' = [flags EXCEPT ![r] = "rw"]
        /\ Invalidate({r})
        /\ UNCHANGED pml4_physical

change_pml4(t) ==
    /\ t \in Procs /\ Alive(t)
    /\ pml4_physical' = t
    /\ tlb' = {}
    /\ UNCHANGED <<memory_bitmap, first_usable, pte, flags, mem>>

----------------------------------------------------------------------------
\* The processor: it may cache the translation of a mapped page at any time,
\* and stores through a cached translation that allows it.
walk(r) ==
    /\ r[1] \in Active /\ Present(r)
    /\ tlb' = tlb \cup {<<r, pte[r], flags[r] = "rw">>}
    /\ UNCHANGED <<memory_bitmap, first_usable, pte, flags, pml4_physical, mem>>

store(e, v) ==
    /\ e[3]
    /\ mem' = [mem EXCEPT ![e[2]] = v]
    /\ UNCHANGED <<memory_bitmap, first_usable, pte, flags, pml4_physical, tlb>>

\* pit_tick writes the clock through the direct map of physical memory.
pit_tick(v) ==
    /\ mem' = [mem EXCEPT ![vvar_paddr] = v]
    /\ UNCHANGED <<memory_bitmap, first_usable, pte, flags, pml4_physical, tlb>>

Next ==
    \/ \E R \in Regions(pml4_physical) :
          \/ \E v \in Values : alloc_region(pml4_physical, R, v)
          \/ alloc_zero_region(pml4_physical, R)
          \/ free_region(pml4_physical, R)
    \/ \E R \in Regions(Kernel) :
          alloc_region(Kernel, R, Zero) \/ free_region(Kernel, R)
    \/ \E p \in UserPages : alloc_mmio_region(pml4_physical, p)
    \/ \E t \in Procs :
          \/ clone_base(t) \/ clone_page_tables(t)
          \/ free_page_tables(t) \/ change_pml4(t)
    \/ \E r \in Places : cow_handler(r) \/ walk(r)
    \/ \E e \in tlb, v \in Values : store(e, v)
    \/ \E v \in Values : pit_tick(v)

Spec == Init /\ [][Next]_vars

----------------------------------------------------------------------------
\* Types of the state of paging.c.
TypeOK ==
    /\ memory_bitmap \in [Frames -> Nat]
    /\ first_usable \in 0 .. usable_page_count
    /\ pte \in [Refs -> Frames]
    /\ flags \in [Refs -> Flags]
    /\ pml4_physical \in Procs
    /\ tlb \subseteq Places \X Frames \X BOOLEAN
    /\ mem \in [Frames -> Values]

\* The entries that point to frame f.
Users(f) == {r \in Refs : Present(r) /\ pte[r] = f}

\* The reference count is exact: memory_bitmap counts the entries of all page
\* tables that point to a frame, and one more for a reserved frame.  Whoever
\* drops the last entry frees the frame, and nobody frees it earlier.
RefcountExact ==
    \A f \in Frames :
        memory_bitmap[f] =
            Cardinality(Users(f)) + IF f \in Reserved THEN 1 ELSE 0

\* A frame that can be written through an entry, or that holds a page table,
\* is reached by that entry only: a page is never writable while another
\* process, or the zero page's users, can see it.
WritableIsExclusive ==
    \A r \in Refs : flags[r] \in {"rw", "table"} =>
        /\ pte[r] \notin Reserved
        /\ \A q \in Refs : Present(q) /\ pte[q] = pte[r] => q = r

\* get_available_address starts at first_usable: no free frame lies below it,
\* so "Out of memory" is reported only when no frame is free.
NoFreeFrameBelowHint ==
    \A f \in Frames : memory_bitmap[f] = 0 => first_usable <= f

\* A cached translation is the one the page tables give now: the processor
\* never stores through an entry that clone, CoW or free has changed.
TlbCoherent ==
    \A e \in tlb :
        /\ e[1][1] \in Active
        /\ Present(e[1]) /\ e[2] = pte[e[1]] /\ e[3] = (flags[e[1]] = "rw")

\* The page that alloc_zero_region maps reads as zeroes for ever: nobody gets
\* to write the shared zero page, however often it is mapped and faulted on.
ZeroPageIsZero == mem[zero_page] = Zero

\* A table is allocated exactly while one of its pages is mapped: free_page
\* leaks no table and frees none that is in use.
TablesHoldPages ==
    \A s \in Spaces, t \in Tables :
        Present(<<s, t>>) <=> \E p \in PagesOf(s) :
                                 TableOf[p] = t /\ Present(<<s, p>>)

\* What the entries of the page tables look like: tables and pages are not
\* confused, a dead address space has no entry, and only the clock is mapped
\* read-only.
EntriesWellFormed ==
    /\ Alive(pml4_physical)
    /\ \A s \in Spaces, x \in Slots :
          /\ x \notin Pages => flags[<<s, x>>] \in {"none", "table"}
          /\ x \in Pages => flags[<<s, x>>] # "table"
          /\ Present(<<s, x>>) =>
                /\ x \in Pages => x \in PagesOf(s)
                /\ x = Root => s # Kernel
                /\ s # Kernel => Alive(s)
                /\ flags[<<s, x>>] = "ro" <=> pte[<<s, x>>] = vvar_paddr

\* The inductive invariant of paging.c.
PagingInv ==
    /\ TypeOK
    /\ EntriesWellFormed
    /\ RefcountExact
    /\ WritableIsExclusive
    /\ TlbCoherent
    /\ ZeroPageIsZero
    /\ TablesHoldPages
    /\ NoFreeFrameBelowHint

\* Every process sees the private memory of AddressSpaces, whatever is shared
\* underneath: forks copy, stores stay private, the clock is common.
Abstract == INSTANCE AddressSpaces WITH
    image   <- [r \in Places |-> IF flags[r] = "none" THEN Unmapped
                                 ELSE IF flags[r] = "ro" THEN Vvar
                                 ELSE mem[pte[r]]],
    alive   <- {s \in Procs : Alive(s)},
    current <- pml4_physical,
    clock   <- mem[vvar_paddr]

PrivateMemory == Abstract!AddressSpacesSpec
=============================================================================
