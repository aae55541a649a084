------------------------------- MODULE Break -------------------------------
(***************************************************************************)
(* The break of a process (usermode/break.c): brk and sbrk map and unmap   *)
(* the pages of its heap.  Addresses are words of a small machine: the     *)
(* differences between UINTPTR_MAX, USER_MAX and the size of a page are    *)
(* kept, their values are not.                                             *)
(***************************************************************************)
EXTENDS Integers

CONSTANTS
    PAGE_SIZE, USER_MAX, UINTPTR_MAX,
    initial_brk,     \* the end of the program, page aligned (load_elf)
    StackPage        \* the first page of the stack

ASSUME BreakAssumption ==
    /\ {PAGE_SIZE, USER_MAX, UINTPTR_MAX, initial_brk, StackPage} \subseteq Nat
    /\ PAGE_SIZE > 0 /\ initial_brk % PAGE_SIZE = 0
    /\ 0 < initial_brk /\ initial_brk < StackPage * PAGE_SIZE
    /\ StackPage * PAGE_SIZE <= USER_MAX /\ USER_MAX + PAGE_SIZE <= UINTPTR_MAX

Words == 0 .. UINTPTR_MAX
Increments == -((UINTPTR_MAX + 1) \div 2) .. (UINTPTR_MAX - 1) \div 2
UserPages == 0 .. USER_MAX \div PAGE_SIZE

VARIABLES
    brk,
    user_mapped,     \* pages of the address space that are mapped
    dirty,           \* mapped pages that hold something else than zeroes
    break_panicked

break_vars == <<brk, user_mapped, dirty, break_panicked>>

BreakInit ==
    /\ brk = initial_brk
    /\ user_mapped = 0 .. (initial_brk \div PAGE_SIZE) - 1 \cup {StackPage}
    /\ dirty = user_mapped
    /\ break_panicked = FALSE

\* Mutant: the last page is not counted.
page_align_down(addr) == addr \div PAGE_SIZE

\* The number of pages below addr: page_align_up, divided by PAGE_SIZE.
page_align_up(addr) == (addr + PAGE_SIZE - 1) \div PAGE_SIZE

\* Mutant: frames are handed to the process as they are.
ClearedNot(new) == dirty \cup new

\* alloc_region gives pages of any content, memset clears them.
Cleared(new) == dirty

Refused(addr) == addr < initial_brk \/ addr > USER_MAX

\* set_brk with an address other than NULL that is not refused.
Move(addr) ==
    LET old == page_align_up(brk)
        new == page_align_up(addr)
    IN \/ /\ new > old
          /\ old .. new - 1 \cap user_mapped = {}
          /\ user_mapped' = user_mapped \cup old .. new - 1
          /\ dirty' = Cleared(old .. new - 1)
          /\ brk' = addr /\ UNCHANGED break_panicked
       \/ /\ new > old
          /\ old .. new - 1 \cap user_mapped # {}
          /\ break_panicked' = TRUE                    \* "already mapped"
          /\ UNCHANGED <<brk, user_mapped, dirty>>
       \/ /\ new <= old
          /\ user_mapped' = user_mapped \ (new .. old - 1)
          /\ dirty' = dirty \ (new .. old - 1)
          /\ brk' = addr /\ UNCHANGED break_panicked

\* NULL asks for the break, and a refused address leaves it alone.
set_brk(addr) == addr # 0 /\ ~Refused(addr) /\ Move(addr)

\* The break may go down by amount.
Down(amount) == brk >= initial_brk /\ amount <= brk - initial_brk

sbrk(increment) ==
    \/ /\ increment > 0
       /\ increment <= UINTPTR_MAX - brk
       /\ set_brk(brk + increment)
    \/ /\ increment < 0
       /\ Down(-(increment + 1) + 1)
       /\ set_brk(brk - (-(increment + 1) + 1))

\* The process writes to one of its pages.
store(p) ==
    /\ p \in user_mapped
    /\ dirty' = dirty \cup {p}
    /\ UNCHANGED <<brk, user_mapped, break_panicked>>

BreakNext ==
    /\ ~break_panicked
    /\ \/ \E addr \in Words : set_brk(addr)
       \/ \E increment \in Increments : sbrk(increment)
       \/ \E p \in user_mapped : store(p)

BreakSpec == BreakInit /\ [][BreakNext]_break_vars

----------------------------------------------------------------------------
\* The pages of the heap are those up to the break and no others, after any
\* sequence of brk and sbrk calls.
HeapEndsAtBreak ==
    \A p \in UserPages : p \in user_mapped <=> p = StackPage \/ p * PAGE_SIZE < brk

\* A page the heap grows by reads as zeroes, whatever it held before it was
\* given back.
GrowsByZeroes == [][(user_mapped' \ user_mapped) \cap dirty' = {}]_break_vars
=============================================================================
