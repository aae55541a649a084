----------------------------- MODULE MCPaging ------------------------------
\* Paging for TLC: at most two tables and few enough frames that
\* memory runs out.  The configurations choose processes and pages.
EXTENDS Paging, TLC

\* Slots 0 (the root), 1 and 3 (tables), 2 (a page of 1), 4 and 5 (pages of 3).
MCTableOf == [p \in UserPages \cup KernelPages |-> IF p < 3 THEN 1 ELSE 3]
MCSymmetry == Permutations(Procs)

\* No step reads what a free frame holds: it is filled or copied into before
\* it is mapped.  States that differ only there are the same state.
MCView == <<memory_bitmap, first_usable, pte, flags, pml4_physical, tlb,
            [f \in Frames |-> IF memory_bitmap[f] = 0 THEN Zero ELSE mem[f]]>>

\* What the memory and the cached translations hold has no effect on the
\* tables and the counts.
MCTablesView == <<memory_bitmap, first_usable, pte, flags, pml4_physical>>
=============================================================================
