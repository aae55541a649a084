------------------------- MODULE MCFileDescriptors -------------------------
\* FileDescriptors for TLC: few enough entries and descriptions that both
\* run out, and a process that can share with its child and grandchild.
EXTENDS FileDescriptors, TLC

MCSymmetry == Permutations(Procs \ {InitTask})

Pairs == {P \in SUBSET Procs : InitTask \in P /\ Cardinality(P) = 2}

\* Three processes of which only loading a binary fails, two for which
\* everything does, and two that use sockets, whose closing does not fail.
MCWorlds ==
    [procs : {Procs}, sockets : {{}}, faulty : {{"load"}}] \cup
    [procs : Pairs, sockets : {{}}, faulty : {{"close", "truncate", "load"}}] \cup
    [procs : Pairs, sockets : {Sockets}, faulty : {{"load"}}]

\* What a description stood for is not read once nothing points to it.
MCView ==
    <<task, fd_table, cloexec, refcount, opens, world,
      [d \in Descriptions |->
          IF refcount[d] = 0 /\ \A e \in Entries : fd_table[e] # d THEN NULL ELSE handle[d]]>>
=============================================================================
