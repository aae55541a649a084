---- MODULE MCProcess ----
(* Small instances of Process for TLC. *)
EXTENDS Process, TLC

MCSymmetry == Permutations(Tasks \ {InitTask})

Untraced == {"WUNTRACED"}
Threes == {T \in SUBSET Tasks : InitTask \in T /\ Cardinality(T) = 3}

\* A child, a grandchild and a structure for execve, with interrupts inside
\* their calls; three tasks that use all the ways to wait; tasks that stop.
MCTree ==
    [tasks : {Tasks}, pids : {3}, sigs : {{"TERM"}}, options : {{{}}},
     statuses : {{TRUE}}, delay : {1}, irq : {TRUE}]
MCWait ==
    [tasks : Threes, pids : {3}, sigs : {{"TERM"}},
     options : {{{}, {"WNOHANG"}}},
     statuses : {BOOLEAN}, delay : {0}, irq : {FALSE}]
MCStop ==
    [tasks : Threes, pids : {2}, sigs : {{"STOP", "CONT"}}, options : {{Untraced}},
     statuses : {{TRUE}}, delay : {0}, irq : {FALSE}]
MCSafety == MCTree \cup MCWait \cup MCStop

\* Tasks that fork and wait, and tasks that are killed wherever they are.
MCTurns ==
    [tasks : {Tasks}, pids : {3}, sigs : {{}}, options : {{{}}},
     statuses : {{TRUE}}, delay : {1}, irq : {FALSE}]
MCKill ==
    [tasks : {Tasks}, pids : {2}, sigs : {{"TERM"}}, options : {{{}}},
     statuses : {{FALSE}}, delay : {1}, irq : {FALSE}]
MCLiveness == MCTurns \cup MCKill

\* Two children, one waited for, and interrupts inside waitpid.
MCRace ==
    [tasks : {Tasks}, pids : {3}, sigs : {{"TERM"}}, options : {{{}}},
     statuses : {{TRUE}}, delay : {0}, irq : {TRUE}]
====
