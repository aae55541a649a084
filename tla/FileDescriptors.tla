-------------------------- MODULE FileDescriptors --------------------------
(***************************************************************************)
(* usermode/fd.c, with the parts of fork, add_task, execve and exit in     *)
(* usermode/scheduler.c that copy and release descriptor tables.           *)
(*                                                                         *)
(* Tables point to file descriptions, which are shared and counted;        *)
(* descriptions point to open files, sockets and the ends of pipes, which  *)
(* are counted too.  A call runs to its end without another process.       *)
(***************************************************************************)
EXTENDS Integers, FiniteSets

CONSTANTS
    Procs,      \* task structures
    InitTask,   \* the first process: it never exits
    MAX_FDS, MAX_FILES,
    Files, Pipes, Sockets,
    NULL,
    Worlds,     \* which calls may fail, and which structures and sockets are used
    MaxOpens    \* bound: how often a file is opened and not closed

ASSUME FdAssumption ==
    /\ IsFiniteSet(Procs) /\ InitTask \in Procs
    /\ MAX_FDS \in Nat /\ MAX_FILES \in Nat
    /\ NULL \notin 0 .. MAX_FILES - 1
    /\ Worlds \subseteq [procs : SUBSET Procs, sockets : SUBSET Sockets,
                         faulty : SUBSET {"close", "truncate", "load"}]

FDs == 0 .. MAX_FDS - 1
Descriptions == 0 .. MAX_FILES - 1
Entries == Procs \X FDs

\* What a description can stand for: an open file or directory, a socket, or
\* the end of a pipe that its access flags name.
Handles == (Files \X {"FILE"}) \cup (Sockets \X {"SOCKET"})
           \cup (Pipes \X {"READER", "WRITER"})

VARIABLES
    task,      \* "none", "live", or "lost": built by add_task and abandoned
    fd_table,  \* fd_table[<<p, i>>]: a description or NULL
    cloexec,   \* cloexec[<<p, i>>]: FD_CLOEXEC
    refcount,  \* refcount[d]
    handle,    \* handle[d]: what description d stands for
    opens,     \* opens[h]: open_count, reader_count, writer_count, ...
    world      \* chosen at the start, one of Worlds

vars == <<task, fd_table, cloexec, refcount, handle, opens>>

Init ==
    /\ task = [p \in Procs |-> IF p = InitTask THEN "live" ELSE "none"]
    /\ fd_table = [e \in Entries |-> NULL]
    /\ cloexec = [e \in Entries |-> FALSE]
    /\ refcount = [d \in Descriptions |-> 0]
    /\ handle = [d \in Descriptions |-> CHOOSE h \in Handles : TRUE]
    /\ opens = [h \in Handles |-> 0]
    /\ world \in Worlds

----------------------------------------------------------------------------
\* The tables and counts as one value, so that a call can change them in
\* several steps.
Now == [tab |-> fd_table, clo |-> cloexec, ref |-> refcount, opn |-> opens]

Set(k) ==
    /\ fd_table' = k.tab /\ cloexec' = k.clo
    /\ refcount' = k.ref /\ opens' = k.opn

FreeFDs(p) == {i \in FDs : fd_table[<<p, i>>] = NULL}
FreeDescriptions == {d \in Descriptions : refcount[d] = 0}

\* The n lowest members of S, in order, when there are that many.
Lowest(n, S) ==
    {g \in [1 .. n -> S] :
        /\ \A i, j \in 1 .. n : i < j => g[i] < g[j]
        /\ \A i \in 1 .. n, x \in S : x < g[i] => \E j \in 1 .. n : g[j] = x}

PointTo(k, E, d) == Cardinality({e \in E : k.tab[e] = d})

\* Mutant: the last reference is not noticed.
ClosedByLate(k, E) ==
    {d \in Descriptions : k.ref[d] \in 1 .. PointTo(k, E, d) - 1}

\* The descriptions whose count reaches 0 while the entries E are closed.
ClosedBy(k, E) == {d \in Descriptions : k.ref[d] \in 1 .. PointTo(k, E, d)}

\* The ways in which close can fail for descriptions D.
CloseFailures(D) ==
    IF "close" \in world.faulty THEN SUBSET {d \in D : handle[d][2] = "FILE"}
    ELSE {{}}

\* fd_close for every entry of E, all of one table, lowest first.  The counts
\* drop; a description whose count reaches 0 gives its handle back.  When that
\* fails (F) the entry stays, and may later close once more what is closed:
\* bound, opens does not go below 0.
Release(k, E, F) ==
    LET stays(e) == /\ k.tab[e] \in F
                    /\ k.ref[k.tab[e]] =
                       PointTo(k, {x \in E : x[2] <= e[2]}, k.tab[e])
        gone == {e \in E : k.tab[e] # NULL /\ ~stays(e)}
    IN  [tab |-> [e \in Entries |-> IF e \in gone THEN NULL ELSE k.tab[e]],
         clo |-> [e \in Entries |-> k.clo[e] /\ e \notin gone],
         ref |-> [d \in Descriptions |-> k.ref[d] - PointTo(k, E, d)],
         opn |-> [h \in Handles |->
                     LET n == Cardinality({d \in ClosedBy(k, E) \ F :
                                              handle[d] = h})
                     IN  IF k.opn[h] < n THEN 0 ELSE k.opn[h] - n]]

\* Mutant: the copy does not count.
ShareUncounted(k, src, dst) ==
    [k EXCEPT !.tab = [e \in Entries |->
                          IF e[1] = dst THEN k.tab[<<src, e[2]>>] ELSE k.tab[e]],
              !.clo = [e \in Entries |->
                          IF e[1] = dst THEN k.clo[<<src, e[2]>>] ELSE k.clo[e]]]

\* The table of src copied to dst, every description counted once more.
Share(k, src, dst) ==
    [k EXCEPT !.tab = [e \in Entries |->
                          IF e[1] = dst THEN k.tab[<<src, e[2]>>] ELSE k.tab[e]],
              !.clo = [e \in Entries |->
                          IF e[1] = dst THEN k.clo[<<src, e[2]>>] ELSE k.clo[e]],
              !.ref = [d \in Descriptions |->
                          k.ref[d] + PointTo(k, {src} \X FDs, d)]]

\* Entry e is made to point where entry src does.
Redirect(k, e, src, c) ==
    [k EXCEPT !.tab[e] = k.tab[src], !.clo[e] = c, !.ref[k.tab[src]] = @ + 1]

\* Mutant: what the entry pointed to is forgotten.
Dup2Forgets(k, p, i, j) ==
    IF i = j THEN {k} ELSE {Redirect(k, <<p, j>>, <<p, i>>, FALSE)}

\* dup2 in table p: the entry it replaces is closed first, whatever comes of it.
Dup2(k, p, i, j) ==
    IF i = j THEN {k}
    ELSE {Redirect(Release(k, {<<p, j>>}, F), <<p, j>>, <<p, i>>, FALSE) :
             F \in CloseFailures(ClosedBy(k, {<<p, j>>}))}

----------------------------------------------------------------------------
\* New descriptions D, one for each handle of hs, in the entries E of table p.
Install(p, E, D, hs, c) ==
    /\ handle' = [d \in Descriptions |->
                     IF \E n \in DOMAIN D : D[n] = d
                     THEN hs[CHOOSE n \in DOMAIN D : D[n] = d] ELSE handle[d]]
    /\ fd_table' = [e \in Entries |->
                       IF \E n \in DOMAIN E : e = <<p, E[n]>>
                       THEN D[CHOOSE n \in DOMAIN E : e = <<p, E[n]>>]
                       ELSE fd_table[e]]
    /\ cloexec' = [e \in Entries |->
                      IF \E n \in DOMAIN E : e = <<p, E[n]>> THEN c
                      ELSE cloexec[e]]
    /\ refcount' = [d \in Descriptions |->
                       IF \E n \in DOMAIN D : D[n] = d THEN 1 ELSE refcount[d]]
    /\ opens' = [h \in Handles |->
                    opens[h] + IF \E n \in DOMAIN hs : hs[n] = h THEN 1 ELSE 0]
    /\ UNCHANGED task

\* fd_open; when O_TRUNC fails the file has been opened and stays so.
fd_open(p, f, c) ==
    /\ task[p] = "live" /\ opens[<<f, "FILE">>] < MaxOpens
    /\ \E E \in Lowest(1, FreeFDs(p)), D \in Lowest(1, FreeDescriptions) :
          \/ Install(p, E, D, <<<<f, "FILE">>>>, c)
          \/ /\ "truncate" \in world.faulty
             /\ opens' = [opens EXCEPT ![<<f, "FILE">>] = @ + 1]
             /\ UNCHANGED <<task, fd_table, cloexec, refcount, handle>>

\* fd_socket: kmalloc gives a socket nobody uses.
fd_socket(p) ==
    /\ task[p] = "live"
    /\ \E s \in world.sockets :
          /\ opens[<<s, "SOCKET">>] = 0
          /\ \E E \in Lowest(1, FreeFDs(p)), D \in Lowest(1, FreeDescriptions) :
                Install(p, E, D, <<<<s, "SOCKET">>>>, FALSE)

\* pipe: two entries, two descriptions, one fresh pipe.
pipe(p) ==
    /\ task[p] = "live"
    /\ \E o \in Pipes :
          /\ opens[<<o, "READER">>] = 0 /\ opens[<<o, "WRITER">>] = 0
          /\ \E E \in Lowest(2, FreeFDs(p)), D \in Lowest(2, FreeDescriptions) :
                Install(p, E, D, <<<<o, "READER">>, <<o, "WRITER">>>>, FALSE)

Used(p, i) == task[p] = "live" /\ fd_table[<<p, i>>] # NULL

fd_close(p, i) ==
    /\ Used(p, i)
    /\ \E F \in CloseFailures(ClosedBy(Now, {<<p, i>>})) :
          Set(Release(Now, {<<p, i>>}, F))
    /\ UNCHANGED <<task, handle>>

\* fcntl with F_DUPFD and F_DUPFD_CLOEXEC.
dup(p, i, minfd, c) ==
    /\ Used(p, i)
    /\ \E E \in Lowest(1, {j \in FreeFDs(p) : j >= minfd}) :
          Set(Redirect(Now, <<p, E[1]>>, <<p, i>>, c))
    /\ UNCHANGED <<task, handle>>

\* fcntl with F_SETFD.
set_cloexec(p, i, c) ==
    /\ Used(p, i)
    /\ cloexec' = [cloexec EXCEPT ![<<p, i>>] = c]
    /\ UNCHANGED <<task, fd_table, refcount, handle, opens>>

dup2(p, i, j) ==
    /\ Used(p, i)
    /\ \E k \in Dup2(Now, p, i, j) : Set(k)
    /\ UNCHANGED <<task, handle>>

fork(p, q) ==
    /\ task[p] = "live" /\ task[q] = "none"
    /\ Set(Share(Now, p, q))
    /\ task' = [task EXCEPT ![q] = "live"]
    /\ UNCHANGED handle

\* The entries of q that add_task closes for O_CLOEXEC, in every way close can end:
\* what it says is ignored and the entry is cleared.
CloseOnExec(k, q) ==
    LET E == {e \in {q} \X FDs : k.tab[e] # NULL /\ k.clo[e]}
    IN  {[Release(k, E, {}) EXCEPT !.opn = Release(k, E, F).opn] :
            F \in CloseFailures(ClosedBy(k, E))}

\* add_task: a copy of p's table, at most one SPAWN_DUP2 action, O_CLOEXEC,
\* then the binary.  An action on an unused entry and a binary that does not
\* load both make it return early: the task is never linked and its table
\* never released.
spawn(p, q, dups) ==
    LET copy == Share(Now, p, q)
        bad  == \E x \in dups : fd_table[<<p, x[1]>>] = NULL
    IN  /\ task[p] = "live" /\ task[q] = "none"
        /\ \/ /\ ~bad
              /\ \E k \in IF dups = {} THEN {copy}
                          ELSE UNION {Dup2(copy, q, x[1], x[2]) : x \in dups} :
                    \E new \in CloseOnExec(k, q) : Set(new)
              /\ \/ task' = [task EXCEPT ![q] = "live"]
                 \/ "load" \in world.faulty /\ task' = [task EXCEPT ![q] = "lost"]
           \/ /\ bad
              /\ Set(copy)
              /\ task' = [task EXCEPT ![q] = "lost"]
        /\ UNCHANGED handle

\* execve: add_task under the same pid, then the old task's table goes.
execve(p, q) ==
    /\ task[p] = "live" /\ p # InitTask /\ task[q] = "none"
    /\ \E new \in CloseOnExec(Share(Now, p, q), q) :
          \/ /\ \E F \in CloseFailures(ClosedBy(new, {p} \X FDs)) :
                   Set(Release(new, {p} \X FDs, F))
             /\ task' = [task EXCEPT ![p] = "none", ![q] = "live"]
          \/ /\ "load" \in world.faulty
             /\ Set(new)
             /\ task' = [task EXCEPT ![q] = "lost"]
    /\ UNCHANGED handle

\* exit and release_process_fds.
exit(p) ==
    /\ task[p] = "live" /\ p # InitTask
    /\ \E F \in CloseFailures(ClosedBy(Now, {p} \X FDs)) :
          Set(Release(Now, {p} \X FDs, F))
    /\ task' = [task EXCEPT ![p] = "none"]
    /\ UNCHANGED handle

Next ==
  /\ UNCHANGED world
  /\ \E p \in world.procs :
        \/ \E f \in Files, c \in BOOLEAN : fd_open(p, f, c)
        \/ fd_socket(p) \/ pipe(p) \/ exit(p)
        \/ \E i \in FDs :
              \/ fd_close(p, i)
              \/ \E c \in BOOLEAN : set_cloexec(p, i, c)
              \/ \E j \in FDs, c \in BOOLEAN : dup(p, i, j, c)
              \/ \E j \in FDs : dup2(p, i, j)
        \/ \E q \in world.procs :
              \/ fork(p, q) \/ execve(p, q) \/ spawn(p, q, {})
              \/ \E x \in FDs \X FDs : spawn(p, q, {x})

Spec == Init /\ [][Next]_<<vars, world>>

----------------------------------------------------------------------------
PointingTo(d) == {e \in Entries : fd_table[e] = d}
Live(h) == {d \in Descriptions : refcount[d] > 0 /\ handle[d] = h}

\* A description is counted once for every entry of every table that points
\* to it, across fork, dup2, close-on-exec and exit: it is given back with its
\* last entry and no entry outlives it.  Even when closing fails, no count exceeds
\* the entries that are there to lower it again.
RefcountExact ==
    \A d \in Descriptions :
        /\ refcount[d] <= Cardinality(PointingTo(d))
        /\ "close" \notin world.faulty => refcount[d] = Cardinality(PointingTo(d))

\* A file, a socket or an end of a pipe is open exactly as often as there are
\* descriptions for it: in particular the readers and writers of a pipe see
\* the other side hang up when its last description goes, and only then.
OpensExact ==
    "close" \notin world.faulty /\ "truncate" \notin world.faulty =>
        \A h \in Handles : opens[h] = Cardinality(Live(h))

\* No read or write goes through a freed pipe, socket or file.
NoUseAfterClose ==
    "close" \notin world.faulty =>
        \A e \in Entries : fd_table[e] # NULL => opens[handle[fd_table[e]]] > 0

=============================================================================
