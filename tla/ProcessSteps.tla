---------------------------- MODULE ProcessSteps ----------------------------
(***************************************************************************)
(* The scheduler's invariant, for any number of tasks, any pids and any    *)
(* order of calls, ticks and signals other than stop signals, and the      *)
(* steps that leave its lists as they are or only take tasks out of them.  *)
(*                                                                         *)
(* The source walks its lists, the ring and the lists of children.  Here   *)
(* the order of a list is a rank, so that what a walk finds (First, Nodes) *)
(* follows from the rank, and an operation on a list is a change of ranks: *)
(* what gc_tasks takes out, fork and execve put in and exit hands over     *)
(* leaves Ring and Tree as they should be.                                 *)
(*                                                                         *)
(* RingIsWhole, TreeMatchesParents, PidNamesOneTask, WaitsForItsChild and  *)
(* CalmWaitpidAnswersAsked are not inductive, alone or together: that the  *)
(* ring still holds every task after gc_tasks depends on the order of the  *)
(* list, that waitpid finds a child on the tree, and that the tree stays   *)
(* whole on the state the current task is in at each point of the kernel.  *)
(* ProcInv ties these: Ring and Tree give every list a rank, Runs says     *)
(* which states go with which point of the kernel, Waits and Answers       *)
(* follow the child a task asked for from the first half of waitpid to its *)
(* result.                                                                 *)
(***************************************************************************)
EXTENDS Process, Induction, FiniteSetTheorems

TaskOrNull == Tasks \cup {NULL}

----------------------------------------------------------------------------
(* Lists.  A list is described by a rank: its nodes are S, each links to   *)
(* the one of the next higher rank, and the last one to end (NULL in a     *)
(* list of children, init in the ring).  Taking nodes out of a list leaves *)
(* the ranks of the others as they are.                                    *)

Linkable(T, f) == \A y \in Tasks : T[y][f] \in TaskOrNull

\* x is the node of A with the lowest rank; end if there is none.
LeastOf(x, A, r, end) ==
    IF A = {} THEN x = end ELSE x \in A /\ \A u \in A : r[x] <= r[u]

Above(S, r, t) == {u \in S : r[u] > r[t]}

Ordered(T, f, S, r, end) ==
    /\ S \subseteq Tasks
    /\ \A s, t \in S : r[s] = r[t] => s = t
    /\ \A t \in S : LeastOf(T[t][f], Above(S, r, t), r, end)

\* A set that is not empty has a node of lowest rank.
LEMMA LeastExists ==
    ASSUME NEW r \in [Tasks -> Nat], NEW A \in SUBSET Tasks, A # {}
    PROVE  \E x \in A : \A u \in A : r[x] <= r[u]
<1> DEFINE R == {r[u] : u \in A}
<1>1. R \in SUBSET Nat /\ R # {}
  BY Zenon
<1>2. PICK n \in R : \A m \in R : n <= m
  <2> HIDE DEF R
  <2> QED
    BY <1>1, LeastNat, Zenon
<1>3. PICK x \in A : n = r[x]
  BY <1>2, Zenon
<1> QED
  BY <1>2, <1>3, Zenon

\* Walk goes from node to node, and stays at NULL.
LEMMA WalkIs ==
    ASSUME NEW T, NEW f, Linkable(T, f), NEW x \in TaskOrNull
    PROVE  LET K  == Cardinality(Tasks)
               at == Walk(T, f, x)
           IN  /\ K \in Nat
               /\ at \in [0 .. K -> TaskOrNull]
               /\ at[0] = x
               /\ \A n \in 0 .. K - 1 :
                     at[n + 1] = IF at[n] = NULL THEN NULL ELSE T[at[n]][f]
<1> DEFINE K == Cardinality(Tasks)
           V == TaskOrNull
           succ == [y \in Tasks \cup {NULL} |-> IF y = NULL THEN NULL ELSE T[y][f]]
           F == [z \in V \X Nat |-> succ[z[1]]]
           at == CHOOSE a : a = [n \in 0 .. K |-> IF n = 0 THEN x ELSE succ[a[n - 1]]]
<1>1. K \in Nat
  BY ProcessAssumption, FS_CardinalityType, Zenon
<1>2. succ \in [V -> V]
  BY Zenon DEF TaskOrNull, Linkable
<1>3. F \in [V \X Nat -> V]
  <2> HIDE DEF succ
  <2> QED
    BY <1>2, Zenon
<1> HIDE DEF K
<1>4. PICK g : Iterates(g, V, x, F, K)
  <2> HIDE DEF F
  <2> QED
    BY <1>1, <1>3, Iterate, Zenon
<1>5. g \in [0 .. K -> V] /\ g[0] = x /\ \A n \in 1 .. K : g[n] = succ[g[n - 1]]
  <2>1. g \in [0 .. K -> V] /\ g[0] = x /\ \A n \in 1 .. K : g[n] = F[<<g[n - 1], n>>]
    BY <1>4, Zenon DEF Iterates
  <2>2. \A n \in 1 .. K : n - 1 \in 0 .. K /\ n \in Nat /\ g[n - 1] \in V
    BY <1>1, <2>1
  <2>3. \A v \in V, n \in Nat : F[<<v, n>>] = succ[v]
    <3> HIDE DEF succ
    <3> QED
      BY Zenon
  <2> HIDE DEF F, succ
  <2> QED
    BY <2>1, <2>2, <2>3, Zenon
<1> HIDE DEF succ, F
<1>6. g = [n \in 0 .. K |-> IF n = 0 THEN x ELSE succ[g[n - 1]]]
  BY <1>1, <1>5
<1>7. at = [n \in 0 .. K |-> IF n = 0 THEN x ELSE succ[at[n - 1]]]
  BY <1>6, Zenon
<1>8. Walk(T, f, x) = at
  BY Zenon DEF Walk, K, succ
<1> HIDE DEF at
<1> DEFINE S == {n \in 0 .. K : at[n] \in V}
<1>9. 0 .. K \subseteq S
  <2>1. 0 \in S
    BY <1>1, <1>7 DEF V
  <2>2. \A n \in 0 .. K - 1 : n \in S => n + 1 \in S
    <3> SUFFICES ASSUME NEW n \in 0 .. K - 1, at[n] \in V
                 PROVE  n + 1 \in 0 .. K /\ at[n + 1] \in V
      BY Zenon
    <3>1. n + 1 \in 0 .. K /\ n + 1 # 0 /\ (n + 1) - 1 = n
      BY <1>1
    <3>2. at[n + 1] = succ[at[n]]
      BY <1>7, <3>1, Zenon
    <3> QED
      BY <1>2, <3>1, <3>2, Zenon
  <2> HIDE DEF S
  <2> QED
    BY <1>1, <2>1, <2>2, BoundedInduction, Zenon
<1>10. at \in [0 .. K -> V] /\ at[0] = x
  BY <1>1, <1>7, <1>9
<1>11. \A n \in 0 .. K - 1 : at[n + 1] = IF at[n] = NULL THEN NULL ELSE T[at[n]][f]
  <2> SUFFICES ASSUME NEW n \in 0 .. K - 1
               PROVE  at[n + 1] = IF at[n] = NULL THEN NULL ELSE T[at[n]][f]
    BY Zenon
  <2>1. n + 1 \in 0 .. K /\ n \in 0 .. K /\ n + 1 # 0 /\ (n + 1) - 1 = n
    BY <1>1
  <2>2. at[n + 1] = succ[at[n]] /\ at[n] \in V
    BY <1>7, <1>10, <2>1, Zenon
  <2> QED
    BY <2>2, Zenon DEF succ, TaskOrNull
<1> QED
  BY <1>1, <1>8, <1>10, <1>11, Zenon DEF K

\* At NULL a walk stays.
LEMMA NullStays ==
    ASSUME NEW T, NEW f, Linkable(T, f), NEW x \in TaskOrNull,
           NEW w \in 0 .. Cardinality(Tasks), Walk(T, f, x)[w] = NULL
    PROVE  \A n \in w .. Cardinality(Tasks) : Walk(T, f, x)[n] = NULL
<1> DEFINE K == Cardinality(Tasks)
           at == Walk(T, f, x)
           S == {n \in 0 .. K : n >= w => at[n] = NULL}
<1>1. /\ K \in Nat
      /\ \A n \in 0 .. K - 1 : at[n + 1] = IF at[n] = NULL THEN NULL ELSE T[at[n]][f]
  BY WalkIs, Zenon
<1> HIDE DEF K, at
<1>2. w \in 0 .. K /\ at[w] = NULL
  BY Zenon DEF K, at
<1>3. 0 \in S
  BY <1>1, <1>2
<1>4. \A n \in 0 .. K - 1 : n \in S => n + 1 \in S
  <2> SUFFICES ASSUME NEW n \in 0 .. K - 1, n \in S
               PROVE  n + 1 \in S
    BY Zenon
  <2>1. n + 1 \in 0 .. K
    BY <1>1
  <2>2. CASE n >= w
    BY <1>1, <2>1, <2>2, Zenon
  <2>3. CASE n + 1 = w
    BY <1>2, <2>1, <2>3, Zenon
  <2>4. CASE n + 1 < w
    BY <1>2, <2>1, <2>4
  <2> QED
    BY <1>2, <2>2, <2>3, <2>4
<1>5. 0 .. K \subseteq S
  <2> HIDE DEF S
  <2> QED
    BY <1>1, <1>3, <1>4, BoundedInduction, Zenon
<1>6. \A n \in w .. K : n \in 0 .. K /\ n >= w
  BY <1>1, <1>2
<1> QED
  BY <1>5, <1>6, Zenon DEF K, at

\* K + 1 places cannot hold K tasks without one of them twice.
LEMMA WalkRepeats ==
    ASSUME NEW at \in [0 .. Cardinality(Tasks) -> Tasks]
    PROVE  \E l, m \in 0 .. Cardinality(Tasks) : l < m /\ at[l] = at[m]
<1> DEFINE K == Cardinality(Tasks)
<1>1. K \in Nat /\ IsFiniteSet(Tasks)
  BY ProcessAssumption, FS_CardinalityType, Zenon
<1>2. IsFiniteSet(0 .. K) /\ Cardinality(0 .. K) = K + 1
  <2> HIDE DEF K
  <2>1. /\ IsFiniteSet(0 .. K)
        /\ Cardinality(0 .. K) = IF 0 > K THEN 0 ELSE K - 0 + 1
    BY <1>1, FS_Interval
  <2> QED
    BY <1>1, <2>1
<1>3. \E l, m \in 0 .. K : l # m /\ at[l] = at[m]
  <2>1. Cardinality(Tasks) < Cardinality(0 .. K)
    BY <1>1, <1>2
  <2>2. at \in [0 .. K -> Tasks]
    BY Zenon
  <2> HIDE DEF K
  <2> QED
    BY <1>1, <1>2, <2>1, <2>2, FS_PigeonHole, Zenon
<1> HIDE DEF K
<1>4. PICK l \in 0 .. K, m \in 0 .. K : l # m /\ at[l] = at[m]
  BY <1>3, Zenon
<1>5. l < m \/ m < l
  BY <1>1, <1>4
<1> QED
  BY <1>4, <1>5, Zenon DEF K

\* From a node x on, a walk passes the nodes of the list in order, and then
\* comes to its end.
LEMMA WalkOrdered ==
    ASSUME NEW T, NEW f, Linkable(T, f), NEW r \in [Tasks -> Nat], NEW S, NEW end,
           Ordered(T, f, S, r, end), NEW x \in S
    PROVE  LET K  == Cardinality(Tasks)
               at == Walk(T, f, x)
           IN  \E w \in 1 .. K :
                  /\ at[w] = end
                  /\ \A m \in 0 .. w - 1 : /\ at[m] \in S /\ r[x] <= r[at[m]]
                                           /\ \A l \in 0 .. m - 1 : r[at[l]] < r[at[m]]
                  /\ \A u \in S : r[x] <= r[u] => \E m \in 0 .. w - 1 : at[m] = u
<1> DEFINE K == Cardinality(Tasks)
           at == Walk(T, f, x)
           P(n) == /\ at[n] \in S /\ r[x] <= r[at[n]]
                   /\ \A l \in 0 .. n - 1 : r[at[l]] < r[at[n]]
                   /\ \A u \in S : r[x] <= r[u] /\ r[u] <= r[at[n]] =>
                         \E m \in 0 .. n : at[m] = u
           bad == {n \in 0 .. K : ~P(n)}
<1>1. S \subseteq Tasks /\ NULL \notin Tasks /\ x \in TaskOrNull
  BY ProcessAssumption, Zenon DEF Ordered, TaskOrNull
<1>2. /\ K \in Nat /\ at \in [0 .. K -> TaskOrNull] /\ at[0] = x
      /\ \A n \in 0 .. K - 1 : at[n + 1] = IF at[n] = NULL THEN NULL ELSE T[at[n]][f]
  BY <1>1, WalkIs
<1> HIDE DEF K, at
<1>3. P(0)
  <2>1. \A u \in S : r[x] <= r[u] /\ r[u] <= r[x] => u = x
    BY <1>1 DEF Ordered
  <2> QED
    BY <1>1, <1>2, <2>1
<1>4. bad # {}
  <2> SUFFICES ASSUME \A n \in 0 .. K : P(n) PROVE FALSE
    BY Zenon
  <2>1. at \in [0 .. K -> Tasks]
    BY <1>1, <1>2, Zenon
  <2>2. PICK l \in 0 .. K, m \in 0 .. K : l < m /\ at[l] = at[m]
    BY <2>1, WalkRepeats, Zenon DEF K
  <2>3. l \in 0 .. m - 1
    BY <1>2, <2>2
  <2>4. r[at[l]] < r[at[m]] /\ r[at[l]] \in Nat
    <3>1. P(m)
      BY Zenon
    <3> QED
      BY <2>1, <2>3, <3>1, Zenon
  <2> QED
    BY <2>2, <2>4
<1>5. PICK n \in bad : \A m \in bad : n <= m
  <2>1. bad \in SUBSET Nat
    BY <1>2
  <2> HIDE DEF bad
  <2> QED
    BY <1>4, <2>1, LeastNat, Zenon
<1>6. n \in 1 .. K /\ ~P(n) /\ n - 1 \in 0 .. K - 1 /\ (n - 1) + 1 = n
  <2>1. n \in 0 .. K /\ ~P(n)
    BY <1>5, Zenon
  <2>2. n # 0
    BY <1>3, <2>1, Zenon
  <2> HIDE DEF P, bad
  <2> QED
    BY <1>2, <2>1, <2>2
<1>7. \A m \in 0 .. n - 1 : P(m)
  <2> SUFFICES ASSUME NEW m \in 0 .. n - 1, ~P(m) PROVE FALSE
    BY Zenon
  <2> HIDE DEF P
  <2>1. m \in 0 .. K /\ m < n
    BY <1>2, <1>6
  <2>2. m \in bad
    BY <2>1, Zenon
  <2> HIDE DEF bad
  <2> QED
    BY <1>2, <1>5, <1>6, <2>1, <2>2
<1> DEFINE y == at[n - 1]
<1>8. y \in S /\ y # NULL /\ y \in Tasks /\ P(n - 1) /\ at[n] = T[y][f]
  <2>1. P(n - 1)
    BY <1>6, <1>7
  <2>2. y \in S
    BY <2>1, Zenon
  <2> HIDE DEF P
  <2> QED
    BY <1>1, <1>2, <1>6, <2>1, <2>2, Zenon
<1>9. LeastOf(at[n], Above(S, r, y), r, end)
  BY <1>8, Zenon DEF Ordered
<1>10. Above(S, r, y) = {}
  <2> SUFFICES ASSUME Above(S, r, y) # {} PROVE P(n)
    BY <1>6, Zenon
  <2>1. /\ at[n] \in S /\ r[at[n]] > r[y]
        /\ \A u \in S : r[u] > r[y] => r[at[n]] <= r[u]
    BY <1>9, Zenon DEF LeastOf, Above
  <2>2. /\ r[x] \in Nat /\ r[y] \in Nat /\ r[at[n]] \in Nat
        /\ \A u \in S : r[u] \in Nat
        /\ \A l \in 0 .. n - 1 : r[at[l]] \in Nat
    BY <1>1, <1>7, <1>8, <2>1, Zenon
  <2>3. r[x] <= r[at[n]]
    <3>1. r[x] <= r[y]
      BY <1>8, Zenon
    <3> QED
      BY <2>1, <2>2, <3>1
  <2>4. \A l \in 0 .. n - 1 : r[at[l]] < r[at[n]]
    <3> SUFFICES ASSUME NEW l \in 0 .. n - 1
                 PROVE  r[at[l]] < r[at[n]]
      BY Zenon
    <3>1. r[at[l]] <= r[y]
      <4>1. CASE l = n - 1
        BY <2>2, <4>1
      <4>2. CASE l # n - 1
        <5>1. l \in 0 .. (n - 1) - 1
          BY <1>6, <4>2
        <5> QED
          BY <1>8, <2>2, <5>1
      <4> QED
        BY <4>1, <4>2, Zenon
    <3> QED
      BY <2>1, <2>2, <3>1
  <2>5. ASSUME NEW u \in S, r[x] <= r[u], r[u] <= r[at[n]]
        PROVE  \E m \in 0 .. n : at[m] = u
    <3>1. CASE r[u] <= r[y]
      <4>1. PICK m \in 0 .. n - 1 : at[m] = u
        BY <1>8, <2>5, <3>1, Zenon
      <4>2. m \in 0 .. n
        BY <1>6
      <4> QED
        BY <4>1, <4>2, Zenon
    <3>2. CASE r[u] > r[y]
      <4>1. r[u] = r[at[n]]
        BY <2>1, <2>2, <2>5, <3>2
      <4>2. u = at[n]
        BY <2>1, <4>1, Zenon DEF Ordered
      <4>3. n \in 0 .. n
        BY <1>6
      <4> QED
        BY <4>2, <4>3, Zenon
    <3> QED
      BY <2>2, <3>1, <3>2
  <2> QED
    BY <2>1, <2>3, <2>4, <2>5, Zenon
<1>11. at[n] = end
  BY <1>9, <1>10, Zenon DEF LeastOf
<1>12. \A u \in S : r[x] <= r[u] => \E m \in 0 .. n - 1 : at[m] = u
  <2> SUFFICES ASSUME NEW u \in S, r[x] <= r[u]
               PROVE  \E m \in 0 .. n - 1 : at[m] = u
    BY Zenon
  <2>1. r[u] \in Nat /\ r[y] \in Nat /\ ~(r[u] > r[y])
    BY <1>1, <1>8, <1>10, Zenon DEF Above
  <2>2. r[u] <= r[y]
    BY <2>1
  <2> QED
    BY <1>8, <2>2, Zenon
<1>13. \A m \in 0 .. n - 1 : /\ at[m] \in S /\ r[x] <= r[at[m]]
                             /\ \A l \in 0 .. m - 1 : r[at[l]] < r[at[m]]
  BY <1>7, Zenon
<1> HIDE DEF P, y
<1> QED
  BY <1>6, <1>11, <1>12, <1>13, Zenon DEF K, at

\* First finds the first hit, if there is one.
LEMMA FirstIs ==
    ASSUME NEW T, NEW f, Linkable(T, f), NEW x \in TaskOrNull, NEW good \in SUBSET Tasks
    PROVE  LET K  == Cardinality(Tasks)
               at == Walk(T, f, x)
               y  == First(T, f, x, good)
           IN  \/ y = NULL /\ \A n \in 0 .. K : at[n] \notin good
               \/ y \in good /\ \E n \in 0 .. K : at[n] = y /\ \A m \in 0 .. n - 1 : at[m] \notin good
<1> DEFINE K == Cardinality(Tasks)
           at == Walk(T, f, x)
           hits == {n \in DOMAIN at : at[n] \in good}
<1>1. K \in Nat /\ DOMAIN at = 0 .. K
  BY WalkIs
<1>2. First(T, f, x, good) = IF hits = {} THEN NULL
                             ELSE at[CHOOSE n \in hits : \A m \in hits : n <= m]
  BY Zenon DEF First
<1> HIDE DEF K, at
<1>3. CASE hits = {}
  BY <1>1, <1>2, <1>3, Zenon DEF K, at
<1>4. CASE hits # {}
  <2>1. hits \in SUBSET Nat
    BY <1>1
  <2>2. \E n \in hits : \A m \in hits : n <= m
    <3> HIDE DEF hits
    <3> QED
      BY <1>4, <2>1, LeastNat, Zenon
  <2> DEFINE n == CHOOSE k \in hits : \A m \in hits : k <= m
  <2>3. n \in hits /\ \A m \in hits : n <= m
    <3> HIDE DEF hits
    <3> QED
      BY <2>2, Zenon
  <2>4. First(T, f, x, good) = at[n]
    BY <1>2, <1>4, Zenon
  <2> HIDE DEF n
  <2>5. n \in 0 .. K /\ at[n] \in good
    BY <1>1, <2>3, Zenon
  <2>6. \A m \in 0 .. n - 1 : at[m] \notin good
    <3> SUFFICES ASSUME NEW m \in 0 .. n - 1, at[m] \in good PROVE FALSE
      BY Zenon
    <3>1. m \in 0 .. K /\ m < n
      BY <1>1, <2>5
    <3>2. m \in hits
      BY <1>1, <3>1, Zenon
    <3>3. n <= m
      BY <2>3, <3>2, Zenon
    <3> QED
      BY <1>1, <2>5, <3>1, <3>3
  <2> QED
    BY <2>4, <2>5, <2>6, Zenon DEF K, at
<1> QED
  BY <1>3, <1>4, Zenon

\* In a list First finds the lowest hit from x on, or comes to the end.
LEMMA FirstOrdered ==
    ASSUME NEW T, NEW f, Linkable(T, f), NEW r \in [Tasks -> Nat], NEW S, NEW end,
           Ordered(T, f, S, r, end), NEW x \in S, NEW good \in SUBSET Tasks,
           end \in good \cup {NULL}
    PROVE  LeastOf(First(T, f, x, good), {u \in S \cap good : r[x] <= r[u]}, r, end)
<1> DEFINE K == Cardinality(Tasks)
           at == Walk(T, f, x)
           y == First(T, f, x, good)
           A == {u \in S \cap good : r[x] <= r[u]}
<1>1. S \subseteq Tasks /\ NULL \notin Tasks /\ x \in TaskOrNull
  BY ProcessAssumption, Zenon DEF Ordered, TaskOrNull
<1>2. K \in Nat
  BY ProcessAssumption, FS_CardinalityType, Zenon
<1>3. PICK w \in 1 .. K :
         /\ at[w] = end
         /\ \A m \in 0 .. w - 1 : /\ at[m] \in S /\ r[x] <= r[at[m]]
                                  /\ \A l \in 0 .. m - 1 : r[at[l]] < r[at[m]]
         /\ \A u \in S : r[x] <= r[u] => \E m \in 0 .. w - 1 : at[m] = u
  BY WalkOrdered
<1>4. \/ y = NULL /\ \A n \in 0 .. K : at[n] \notin good
      \/ y \in good /\ \E n \in 0 .. K : at[n] = y /\ \A m \in 0 .. n - 1 : at[m] \notin good
  BY <1>1, FirstIs, Zenon
<1>5. end = NULL => \A n \in w .. K : at[n] = NULL
  <2>1. w \in 0 .. K
    BY <1>2
  <2> QED
    BY <1>1, <1>3, <2>1, NullStays
<1> HIDE DEF K, at, y
<1>6. CASE A # {}
  <2>1. PICK u \in A : TRUE
    BY <1>6, Zenon
  <2>2. PICK k \in 0 .. w - 1 : at[k] = u
    BY <1>3, <2>1, Zenon
  <2>3. k \in 0 .. K /\ at[k] \in good
    BY <1>2, <2>1, <2>2
  <2>4. PICK n \in 0 .. K : y \in good /\ at[n] = y /\ \A m \in 0 .. n - 1 : at[m] \notin good
    BY <1>4, <2>3, Zenon
  <2>5. n <= k
    <3> SUFFICES ASSUME n > k PROVE FALSE
      BY <1>2, <2>3
    <3>1. k \in 0 .. n - 1
      BY <1>2, <2>3
    <3> QED
      BY <2>3, <2>4, <3>1, Zenon
  <2>6. n \in 0 .. w - 1
    BY <1>2, <2>2, <2>5
  <2>7. y \in A
    BY <1>3, <2>4, <2>6, Zenon
  <2>8. \A v \in A : r[y] <= r[v]
    <3> SUFFICES ASSUME NEW v \in A PROVE r[y] <= r[v]
      BY Zenon
    <3>1. PICK l \in 0 .. w - 1 : at[l] = v
      BY <1>3, Zenon
    <3>2. r[y] \in Nat /\ r[v] \in Nat
      BY <1>1, <2>7, Zenon
    <3>3. CASE l = n
      BY <2>4, <3>1, <3>2, <3>3
    <3>4. CASE l > n
      <4>1. n \in 0 .. l - 1
        BY <1>2, <2>6, <3>4
      <4> QED
        BY <1>3, <2>4, <3>1, <3>2, <4>1
    <3>5. CASE l < n
      <4>1. l \in 0 .. n - 1
        BY <1>2, <2>6, <3>5
      <4> QED
        BY <2>4, <3>1, <4>1, Zenon
    <3> QED
      BY <1>2, <2>6, <3>3, <3>4, <3>5
  <2> QED
    BY <1>6, <2>7, <2>8, Zenon DEF LeastOf, y
<1>7. CASE A = {}
  <2>1. \A m \in 0 .. w - 1 : at[m] \notin good
    BY <1>3, <1>7, Zenon
  <2>2. y = end
    <3>1. CASE end = NULL
      <4>1. \A n \in 0 .. K : n \in 0 .. w - 1 \/ n \in w .. K
        BY <1>2
      <4> QED
        BY <1>1, <1>4, <1>5, <2>1, <3>1, <4>1, Zenon
    <3>2. CASE end \in good
      <4>1. w \in 0 .. K /\ at[w] \in good
        BY <1>2, <1>3, <3>2
      <4>2. PICK n \in 0 .. K : at[n] = y /\ y \in good /\ \A m \in 0 .. n - 1 : at[m] \notin good
        BY <1>4, <4>1, Zenon
      <4>3. ~(n < w) /\ ~(w < n)
        <5>1. n < w => n \in 0 .. w - 1
          BY <1>2
        <5>2. w < n => w \in 0 .. n - 1
          BY <1>2
        <5> QED
          BY <2>1, <4>1, <4>2, <5>1, <5>2, Zenon
      <4>4. n = w
        BY <1>2, <4>3
      <4> QED
        BY <1>3, <4>2, <4>4, Zenon
    <3> QED
      BY <3>1, <3>2, Zenon
  <2> QED
    BY <1>7, <2>2, Zenon DEF LeastOf, y
<1> QED
  BY <1>6, <1>7, Zenon

\* x is the head of a list of S that ends.
Head(T, x, S, r) ==
    /\ Ordered(T, "next_sibling", S, r, NULL)
    /\ LeastOf(x, S, r, NULL)

\* From the head on, First finds the lowest hit of the whole list.
LEMMA FirstInList ==
    ASSUME NEW T, Linkable(T, "next_sibling"), NEW r \in [Tasks -> Nat],
           NEW S, NEW x, Head(T, x, S, r), NEW good \in SUBSET Tasks
    PROVE  LeastOf(First(T, "next_sibling", x, good), S \cap good, r, NULL)
<1> DEFINE K == Cardinality(Tasks)
           at == Walk(T, "next_sibling", x)
           y == First(T, "next_sibling", x, good)
<1>1. S \subseteq Tasks /\ NULL \notin Tasks /\ x \in TaskOrNull
  BY ProcessAssumption, Zenon DEF Head, Ordered, LeastOf, TaskOrNull
<1>2. CASE S = {}
  <2>1. x = NULL
    BY <1>2, Zenon DEF Head, LeastOf
  <2>2. K \in Nat /\ at[0] = NULL
    BY <1>1, <2>1, WalkIs
  <2>3. 0 \in 0 .. K
    BY <2>2
  <2>4. \A n \in 0 .. K : at[n] = NULL
    BY <1>1, <2>2, <2>3, NullStays, Zenon
  <2>5. \/ y = NULL /\ \A n \in 0 .. K : at[n] \notin good
        \/ y \in good /\ \E n \in 0 .. K : at[n] = y /\ \A m \in 0 .. n - 1 : at[m] \notin good
    BY <1>1, FirstIs, Zenon
  <2> HIDE DEF K, at, y
  <2>6. y = NULL
    BY <1>1, <2>4, <2>5, Zenon
  <2> QED
    BY <1>2, <2>6, Zenon DEF LeastOf, y
<1>3. CASE S # {}
  <2>1. x \in S /\ \A u \in S : r[x] <= r[u]
    BY <1>3, Zenon DEF Head, LeastOf
  <2>2. LeastOf(y, {u \in S \cap good : r[x] <= r[u]}, r, NULL)
    BY <2>1, FirstOrdered, Zenon DEF Head
  <2>3. {u \in S \cap good : r[x] <= r[u]} = S \cap good
    BY <2>1, Zenon
  <2> QED
    BY <2>2, <2>3, Zenon
<1> QED
  BY <1>2, <1>3, Zenon

\* A walk from the head passes the list in order, and comes to its end.
LEMMA WalkList ==
    ASSUME NEW T, Linkable(T, "next_sibling"), NEW r \in [Tasks -> Nat],
           NEW S, NEW x, Head(T, x, S, r)
    PROVE  LET K  == Cardinality(Tasks)
               at == Walk(T, "next_sibling", x)
           IN  /\ K \in Nat /\ at \in [0 .. K -> TaskOrNull]
               /\ \E w \in 0 .. K :
                     /\ \A n \in w .. K : at[n] = NULL
                     /\ \A m \in 0 .. w - 1 : /\ at[m] \in S
                                              /\ \A l \in 0 .. m - 1 : r[at[l]] < r[at[m]]
                     /\ \A u \in S : \E m \in 0 .. w - 1 : at[m] = u
<1> DEFINE K == Cardinality(Tasks)
           at == Walk(T, "next_sibling", x)
<1>1. S \subseteq Tasks /\ NULL \notin Tasks /\ x \in TaskOrNull
  BY ProcessAssumption, Zenon DEF Head, Ordered, LeastOf, TaskOrNull
<1>2. K \in Nat /\ at \in [0 .. K -> TaskOrNull] /\ at[0] = x
  BY <1>1, WalkIs
<1>3. CASE S = {}
  <2>1. at[0] = NULL /\ 0 \in 0 .. K
    BY <1>2, <1>3 DEF Head, LeastOf
  <2>2. \A n \in 0 .. K : at[n] = NULL
    BY <1>1, <2>1, NullStays, Zenon
  <2> HIDE DEF at, K
  <2>3. 0 .. 0 - 1 = {}
    OBVIOUS
  <2> QED
    BY <1>2, <1>3, <2>1, <2>2, <2>3, Zenon DEF at, K
<1>4. CASE S # {}
  <2>1. x \in S /\ \A u \in S : r[x] <= r[u]
    BY <1>4, Zenon DEF Head, LeastOf
  <2>2. PICK w \in 1 .. K :
           /\ at[w] = NULL
           /\ \A m \in 0 .. w - 1 : /\ at[m] \in S
                                    /\ \A l \in 0 .. m - 1 : r[at[l]] < r[at[m]]
           /\ \A u \in S : r[x] <= r[u] => \E m \in 0 .. w - 1 : at[m] = u
    BY <2>1, WalkOrdered DEF Head
  <2>3. w \in 0 .. K
    BY <1>2
  <2>4. \A n \in w .. K : at[n] = NULL
    BY <1>1, <2>2, <2>3, NullStays
  <2> HIDE DEF at, K
  <2> QED
    BY <1>2, <2>1, <2>2, <2>3, <2>4, Zenon DEF at, K
<1> QED
  BY <1>3, <1>4, Zenon

\* So it passes all of the list, and nothing else.
LEMMA NodesOfList ==
    ASSUME NEW T, Linkable(T, "next_sibling"), NEW r \in [Tasks -> Nat],
           NEW S, NEW x, Head(T, x, S, r)
    PROVE  /\ Nodes(T, "next_sibling", x) = S
           /\ Walk(T, "next_sibling", x)[Cardinality(Tasks)] = NULL
<1> DEFINE K == Cardinality(Tasks)
           at == Walk(T, "next_sibling", x)
<1>1. S \subseteq Tasks /\ NULL \notin Tasks
  BY ProcessAssumption, Zenon DEF Head, Ordered
<1>2. K \in Nat /\ at \in [0 .. K -> TaskOrNull]
  BY WalkList, Zenon
<1>4. Nodes(T, "next_sibling", x) = {at[n] : n \in 0 .. K} \ {NULL}
  BY <1>2, Zenon DEF Nodes
<1>5. PICK w \in 0 .. K : /\ \A n \in w .. K : at[n] = NULL
                          /\ \A m \in 0 .. w - 1 : at[m] \in S
                          /\ \A u \in S : \E m \in 0 .. w - 1 : at[m] = u
  BY WalkList
<1> HIDE DEF at, K
<1>6. /\ \A n \in 0 .. K : n \in 0 .. w - 1 \/ n \in w .. K
      /\ \A n \in 0 .. w - 1 : n \in 0 .. K
      /\ K \in w .. K
  BY <1>2
<1>7. {at[n] : n \in 0 .. K} \ {NULL} = S
  BY <1>1, <1>5, <1>6
<1> QED
  BY <1>4, <1>5, <1>6, <1>7, Zenon DEF at, K

\* A walk from the first node of a ring passes all of it, and nothing else.
LEMMA NodesOfRing ==
    ASSUME NEW T, NEW f, Linkable(T, f), NEW r \in [Tasks -> Nat], NEW S, NEW x \in S,
           Ordered(T, f, S, r, x), \A u \in S : r[x] <= r[u]
    PROVE  Nodes(T, f, x) = S
<1> DEFINE K == Cardinality(Tasks)
           at == Walk(T, f, x)
           In == {n \in 0 .. K : at[n] \in S}
<1>1. S \subseteq Tasks /\ NULL \notin Tasks /\ x \in TaskOrNull
  BY ProcessAssumption, Zenon DEF Ordered, TaskOrNull
<1>2. /\ K \in Nat /\ at \in [0 .. K -> TaskOrNull] /\ at[0] = x
      /\ \A n \in 0 .. K - 1 : at[n + 1] = IF at[n] = NULL THEN NULL ELSE T[at[n]][f]
  BY <1>1, WalkIs
<1>3. PICK w \in 1 .. K :
         \A u \in S : r[x] <= r[u] => \E m \in 0 .. w - 1 : at[m] = u
  BY WalkOrdered
<1>4. Nodes(T, f, x) = {at[n] : n \in 0 .. K} \ {NULL}
  BY <1>2, Zenon DEF Nodes
<1> HIDE DEF at, K
<1>5. \A t \in S : T[t][f] \in S
  BY Zenon DEF Ordered, LeastOf, Above
<1>6. 0 .. K \subseteq In
  <2>1. 0 \in In
    BY <1>2
  <2>2. \A n \in 0 .. K - 1 : n \in In => n + 1 \in In
    BY <1>1, <1>2, <1>5
  <2> HIDE DEF In
  <2> QED
    BY <1>2, <2>1, <2>2, BoundedInduction, Zenon
<1>7. \A n \in 0 .. w - 1 : n \in 0 .. K
  BY <1>2
<1> QED
  BY <1>1, <1>3, <1>4, <1>6, <1>7

----------------------------------------------------------------------------
(* The ring and the tree.                                                  *)

Kids(T, p) == {t \in InUse(T) \ {InitTask} : T[t].parent = p}

\* The tasks that have a list of children: those that can still run, and h,
\* which is handing its children over.
Owners(T, h) == {p \in InUse(T) : T[p].state \notin Gone \/ p = h}

RingBy(T, r) ==
    /\ \A u \in InUse(T) : r[InitTask] <= r[u]
    /\ Ordered(T, "next", InUse(T), r, InitTask)

Ring(T) ==
    /\ Linkable(T, "next") /\ InitTask \in InUse(T)
    /\ \E r \in [Tasks -> Nat] : RingBy(T, r)

TreeBy(T, h, r) == \A p \in Owners(T, h) : Head(T, T[p].child, Kids(T, p), r)

Parents(T, h) ==
    /\ InitTask \in Owners(T, NULL) /\ T[InitTask].parent = InitTask
    /\ \A t \in InUse(T) : T[t].parent \in Owners(T, h)
    /\ \A t \in InUse(T) \ {InitTask} : T[t].parent # t

Tree(T, h) ==
    /\ Linkable(T, "next_sibling") /\ Parents(T, h)
    /\ \E B \in Nat : \E r \in [Tasks -> 0 .. B] : TreeBy(T, h, r)

SameLinks(T, U) ==
    \A t \in Tasks : /\ U[t].next = T[t].next /\ U[t].next_sibling = T[t].next_sibling
                     /\ U[t].parent = T[t].parent /\ U[t].child = T[t].child

\* An order depends on the links of its nodes only.
LEMMA OrderedSame ==
    ASSUME NEW T, NEW U, NEW f, NEW S, NEW r, NEW end,
           Ordered(T, f, S, r, end), \A t \in S : U[t][f] = T[t][f]
    PROVE  Ordered(U, f, S, r, end)
BY Zenon DEF Ordered

\* Steps that change no link, and neither who is in use nor who has children.
LEMMA ShapeKeeps ==
    ASSUME NEW T, NEW U, SameLinks(T, U), InUse(U) = InUse(T), NEW h, NEW g,
           Owners(U, g) = Owners(T, h), InitTask \in Owners(U, NULL),
           Ring(T), Tree(T, h)
    PROVE  Ring(U) /\ Tree(U, g)
<1>1. \A p : Kids(U, p) = Kids(T, p)
  BY Zenon DEF Kids, SameLinks, InUse
<1>2. Linkable(U, "next") /\ Linkable(U, "next_sibling")
  BY Zenon DEF Ring, Tree, SameLinks, Linkable
<1>3. Ring(U)
  <2>1. PICK r \in [Tasks -> Nat] : RingBy(T, r)
    BY Zenon DEF Ring
  <2>2. \A t \in InUse(T) : U[t].next = T[t].next
    BY Zenon DEF SameLinks, InUse
  <2>3. RingBy(U, r)
    BY <2>1, <2>2, OrderedSame, Zenon DEF RingBy
  <2> QED
    BY <1>2, <2>3, Zenon DEF Ring
<1>4. Parents(U, g)
  BY ProcessAssumption, Zenon DEF Tree, Parents, SameLinks, InUse
<1>5. PICK B \in Nat : \E r \in [Tasks -> 0 .. B] : TreeBy(T, h, r)
  BY Zenon DEF Tree
<1>6. PICK r \in [Tasks -> 0 .. B] : TreeBy(T, h, r)
  BY <1>5, Zenon
<1>7. TreeBy(U, g, r)
  <2> SUFFICES ASSUME NEW p \in Owners(T, h)
               PROVE  Head(U, U[p].child, Kids(T, p), r)
    BY <1>1, Zenon DEF TreeBy
  <2>1. Head(T, T[p].child, Kids(T, p), r) /\ p \in Tasks
    BY <1>6, Zenon DEF TreeBy, Owners, InUse
  <2>2. \A t \in Kids(T, p) : U[t].next_sibling = T[t].next_sibling
    BY Zenon DEF Kids, InUse, SameLinks
  <2>3. U[p].child = T[p].child
    BY <2>1, Zenon DEF SameLinks
  <2> QED
    BY <2>1, <2>2, <2>3, OrderedSame, Zenon DEF Head
<1> QED
  BY <1>2, <1>3, <1>4, <1>5, <1>7, Zenon DEF Tree

\* Only the order of the ranks matters.
LEMMA RanksSame ==
    ASSUME NEW T, NEW f, NEW S \in SUBSET Tasks, NEW x, NEW end,
           NEW r \in [Tasks -> Nat], NEW s \in [Tasks -> Nat],
           \A t, u \in S : r[t] <= r[u] <=> s[t] <= s[u]
    PROVE  /\ Ordered(T, f, S, r, end) => Ordered(T, f, S, s, end)
           /\ LeastOf(x, S, r, end) => LeastOf(x, S, s, end)
<1>1. \A t \in S : r[t] \in Nat /\ s[t] \in Nat
  BY Zenon
<1>2. \A t, u \in S : /\ r[t] = r[u] <=> s[t] = s[u]
                      /\ r[t] > r[u] <=> s[t] > s[u]
  BY <1>1
<1>3. \A t \in S : Above(S, r, t) = Above(S, s, t)
  BY <1>2, Zenon DEF Above
<1>4. \A t \in S : \A y : LeastOf(y, Above(S, r, t), r, end) => LeastOf(y, Above(S, s, t), s, end)
  BY <1>3, Zenon DEF LeastOf, Above
<1>5. Ordered(T, f, S, r, end) => Ordered(T, f, S, s, end)
  BY <1>2, <1>4, Zenon DEF Ordered
<1> QED
  BY <1>5, Zenon DEF LeastOf

\* Linking q behind p in the ring.
LEMMA RingInsert ==
    ASSUME NEW T, NEW U, NEW q \in Tasks, NEW p \in InUse(T), q \notin InUse(T), Ring(T),
           InUse(U) = InUse(T) \cup {q},
           \A t \in InUse(T) \ {p} : U[t].next = T[t].next,
           U[q].next = T[p].next, U[p].next = q, Linkable(U, "next")
    PROVE  Ring(U)
<1>1. PICK r \in [Tasks -> Nat] : RingBy(T, r)
  BY Zenon DEF Ring
<1> DEFINE I == InUse(T)
           J == InUse(U)
           s == [t \in Tasks |-> IF t = q THEN 2 * r[p] + 1 ELSE 2 * r[t]]
<1>2. I \subseteq Tasks /\ p \in I /\ p # q /\ q \notin I /\ J = I \cup {q} /\ InitTask \in I
  BY Zenon DEF InUse, Ring
<1>3. /\ s \in [Tasks -> Nat] /\ s[q] = 2 * r[p] + 1
      /\ \A t \in I : s[t] = 2 * r[t] /\ r[t] \in Nat /\ s[t] \in Nat
  BY <1>2
<1> HIDE DEF s, I, J
<1>4. /\ \A u \in I : r[InitTask] <= r[u]
      /\ \A t, u \in I : r[t] = r[u] => t = u
      /\ \A t \in I : LeastOf(T[t].next, Above(I, r, t), r, InitTask)
  BY <1>1, Zenon DEF RingBy, Ordered, I
<1>5. \A u \in J : s[InitTask] <= s[u]
  BY <1>2, <1>3, <1>4
<1>6. \A t, u \in J : s[t] = s[u] => t = u
  BY <1>2, <1>3, <1>4
<1>7. ASSUME NEW t \in J
      PROVE  LeastOf(U[t].next, Above(J, s, t), s, InitTask)
  <2>1. CASE t = q
    <3>1. Above(J, s, q) = Above(I, r, p)
      BY <1>2, <1>3 DEF Above
    <3>2. LeastOf(T[p].next, Above(I, r, p), r, InitTask)
      BY <1>2, <1>4, Zenon
    <3>3. LeastOf(T[p].next, Above(I, r, p), s, InitTask)
      BY <1>3, <3>2 DEF LeastOf, Above
    <3> QED
      BY <2>1, <3>1, <3>3, Zenon
  <2>2. CASE t = p
    <3>1. q \in Above(J, s, p)
      BY <1>2, <1>3 DEF Above
    <3>2. \A u \in Above(J, s, p) : s[q] <= s[u]
      BY <1>2, <1>3 DEF Above
    <3> QED
      BY <2>2, <3>1, <3>2, Zenon DEF LeastOf
  <2>3. CASE t # p /\ t # q
    <3>1. t \in I /\ U[t].next = T[t].next
      BY <1>2, <2>3, Zenon DEF I
    <3>2. LeastOf(T[t].next, Above(I, r, t), r, InitTask)
      BY <1>4, <3>1, Zenon
    <3>3. /\ Above(I, r, t) \subseteq Above(J, s, t)
          /\ Above(J, s, t) \subseteq Above(I, r, t) \cup {q}
          /\ q \in Above(J, s, t) => p \in Above(I, r, t)
      <4>1. \A u \in I : s[u] > s[t] <=> r[u] > r[t]
        BY <1>3, <3>1
      <4>2. s[q] > s[t] => r[p] > r[t]
        <5>1. r[p] # r[t] /\ r[p] \in Nat /\ r[t] \in Nat
          BY <1>2, <1>3, <1>4, <2>3, <3>1, Zenon
        <5> QED
          BY <1>3, <3>1, <5>1
      <4> QED
        BY <1>2, <4>1, <4>2, Zenon DEF Above
    <3>4. CASE Above(I, r, t) = {}
      BY <3>1, <3>2, <3>3, <3>4 DEF LeastOf
    <3>5. CASE Above(I, r, t) # {}
      <4> DEFINE n == T[t].next
      <4>1. n \in Above(I, r, t) /\ \A u \in Above(I, r, t) : r[n] <= r[u]
        BY <3>2, <3>5, Zenon DEF LeastOf
      <4>2. n \in I /\ \A u \in Above(I, r, t) : s[n] <= s[u]
        BY <1>3, <4>1 DEF Above
      <4>3. q \in Above(J, s, t) => s[n] <= s[q]
        <5>1. q \in Above(J, s, t) => r[n] <= r[p]
          BY <3>3, <4>1, Zenon
        <5> HIDE DEF n
        <5> QED
          BY <1>2, <1>3, <4>2, <5>1
      <4>4. n \in Above(J, s, t) /\ \A u \in Above(J, s, t) : s[n] <= s[u]
        BY <3>3, <4>1, <4>2, <4>3, Zenon
      <4> QED
        BY <3>1, <4>4, Zenon DEF LeastOf
    <3> QED
      BY <3>4, <3>5, Zenon
  <2> QED
    BY <2>1, <2>2, <2>3, Zenon
<1>8. RingBy(U, s)
  BY <1>2, <1>5, <1>6, <1>7, Zenon DEF RingBy, Ordered, J
<1> QED
  BY <1>2, <1>3, <1>8, Zenon DEF Ring, J

\* Making q the first child of p.
LEMMA TreeInsert ==
    ASSUME NEW T, NEW U, NEW q \in Tasks, NEW p \in Owners(T, NULL), q \notin InUse(T),
           Tree(T, NULL), InUse(U) = InUse(T) \cup {q},
           Owners(U, NULL) = Owners(T, NULL) \cup {q},
           \A t \in InUse(T) : /\ U[t].next_sibling = T[t].next_sibling
                               /\ U[t].parent = T[t].parent
                               /\ t # p => U[t].child = T[t].child,
           U[q].next_sibling = T[p].child, U[q].parent = p, U[q].child = NULL,
           U[p].child = q, Linkable(U, "next_sibling")
    PROVE  Tree(U, NULL)
<1>1. PICK B \in Nat : \E r \in [Tasks -> 0 .. B] : TreeBy(T, NULL, r)
  BY Zenon DEF Tree
<1>2. PICK r \in [Tasks -> 0 .. B] : TreeBy(T, NULL, r)
  BY <1>1, Zenon
<1> DEFINE s == [t \in Tasks |-> IF t = q THEN 0 ELSE r[t] + 1]
<1>3. InUse(T) \subseteq Tasks /\ InitTask \in InUse(T) /\ p \in InUse(T) /\ q # InitTask /\ q # p
  BY Zenon DEF Tree, Parents, Owners, InUse
<1>4. /\ s \in [Tasks -> 0 .. B + 1] /\ s \in [Tasks -> Nat] /\ r \in [Tasks -> Nat]
      /\ s[q] = 0 /\ \A t \in InUse(T) : s[t] = r[t] + 1 /\ r[t] \in Nat
  BY <1>3
<1> HIDE DEF s
<1>5. Parents(U, NULL)
  BY <1>3, Zenon DEF Tree, Parents
<1>6. /\ Kids(U, p) = Kids(T, p) \cup {q} /\ Kids(U, q) = {}
      /\ \A x : x # p /\ x # q => Kids(U, x) = Kids(T, x)
  <2>1. \A t \in InUse(T) : T[t].parent # q
    BY DEF Tree, Parents, Owners
  <2> QED
    BY <1>3, <2>1, SMTT(30) DEF Kids
<1>7. ASSUME NEW x \in Owners(T, NULL)
      PROVE  /\ Ordered(U, "next_sibling", Kids(T, x), s, NULL)
             /\ LeastOf(T[x].child, Kids(T, x), s, NULL)
  <2>1. Head(T, T[x].child, Kids(T, x), r) /\ Kids(T, x) \in SUBSET Tasks
    BY <1>2, Zenon DEF TreeBy, Kids, InUse
  <2>2. \A t, u \in Kids(T, x) : r[t] <= r[u] <=> s[t] <= s[u]
    BY <1>4 DEF Kids
  <2>3. /\ Ordered(T, "next_sibling", Kids(T, x), s, NULL)
        /\ LeastOf(T[x].child, Kids(T, x), s, NULL)
    BY <1>4, <2>1, <2>2, RanksSame, Zenon DEF Head
  <2>4. \A t \in Kids(T, x) : U[t].next_sibling = T[t].next_sibling
    BY Zenon DEF Kids
  <2> QED
    BY <2>3, <2>4, OrderedSame
<1>8. ASSUME NEW x \in Owners(U, NULL)
      PROVE  Head(U, U[x].child, Kids(U, x), s)
  <2>1. CASE x = q
    BY <1>6, <2>1, Zenon DEF Head, Ordered, LeastOf
  <2>2. CASE x = p
    <3> DEFINE S == Kids(T, p)
    <3>1. /\ Ordered(U, "next_sibling", S, s, NULL)
          /\ LeastOf(T[p].child, S, s, NULL)
      BY <1>7, Zenon
    <3>2. S \subseteq InUse(T) /\ q \notin S
      BY Zenon DEF Kids
    <3> HIDE DEF S
    <3>3. \A t \in S : s[t] \in Nat /\ s[t] > 0
      BY <1>4, <3>2
    <3>4. Above(S \cup {q}, s, q) = S /\ \A t \in S : Above(S \cup {q}, s, t) = Above(S, s, t)
      BY <1>4, <3>2, <3>3, SMTT(30) DEF Above
    <3>5. \A t, u \in S \cup {q} : s[t] = s[u] => t = u
      BY <1>4, <3>1, <3>3, SMTT(30) DEF Ordered
    <3>6. Ordered(U, "next_sibling", S \cup {q}, s, NULL)
      BY <3>1, <3>4, <3>5, ZenonT(30) DEF Ordered
    <3>7. LeastOf(q, S \cup {q}, s, NULL)
      BY <1>4, <3>3 DEF LeastOf
    <3> QED
      BY <1>6, <2>2, <3>6, <3>7, Zenon DEF Head, S
  <2>3. CASE x # q /\ x # p
    <3>1. x \in Owners(T, NULL) /\ x \in InUse(T)
      BY <2>3 DEF Owners
    <3> QED
      BY <1>6, <1>7, <2>3, <3>1, Zenon DEF Head
  <2> QED
    BY <2>1, <2>2, <2>3, Zenon
<1>9. TreeBy(U, NULL, s) /\ B + 1 \in Nat
  BY <1>8 DEF TreeBy
<1> QED
  BY <1>4, <1>5, <1>9, Zenon DEF Tree

\* The node that follows when the dead are skipped is the lowest that stays.
LEMMA SurvivorLeast ==
    ASSUME NEW T, NEW f, Linkable(T, f), NEW r \in [Tasks -> Nat], NEW S, NEW end,
           Ordered(T, f, S, r, end), NEW dead \in SUBSET Tasks,
           end \in (Tasks \ dead) \cup {NULL}, NEW A \in SUBSET S,
           \A u \in A, v \in S : r[u] <= r[v] => v \in A,
           NEW x, LeastOf(x, A, r, end)
    PROVE  LeastOf(Survivor(T, dead, f, x), A \ dead, r, end)
<1>1. NULL \notin Tasks /\ S \subseteq Tasks
  BY ProcessAssumption, Zenon DEF Ordered
<1>2. CASE x \notin dead
  BY <1>2, Zenon DEF Survivor, LeastOf
<1>3. CASE x \in dead
  <2>1. x \in A /\ x \in S /\ \A u \in A : r[x] <= r[u]
    BY <1>1, <1>3, Zenon DEF LeastOf
  <2> DEFINE good == Tasks \ dead
             y == First(T, f, x, good)
             C == {u \in S \cap good : r[x] <= r[u]}
  <2>2. LeastOf(y, C, r, end)
    BY <2>1, FirstOrdered, Zenon
  <2>3. C = A \ dead
    BY <1>1, <2>1, Zenon
  <2>4. Survivor(T, dead, f, x) = y
    BY <1>3, Zenon DEF Survivor
  <2> QED
    BY <2>2, <2>3, <2>4, Zenon
<1> QED
  BY <1>2, <1>3, Zenon

\* In U every node that stays links to the next that does.
Skips(T, U, f, S, dead) ==
    \A t \in S \ dead : U[t][f] = Survivor(T, dead, f, T[t][f])

\* A list without its dead is a list.
LEMMA SurvivorsOrdered ==
    ASSUME NEW T, NEW U, NEW f, Linkable(T, f), NEW r \in [Tasks -> Nat], NEW S, NEW end,
           Ordered(T, f, S, r, end), NEW dead \in SUBSET Tasks,
           end \in (Tasks \ dead) \cup {NULL}, Skips(T, U, f, S, dead)
    PROVE  Ordered(U, f, S \ dead, r, end)
<1>1. S \subseteq Tasks /\ \A t \in S : r[t] \in Nat
  BY Zenon DEF Ordered
<1>2. ASSUME NEW t \in S \ dead
      PROVE  LeastOf(U[t][f], Above(S \ dead, r, t), r, end)
  <2> DEFINE A == Above(S, r, t)
  <2>1. A \in SUBSET S /\ LeastOf(T[t][f], A, r, end)
    BY Zenon DEF Above, Ordered
  <2>2. \A u \in A, v \in S : r[u] <= r[v] => v \in A
    BY <1>1 DEF Above
  <2>3. A \ dead = Above(S \ dead, r, t)
    BY Zenon DEF Above
  <2> HIDE DEF A
  <2>4. LeastOf(Survivor(T, dead, f, T[t][f]), A \ dead, r, end)
    BY <2>1, <2>2, SurvivorLeast, Zenon
  <2> QED
    BY <2>3, <2>4, Zenon DEF Skips
<1> QED
  BY <1>1, <1>2, Zenon DEF Ordered

\* A link stays a link.
LEMMA SurvivorTyped ==
    ASSUME NEW T, NEW f, Linkable(T, f), NEW dead \in SUBSET Tasks, NEW x \in TaskOrNull
    PROVE  Survivor(T, dead, f, x) \in TaskOrNull
<1>1. (Tasks \ dead) \in SUBSET Tasks
  BY Zenon
<1>2. First(T, f, x, Tasks \ dead) \in (Tasks \ dead) \cup {NULL}
  BY <1>1, FirstIs, Zenon
<1> QED
  BY <1>2, Zenon DEF Survivor, TaskOrNull

\* gc_tasks takes the dead out of the ring.
LEMMA RingSurvives ==
    ASSUME NEW T, NEW U, Ring(T), NEW dead \in SUBSET Tasks, InitTask \notin dead,
           InUse(U) = InUse(T) \ dead, Linkable(U, "next"),
           \A t \in InUse(U) : U[t].next = Survivor(T, dead, "next", T[t].next)
    PROVE  /\ Ring(U)
           /\ \A x \in InUse(T) : /\ Survivor(T, dead, "next", x) \in InUse(U)
                                  /\ x \notin dead => Survivor(T, dead, "next", x) = x
<1>1. PICK r \in [Tasks -> Nat] : RingBy(T, r)
  BY Zenon DEF Ring
<1> DEFINE I == InUse(T)
<1>2. /\ I \subseteq Tasks /\ InitTask \in I /\ Linkable(T, "next")
      /\ Ordered(T, "next", I, r, InitTask) /\ \A u \in I : r[InitTask] <= r[u]
  BY <1>1, Zenon DEF Ring, RingBy, InUse
<1>3. InUse(U) = I \ dead
  BY Zenon
<1> HIDE DEF I
<1>4. Ordered(U, "next", I \ dead, r, InitTask)
  <2>1. Skips(T, U, "next", I, dead)
    BY <1>3, Zenon DEF Skips
  <2> QED
    BY <1>2, <2>1, SurvivorsOrdered, Zenon
<1>5. Ring(U)
  BY <1>2, <1>3, <1>4, Zenon DEF Ring, RingBy
<1>6. ASSUME NEW x \in I, x \in dead
      PROVE  Survivor(T, dead, "next", x) \in I \ dead
  <2> DEFINE good == Tasks \ dead
  <2>1. LeastOf(First(T, "next", x, good), {u \in I \cap good : r[x] <= r[u]}, r, InitTask)
    BY <1>2, FirstOrdered
  <2>2. First(T, "next", x, good) \in I \ dead
    BY <1>2, <2>1, Zenon DEF LeastOf
  <2> QED
    BY <1>6, <2>2, Zenon DEF Survivor
<1> QED
  BY <1>3, <1>5, <1>6, Zenon DEF Survivor, I



\* And out of the lists of children.
LEMMA TreeSurvives ==
    ASSUME NEW T, NEW U, Tree(T, NULL), NEW dead \in SUBSET Tasks,
           \A t \in dead : T[t].state = "DELETED" /\ t # InitTask,
           InUse(U) = InUse(T) \ dead, Linkable(U, "next_sibling"),
           Owners(U, NULL) = Owners(T, NULL),
           \A t \in InUse(U) :
              /\ U[t].parent = T[t].parent
              /\ U[t].next_sibling = Survivor(T, dead, "next_sibling", T[t].next_sibling)
              /\ U[t].child = IF T[t].child \in dead /\ T[T[t].child].parent = t
                              THEN Survivor(T, dead, "next_sibling", T[t].child)
                              ELSE T[t].child
    PROVE  Tree(U, NULL)
<1>1. PICK B \in Nat : \E r \in [Tasks -> 0 .. B] : TreeBy(T, NULL, r)
  BY Zenon DEF Tree
<1>2. PICK r \in [Tasks -> 0 .. B] : TreeBy(T, NULL, r)
  BY <1>1, Zenon
<1>3. r \in [Tasks -> Nat] /\ InitTask \notin dead /\ Linkable(T, "next_sibling")
  BY DEF Tree
<1>4. Parents(U, NULL)
  BY <1>3, Zenon DEF Tree, Parents, Owners
<1>5. ASSUME NEW p \in Owners(U, NULL)
      PROVE  Head(U, U[p].child, Kids(U, p), r)
  <2> DEFINE S == Kids(T, p)
  <2>1. /\ Ordered(T, "next_sibling", S, r, NULL) /\ LeastOf(T[p].child, S, r, NULL)
        /\ S \subseteq InUse(T) /\ p \in InUse(U)
    <3>1. p \in Owners(T, NULL) /\ p \in InUse(U)
      BY <1>5, Zenon DEF Owners
    <3>2. Head(T, T[p].child, S, r)
      BY <1>2, <3>1, Zenon DEF TreeBy
    <3> QED
      BY <3>1, <3>2, Zenon DEF Head, Kids
  <2>2. Kids(U, p) = S \ dead
    BY <1>3 DEF Kids
  <2>3. U[p].child = Survivor(T, dead, "next_sibling", T[p].child)
    <3>1. T[p].child \in dead => T[p].child \in S
      <4>1. NULL \notin Tasks
        BY ProcessAssumption, Zenon
      <4> QED
        BY <2>1, <4>1, Zenon DEF LeastOf
    <3>2. T[p].child \in dead => T[T[p].child].parent = p
      BY <3>1, Zenon DEF Kids
    <3> QED
      BY <2>1, <3>2, Zenon DEF Survivor
  <2>4. Skips(T, U, "next_sibling", S, dead)
    BY <2>1, Zenon DEF Skips
  <2> HIDE DEF S
  <2>5. Ordered(U, "next_sibling", S \ dead, r, NULL)
    BY <1>3, <2>1, <2>4, SurvivorsOrdered, Zenon
  <2>6. LeastOf(Survivor(T, dead, "next_sibling", T[p].child), S \ dead, r, NULL)
    BY <1>3, <2>1, SurvivorLeast, Zenon
  <2> QED
    BY <2>2, <2>3, <2>5, <2>6, Zenon DEF Head
<1> QED
  BY <1>4, <1>5, Zenon DEF Tree, TreeBy

----------------------------------------------------------------------------
(* The structures.                                                         *)

TaskType ==
    [state : States, pid : Nat, killed : BOOLEAN,
     block_reason : {"NONE", "DELAY", "WAITPID"}, blocked_ticks : Int,
     blocked_process : TaskOrNull, wstatus : BOOLEAN,
     waitpid_flags : SUBSET {"WNOHANG", "WUNTRACED", "WCONTINUED"},
     waitpid_event : {0, 1, 2},
     next : TaskOrNull, next_sibling : TaskOrNull, parent : TaskOrNull,
     child : TaskOrNull, rax : Int, asked : Int]

TaskMap == [Tasks -> TaskType]

\* All but the links is the same.
SameBody(y, z) ==
    /\ z.state = y.state /\ z.pid = y.pid /\ z.killed = y.killed
    /\ z.block_reason = y.block_reason /\ z.blocked_ticks = y.blocked_ticks
    /\ z.blocked_process = y.blocked_process /\ z.wstatus = y.wstatus
    /\ z.waitpid_flags = y.waitpid_flags /\ z.waitpid_event = y.waitpid_event
    /\ z.rax = y.rax /\ z.asked = y.asked

\* Every link is a task or NULL.
LEMMA Links ==
    ASSUME NEW T \in TaskMap
    PROVE  /\ Linkable(T, "next") /\ Linkable(T, "next_sibling")
           /\ \A t \in Tasks : T[t] \in TaskType /\ T[t].child \in TaskOrNull
                               /\ T[t].parent \in TaskOrNull
BY Zenon DEF TaskMap, TaskType, Linkable

Below(S, r, t) == {u \in S : r[u] < r[t]}

\* y is the node of A with the highest rank; first if there is none.
GreatestOf(y, A, r, first) ==
    IF A = {} THEN y = first ELSE y \in A /\ \A u \in A : r[u] <= r[y]

\* What an adopted child becomes.
AdoptedBy(T, S, r, new, x, z) ==
    \E y : /\ GreatestOf(y, Below(S, r, x), r, T[new].child)
           /\ z = [T[x] EXCEPT !.parent = new, !.next_sibling = y]

\* What Adopt does to a list S of children of t: the order is reversed.
LEMMA AdoptIs ==
    ASSUME NEW T \in TaskMap, NEW t \in Tasks, NEW new \in Tasks, NEW r \in [Tasks -> Nat],
           NEW S, Head(T, T[t].child, S, r), new \notin S
    PROVE  LET A == Adopt(T, t, new)
           IN  /\ S = {} => A = T
               /\ S # {} =>
                    /\ DOMAIN A = Tasks
                    /\ \A x \in Tasks \ S : x # new => A[x] = T[x]
                    /\ \E y : /\ GreatestOf(y, S, r, NULL)
                              /\ A[new] = [T[new] EXCEPT !.child = y]
                    /\ \A x \in S : AdoptedBy(T, S, r, new, x, A[x])
<1> DEFINE K == Cardinality(Tasks)
           at == Walk(T, "next_sibling", T[t].child)
           kids == {n \in DOMAIN at : at[n] # NULL}
           last == CHOOSE n \in kids : \A m \in kids : m <= n
           A == Adopt(T, t, new)
<1>1. /\ S \subseteq Tasks /\ NULL \notin Tasks /\ Linkable(T, "next_sibling")
      /\ \A x \in S : r[x] \in Nat
  BY ProcessAssumption, Links, Zenon DEF Head, Ordered
<1>2. K \in Nat /\ DOMAIN at = 0 .. K
  BY <1>1, WalkList, SMTT(30)
<1>3. PICK w \in 0 .. K :
         /\ \A n \in w .. K : at[n] = NULL
         /\ \A m \in 0 .. w - 1 : /\ at[m] \in S
                                  /\ \A l \in 0 .. m - 1 : r[at[l]] < r[at[m]]
         /\ \A u \in S : \E m \in 0 .. w - 1 : at[m] = u
  BY <1>1, WalkList, SMTT(30)
<1>4. A = [x \in Tasks |->
            IF kids = {} THEN T[x]
            ELSE LET y == IF x = new THEN [T[x] EXCEPT !.child = at[last]]
                          ELSE T[x]
                 IN  IF \E n \in kids : at[n] = x
                     THEN LET n == CHOOSE n \in kids : at[n] = x
                          IN  [y EXCEPT !.parent = new, !.next_sibling =
                                  IF n = 0 THEN T[new].child ELSE at[n - 1]]
                     ELSE y]
  BY Zenon DEF Adopt
<1> HIDE DEF K, at, A
<1>5. kids = 0 .. w - 1
  <2>1. \A n \in 0 .. K : n \in 0 .. w - 1 \/ n \in w .. K
    BY <1>2
  <2>2. \A n \in 0 .. w - 1 : n \in 0 .. K
    BY <1>2
  <2> QED
    BY <1>1, <1>2, <1>3, <2>1, <2>2, SMTT(30)
<1>6. S = {} <=> w = 0
  <2>1. w > 0 => 0 \in 0 .. w - 1
    BY <1>2
  <2>2. w = 0 => 0 .. w - 1 = {}
    BY <1>2
  <2>3. w \in Nat
    BY <1>2
  <2> QED
    BY <1>3, <2>1, <2>2, <2>3
<1>7. ASSUME S = {}
      PROVE  A = T
  <2>1. kids = {}
    BY <1>2, <1>5, <1>6, <1>7
  <2>2. A = [x \in Tasks |-> T[x]]
    BY <1>4, <2>1, Zenon
  <2> QED
    BY <2>2, Zenon DEF TaskMap
<1>8. ASSUME S # {}
      PROVE  /\ DOMAIN A = Tasks
             /\ \A x \in Tasks \ S : x # new => A[x] = T[x]
             /\ \E y : GreatestOf(y, S, r, NULL) /\ A[new] = [T[new] EXCEPT !.child = y]
             /\ \A x \in S : AdoptedBy(T, S, r, new, x, A[x])
  <2>1. w \in Nat /\ w > 0 /\ w - 1 \in 0 .. w - 1 /\ kids # {}
    BY <1>2, <1>5, <1>6, <1>8, SMTT(30)
  <2>2. last = w - 1
    <3>1. w - 1 \in kids /\ \A m \in kids : m <= w - 1
      BY <1>5, <2>1
    <3>2. last \in kids /\ \A m \in kids : m <= last
      <4> HIDE DEF kids
      <4> QED
        BY <3>1, Zenon
    <3> HIDE DEF last
    <3> QED
      BY <1>5, <2>1, <3>1, <3>2
  <2> HIDE DEF last
  <2>3. \A x : (\E n \in kids : at[n] = x) <=> x \in S
    BY <1>3, <1>5, Zenon
  <2> HIDE DEF kids
  <2>4. ASSUME NEW x \in Tasks, x \notin S
        PROVE  A[x] = IF x = new THEN [T[x] EXCEPT !.child = at[w - 1]] ELSE T[x]
    BY <1>4, <2>1, <2>2, <2>3, <2>4, Zenon
  <2>5. GreatestOf(at[w - 1], S, r, NULL)
    <3>1. at[w - 1] \in S
      BY <1>3, <2>1, Zenon
    <3>2. ASSUME NEW u \in S
          PROVE  r[u] <= r[at[w - 1]]
      <4>1. PICK m \in 0 .. w - 1 : at[m] = u
        BY <1>3, Zenon
      <4>2. CASE m = w - 1
        BY <1>1, <4>1, <4>2
      <4>3. CASE m # w - 1
        <5>1. m \in 0 .. (w - 1) - 1
          BY <2>1, <4>3
        <5> QED
          BY <1>1, <1>3, <2>1, <3>1, <4>1, <5>1, SMTT(30)
      <4> QED
        BY <4>2, <4>3, Zenon
    <3> QED
      BY <1>8, <3>1, <3>2, Zenon DEF GreatestOf
  <2>6. ASSUME NEW x \in S
        PROVE  AdoptedBy(T, S, r, new, x, A[x])
    <3> DEFINE n == CHOOSE k \in kids : at[k] = x
    <3>1. n \in 0 .. w - 1 /\ at[n] = x
      <4>1. \E k \in kids : at[k] = x
        BY <2>3, Zenon
      <4>2. n \in kids /\ at[n] = x
        BY <4>1, Zenon
      <4> HIDE DEF n
      <4> QED
        BY <1>5, <4>2, Zenon
    <3> DEFINE y == IF n = 0 THEN T[new].child ELSE at[n - 1]
    <3>2. A[x] = [T[x] EXCEPT !.parent = new, !.next_sibling = y]
      <4>1. x \in Tasks /\ x # new /\ \E k \in kids : at[k] = x
        BY <1>1, <2>3, Zenon
      <4> QED
        BY <1>4, <2>1, <4>1, Zenon
    <3> HIDE DEF n
    <3>3. CASE n = 0
      <4>1. Below(S, r, x) = {}
        <5> SUFFICES ASSUME NEW u \in S, r[u] < r[x] PROVE FALSE
          BY Zenon DEF Below
        <5>1. PICK m \in 0 .. w - 1 : at[m] = u
          BY <1>3, Zenon
        <5>2. m # 0
          BY <1>1, <3>1, <3>3, <5>1, SMTT(30)
        <5>3. 0 \in 0 .. m - 1
          BY <2>1, <5>2
        <5>4. r[x] < r[u]
          BY <1>3, <3>1, <3>3, <5>1, <5>3, Zenon
        <5> QED
          BY <1>1, <5>4
      <4> QED
        BY <3>2, <3>3, <4>1, Zenon DEF AdoptedBy, GreatestOf
    <3>4. CASE n # 0
      <4>1. n - 1 \in 0 .. n - 1 /\ n - 1 \in 0 .. w - 1
        BY <2>1, <3>1, <3>4
      <4>2. at[n - 1] \in Below(S, r, x)
        BY <1>3, <3>1, <4>1, Zenon DEF Below
      <4>3. ASSUME NEW u \in Below(S, r, x)
            PROVE  r[u] <= r[at[n - 1]]
        <5>1. u \in S /\ r[u] < r[x]
          BY Zenon DEF Below
        <5>2. PICK m \in 0 .. w - 1 : at[m] = u
          BY <1>3, <5>1, Zenon
        <5>3. m # n /\ ~(n < m)
          <6>1. n < m => n \in 0 .. m - 1
            BY <2>1, <3>1
          <6>2. n < m => r[x] < r[u]
            BY <1>3, <3>1, <5>2, <6>1, Zenon
          <6> QED
            BY <1>1, <3>1, <5>1, <5>2, <6>2, SMTT(30)
        <5>4. m = n - 1 \/ m \in 0 .. (n - 1) - 1
          BY <2>1, <3>1, <5>3
        <5> QED
          BY <1>1, <1>3, <4>1, <5>1, <5>2, <5>4, SMTT(30)
      <4>4. GreatestOf(at[n - 1], Below(S, r, x), r, T[new].child)
        BY <4>2, <4>3, Zenon DEF GreatestOf
      <4> QED
        BY <3>2, <3>4, <4>4, Zenon DEF AdoptedBy
    <3> QED
      BY <3>3, <3>4, Zenon
  <2>7. DOMAIN A = Tasks
    BY <1>4, Zenon
  <2> QED
    BY <2>4, <2>5, <2>6, <2>7, Zenon
<1> QED
  BY <1>7, <1>8, Zenon DEF A

\* The update of new that Adopt makes.
LEMMA ChildSet ==
    ASSUME NEW y \in TaskType, NEW c \in TaskOrNull, NEW z, z = [y EXCEPT !.child = c]
    PROVE  /\ z \in TaskType /\ SameBody(y, z) /\ z.next = y.next /\ z.child = c
           /\ z.parent = y.parent /\ z.next_sibling = y.next_sibling
BY Zenon DEF TaskType, SameBody

LEMMA BodySame ==
    ASSUME NEW y, NEW z, z = y
    PROVE  SameBody(y, z)
BY Zenon DEF SameBody

\* What Adopt does to the structures, as a whole.
Adopted(T, A, S, r, new) ==
    /\ A \in TaskMap
    /\ \A x \in Tasks : SameBody(T[x], A[x]) /\ A[x].next = T[x].next
    /\ \A x \in Tasks \ S : A[x].parent = T[x].parent /\ A[x].next_sibling = T[x].next_sibling
    /\ \A x \in Tasks \ {new} : A[x].child = T[x].child
    /\ A[new].child = T[new].child \/ S # {}
    /\ S # {} => GreatestOf(A[new].child, S, r, NULL)
    /\ \A x \in S : /\ A[x].parent = new
                    /\ GreatestOf(A[x].next_sibling, Below(S, r, x), r, T[new].child)

LEMMA AdoptChanges ==
    ASSUME NEW T \in TaskMap, NEW t \in Tasks, NEW new \in Tasks, NEW r \in [Tasks -> Nat],
           NEW S, Head(T, T[t].child, S, r), new \notin S
    PROVE  Adopted(T, Adopt(T, t, new), S, r, new)
<1> DEFINE A == Adopt(T, t, new)
<1> SUFFICES Adopted(T, A, S, r, new)
  BY Zenon
<1>1. S \subseteq Tasks /\ \A x \in Tasks : T[x] \in TaskType /\ T[x].child \in TaskOrNull
  BY Links, Zenon DEF Head, Ordered
<1>2. /\ S = {} => A = T
      /\ S # {} =>
            /\ DOMAIN A = Tasks
            /\ \A x \in Tasks \ S : x # new => A[x] = T[x]
            /\ \E y : GreatestOf(y, S, r, NULL) /\ A[new] = [T[new] EXCEPT !.child = y]
            /\ \A x \in S : AdoptedBy(T, S, r, new, x, A[x])
  BY AdoptIs, Zenon
<1> HIDE DEF A
<1>3. CASE S = {}
  <2>1. A = T
    BY <1>2, <1>3, Zenon
  <2>2. \A x \in Tasks : SameBody(T[x], A[x])
    BY <2>1, BodySame, Zenon
  <2> QED
    BY <1>3, <2>1, <2>2, Zenon DEF Adopted
<1>4. CASE S # {}
  <2>3. PICK c : GreatestOf(c, S, r, NULL) /\ A[new] = [T[new] EXCEPT !.child = c]
    BY <1>2, <1>4, Zenon
  <2>4. c \in TaskOrNull
    BY <1>1, <1>4, <2>3, Zenon DEF GreatestOf, TaskOrNull
  <2>5. /\ A[new] \in TaskType /\ SameBody(T[new], A[new]) /\ A[new].next = T[new].next
        /\ GreatestOf(A[new].child, S, r, NULL)
        /\ A[new].parent = T[new].parent /\ A[new].next_sibling = T[new].next_sibling
    BY <1>1, <2>3, <2>4, ChildSet
  <2>6. ASSUME NEW x \in S
        PROVE  /\ A[x] \in TaskType /\ SameBody(T[x], A[x]) /\ A[x].next = T[x].next
               /\ A[x].child = T[x].child /\ A[x].parent = new
               /\ GreatestOf(A[x].next_sibling, Below(S, r, x), r, T[new].child)
    <3>1. PICK n : /\ GreatestOf(n, Below(S, r, x), r, T[new].child)
                   /\ A[x] = [T[x] EXCEPT !.parent = new, !.next_sibling = n]
      BY <1>2, <1>4, Zenon DEF AdoptedBy
    <3>2. n \in TaskOrNull /\ new \in TaskOrNull /\ T[x] \in TaskType
      BY <1>1, <3>1, Zenon DEF GreatestOf, Below, TaskOrNull
    <3>3. /\ A[x] \in TaskType /\ SameBody(T[x], A[x]) /\ A[x].next = T[x].next
          /\ A[x].child = T[x].child /\ A[x].parent = new /\ A[x].next_sibling = n
      <4> DEFINE y == T[x]
                 z == A[x]
      <4>1. y \in TaskType /\ z = [y EXCEPT !.parent = new, !.next_sibling = n]
        BY <3>1, <3>2, Zenon
      <4> HIDE DEF y, z
      <4>2. /\ z \in TaskType /\ SameBody(y, z) /\ z.next = y.next /\ z.child = y.child
            /\ z.parent = new /\ z.next_sibling = n
        BY <3>2, <4>1 DEF TaskType, SameBody
      <4> QED
        BY <4>2, Zenon DEF y, z
    <3> QED
      BY <3>1, <3>3, Zenon
  <2>7. ASSUME NEW x \in Tasks \ S, x # new
        PROVE  A[x] = T[x] /\ A[x] \in TaskType /\ SameBody(T[x], A[x])
    BY <1>1, <1>2, <1>4, <2>7, BodySame, Zenon
  <2>8. A \in TaskMap
    <3>1. \A x \in Tasks : A[x] \in TaskType
      BY <2>5, <2>6, <2>7, Zenon
    <3>2. DOMAIN A = Tasks /\ A = [x \in Tasks |-> A[x]]
      <4>1. DOMAIN A = Tasks
        BY <1>2, <1>4, Zenon
      <4>2. A = [x \in Tasks |-> A[x]]
        BY DEF A, Adopt
      <4> QED
        BY <4>1, <4>2, Zenon
    <3> QED
      BY <3>1, <3>2, Zenon DEF TaskMap
  <2>9. \A x \in Tasks : SameBody(T[x], A[x]) /\ A[x].next = T[x].next
    BY <2>5, <2>6, <2>7, Zenon
  <2>10. \A x \in Tasks \ S : A[x].parent = T[x].parent /\ A[x].next_sibling = T[x].next_sibling
    BY <2>5, <2>7, Zenon
  <2>11. \A x \in Tasks \ {new} : A[x].child = T[x].child
    BY <2>6, <2>7, Zenon
  <2>12. \A x \in S : /\ A[x].parent = new
                     /\ GreatestOf(A[x].next_sibling, Below(S, r, x), r, T[new].child)
    BY <2>6, Zenon
  <2>13. GreatestOf(A[new].child, S, r, NULL)
    BY <2>5, Zenon
  <2> QED
    BY <1>4, <2>8, <2>9, <2>10, <2>11, <2>12, <2>13, SMTT(30) DEF Adopted
<1> QED
  BY <1>3, <1>4, Zenon

\* The children of c, a task that does not run any more, go to new.
LEMMA AdoptKeeps ==
    ASSUME NEW T \in TaskMap, NEW c \in InUse(T), c \notin Owners(T, NULL),
           NEW new \in Owners(T, NULL), new \notin Kids(T, c), Ring(T), Tree(T, c)
    PROVE  LET A == Adopt(T, c, new)
           IN  /\ A \in TaskMap /\ Ring(A) /\ Tree(A, NULL)
               /\ \A x \in Tasks : SameBody(T[x], A[x])
               /\ \A x \in Tasks \ Kids(T, c) : A[x].parent = T[x].parent
<1> DEFINE A == Adopt(T, c, new)
           S == Kids(T, c)
<1>1. PICK B \in Nat : \E r \in [Tasks -> 0 .. B] : TreeBy(T, c, r)
  BY Zenon DEF Tree
<1>2. PICK r \in [Tasks -> 0 .. B] : TreeBy(T, c, r)
  BY <1>1, Zenon
<1>3. /\ InUse(T) \subseteq Tasks /\ c \in Tasks /\ new \in Tasks /\ new # c
      /\ r \in [Tasks -> Nat] /\ S \subseteq InUse(T) /\ InitTask \notin S
      /\ \A x \in Tasks : r[x] \in Nat /\ r[x] <= B
  BY DEF InUse, Owners, Kids
<1>4. Head(T, T[c].child, S, r)
  BY <1>2, Zenon DEF TreeBy, Owners
<1>5. Adopted(T, A, S, r, new)
  <2> HIDE DEF S
  <2>1. new \notin S
    BY Zenon DEF S
  <2> QED
    BY <1>3, <1>4, <2>1, AdoptChanges, Zenon
<1> HIDE DEF A
<1>6. A \in TaskMap /\ \A x \in Tasks : SameBody(T[x], A[x]) /\ A[x].state = T[x].state
  BY <1>5 DEF Adopted, SameBody
<1>7. InUse(A) = InUse(T) /\ Owners(A, NULL) = Owners(T, NULL)
  BY <1>6, Zenon DEF InUse, Owners
<1>8. Ring(A)
  <2>1. PICK s \in [Tasks -> Nat] : RingBy(T, s)
    BY Zenon DEF Ring
  <2>2. \A x \in InUse(T) : A[x].next = T[x].next
    BY <1>3, <1>5, Zenon DEF Adopted
  <2>3. RingBy(A, s)
    BY <1>7, <2>1, <2>2, OrderedSame, Zenon DEF RingBy
  <2>4. Linkable(A, "next")
    BY <1>6, Links, Zenon
  <2> QED
    BY <1>7, <2>3, <2>4, Zenon DEF Ring
<1>9. Parents(A, NULL)
  <2>1. /\ \A x \in S : A[x].parent = new
        /\ \A x \in Tasks \ S : A[x].parent = T[x].parent
    BY <1>5, Zenon DEF Adopted
  <2>2. InitTask \in InUse(T) /\ T[InitTask].parent = InitTask /\ InitTask \in Owners(T, NULL)
    BY Zenon DEF Tree, Parents, Owners
  <2>3. \A x \in InUse(T) \ S : T[x].parent \in Owners(T, NULL)
    <3>1. \A x \in InUse(T) \ S : T[x].parent \in Owners(T, c)
      BY Zenon DEF Tree, Parents
    <3>2. \A x \in InUse(T) \ S : T[x].parent # c
      BY <2>2, Zenon DEF Kids
    <3> QED
      BY <3>1, <3>2, Zenon DEF Owners
  <2>4. \A x \in InUse(T) \ {InitTask} : T[x].parent # x
    BY Zenon DEF Tree, Parents
  <2>5. \A x \in S : new # x
    BY Zenon
  <2> HIDE DEF S
  <2> QED
    BY <1>3, <1>7, <2>1, <2>2, <2>3, <2>4, <2>5, SMTT(30) DEF Parents
<1> DEFINE s == [x \in Tasks |-> IF x \in S THEN B - r[x] ELSE r[x] + B + 1]
           N == Kids(T, new)
<1>10. /\ s \in [Tasks -> 0 .. 2 * B + 1] /\ s \in [Tasks -> Nat]
       /\ \A x \in S : s[x] = B - r[x] /\ s[x] <= B /\ s[x] \in Nat
       /\ \A x \in Tasks \ S : s[x] = r[x] + B + 1 /\ s[x] > B /\ s[x] \in Nat
  <2>1. \A x \in Tasks : B - r[x] \in 0 .. B /\ r[x] + B + 1 \in 0 .. 2 * B + 1
    BY <1>3
  <2> HIDE DEF S
  <2> QED
    BY <1>3, <2>1
<1>11. /\ Kids(A, new) = N \cup S
       /\ \A x : x # new /\ x # c => Kids(A, x) = Kids(T, x)
  <2>1. /\ \A x \in S : A[x].parent = new /\ T[x].parent = c
        /\ \A x \in Tasks \ S : A[x].parent = T[x].parent
        /\ \A x \in InUse(T) \ S : x # InitTask => T[x].parent # c
    BY <1>3, <1>5, Zenon DEF Adopted, Kids
  <2> HIDE DEF S
  <2>2. ASSUME NEW x
        PROVE  Kids(A, x) = {y \in InUse(T) \ {InitTask} : A[y].parent = x}
    BY <1>7, Zenon DEF Kids
  <2>3. ASSUME NEW x, x # c
        PROVE  Kids(T, x) = {y \in InUse(T) \ {InitTask} : y \notin S /\ A[y].parent = x}
    BY <1>3, <2>1, <2>3, SMTT(30) DEF Kids
  <2>4. Kids(A, new) = N \cup S
    BY <1>3, <2>1, <2>2, <2>3
  <2>5. ASSUME NEW x, x # new, x # c
        PROVE  Kids(A, x) = Kids(T, x)
    <3>1. Kids(A, x) = {y \in InUse(T) \ {InitTask} : A[y].parent = x}
      BY <2>2, Zenon
    <3>2. Kids(T, x) = {y \in InUse(T) \ {InitTask} : y \notin S /\ A[y].parent = x}
      BY <2>3, <2>5, Zenon
    <3> QED
      BY <2>1, <2>5, <3>1, <3>2, Zenon
  <2> QED
    BY <2>4, <2>5, Zenon
<1>12. \A x : x # c => Kids(T, x) \cap S = {} /\ Kids(T, x) \subseteq Tasks
  BY <1>3, Zenon DEF Kids
<1> HIDE DEF s
<1>13. ASSUME NEW x \in Owners(T, NULL)
       PROVE  /\ Ordered(A, "next_sibling", Kids(T, x), s, NULL)
              /\ LeastOf(T[x].child, Kids(T, x), s, NULL)
  <2> DEFINE X == Kids(T, x)
  <2>1. x # c /\ x \in Owners(T, c)
    <3>1. NULL \notin Tasks
      BY ProcessAssumption, Zenon
    <3> QED
      BY <1>3, <3>1, Zenon DEF Owners
  <2>2. Head(T, T[x].child, X, r)
    BY <1>2, <2>1, Zenon DEF TreeBy
  <2>3. X \in SUBSET Tasks /\ X \subseteq Tasks \ S
    BY <1>12, <2>1, Zenon
  <2> HIDE DEF X, S
  <2>4. \A t, u \in X : r[t] <= r[u] <=> s[t] <= s[u]
    BY <1>3, <1>10, <2>3
  <2>5. Ordered(T, "next_sibling", X, s, NULL) /\ LeastOf(T[x].child, X, s, NULL)
    BY <1>3, <1>10, <2>2, <2>3, <2>4, RanksSame, Zenon DEF Head
  <2>6. \A t \in X : A[t].next_sibling = T[t].next_sibling
    BY <1>5, <2>3, Zenon DEF Adopted
  <2>7. Ordered(A, "next_sibling", X, s, NULL)
    BY <2>5, <2>6, OrderedSame, Zenon
  <2> QED
    BY <2>5, <2>7, Zenon DEF X
<1>14. ASSUME NEW x \in Owners(T, NULL), x # new
       PROVE  Head(A, A[x].child, Kids(A, x), s)
  <2>1. x # c /\ x \in Tasks
    BY <1>3, Zenon DEF Owners
  <2>2. A[x].child = T[x].child /\ Kids(A, x) = Kids(T, x)
    BY <1>5, <1>11, <1>14, <2>1, Zenon DEF Adopted
  <2> QED
    BY <1>13, <2>2, Zenon DEF Head
<1>15. Head(A, A[new].child, N \cup S, s)
  <2>1. /\ Ordered(A, "next_sibling", N, s, NULL) /\ LeastOf(T[new].child, N, s, NULL)
        /\ N \cap S = {} /\ N \subseteq Tasks
    BY <1>3, <1>12, <1>13, Zenon
  <2>2. /\ \A x, y \in S : r[x] = r[y] => x = y
        /\ S \subseteq Tasks
    BY <1>3, <1>4, Zenon DEF Head, Ordered
  <2> HIDE DEF N, S
  <2>3. CASE S = {}
    <3>1. A[new].child = T[new].child
      BY <1>5, <2>3, Zenon DEF Adopted
    <3>2. N \cup S = N
      BY <2>3, Zenon
    <3> QED
      BY <2>1, <3>1, <3>2, Zenon DEF Head
  <2>4. CASE S # {}
    <3>1. \A x \in S, y \in N : s[x] < s[y] /\ s[x] \in Nat /\ s[y] \in Nat
      BY <1>10, <2>1
    <3>2. \A x, y \in N \cup S : s[x] = s[y] => x = y
      <4>1. \A x, y \in S : s[x] = s[y] => x = y
        BY <1>3, <1>10, <2>2
      <4>2. \A x, y \in N : s[x] = s[y] => x = y
        BY <2>1, Zenon DEF Ordered
      <4> QED
        BY <3>1, <4>1, <4>2, SMTT(30)
    <3>3. ASSUME NEW x \in N
          PROVE  LeastOf(A[x].next_sibling, Above(N \cup S, s, x), s, NULL)
      <4>1. Above(N \cup S, s, x) = Above(N, s, x)
        BY <3>1 DEF Above
      <4> QED
        BY <2>1, <4>1, Zenon DEF Ordered
    <3>4. ASSUME NEW x \in S
          PROVE  LeastOf(A[x].next_sibling, Above(N \cup S, s, x), s, NULL)
      <4> DEFINE y == A[x].next_sibling
                 L == Below(S, r, x)
      <4>1. GreatestOf(y, L, r, T[new].child)
        BY <1>5, Zenon DEF Adopted
      <4>2. \A u \in S : s[u] > s[x] <=> r[u] < r[x]
        BY <1>3, <1>10, <2>2
      <4>3. Above(N \cup S, s, x) = N \cup L
        BY <3>1, <4>2, Zenon DEF Above, Below
      <4>4. L \subseteq S
        BY Zenon DEF Below
      <4> HIDE DEF y, L
      <4>5. CASE L = {}
        BY <2>1, <4>1, <4>3, <4>5, Zenon DEF GreatestOf, y
      <4>6. CASE L # {}
        <5>1. y \in L /\ \A u \in L : r[u] <= r[y]
          BY <4>1, <4>6, Zenon DEF GreatestOf
        <5>2. \A u \in L : s[y] <= s[u]
          <6>1. \A u \in L : r[u] \in Nat /\ r[y] \in Nat /\ s[u] = B - r[u] /\ s[y] = B - r[y]
            BY <1>3, <1>10, <2>2, <4>4, <5>1, Zenon
          <6> QED
            BY <5>1, <6>1
        <5>3. \A u \in N : s[y] <= s[u]
          BY <3>1, <4>4, <5>1
        <5> QED
          BY <4>3, <5>1, <5>2, <5>3, Zenon DEF LeastOf, y
      <4> QED
        BY <4>5, <4>6, Zenon
    <3>5. LeastOf(A[new].child, N \cup S, s, NULL)
      <4> DEFINE y == A[new].child
      <4>1. y \in S /\ \A u \in S : r[u] <= r[y]
        BY <1>5, <2>4, Zenon DEF Adopted, GreatestOf
      <4> HIDE DEF y
      <4>2. \A u \in S : s[y] <= s[u]
        <5>1. \A u \in S : r[u] \in Nat /\ r[y] \in Nat /\ s[u] = B - r[u] /\ s[y] = B - r[y]
          BY <1>3, <1>10, <2>2, <4>1, Zenon
        <5> QED
          BY <4>1, <5>1
      <4>3. \A u \in N : s[y] <= s[u]
        BY <3>1, <4>1
      <4> QED
        BY <4>1, <4>2, <4>3, Zenon DEF LeastOf, y
    <3>6. Ordered(A, "next_sibling", N \cup S, s, NULL)
      BY <2>1, <2>2, <3>2, <3>3, <3>4, Zenon DEF Ordered
    <3> QED
      BY <3>5, <3>6, Zenon DEF Head
  <2> QED
    BY <2>3, <2>4, Zenon
<1>16. TreeBy(A, NULL, s)
  BY <1>7, <1>11, <1>14, <1>15, Zenon DEF TreeBy
<1>17. Tree(A, NULL)
  <2>1. 2 * B + 1 \in Nat /\ Linkable(A, "next_sibling")
    BY <1>6, Links
  <2> DEFINE M == 2 * B + 1
  <2>2. M \in Nat /\ s \in [Tasks -> 0 .. M]
    BY <1>10, <2>1, Zenon
  <2> HIDE DEF M
  <2> QED
    BY <1>9, <1>16, <2>1, <2>2, Zenon DEF Tree
<1>18. \A x \in Tasks \ S : A[x].parent = T[x].parent
  BY <1>5, Zenon DEF Adopted
<1> QED
  BY <1>6, <1>8, <1>17, <1>18, Zenon DEF A

\* What gc_tasks frees, and what it leaves.
Dead(T) == {t \in Tasks \ {InitTask} : T[t].state = "DELETED"}

Collected(T) == [t \in Tasks |-> IF t \in Dead(T) THEN Blank ELSE Unlinked(T, Dead(T), t)]

\* The record of a task that gc_tasks leaves.
LEMMA UnlinkedIs ==
    ASSUME NEW T \in TaskMap, NEW dead \in SUBSET Tasks, NEW t \in Tasks
    PROVE  LET z == Unlinked(T, dead, t)
           IN  /\ z \in TaskType /\ SameBody(T[t], z) /\ z.parent = T[t].parent
               /\ z.next = Survivor(T, dead, "next", T[t].next)
               /\ z.next_sibling = Survivor(T, dead, "next_sibling", T[t].next_sibling)
               /\ z.child = IF T[t].child \in dead /\ T[T[t].child].parent = t
                            THEN Survivor(T, dead, "next_sibling", T[t].child)
                            ELSE T[t].child
<1> DEFINE y == T[t]
           n == Survivor(T, dead, "next", y.next)
           s == Survivor(T, dead, "next_sibling", y.next_sibling)
           c == IF y.child \in dead /\ T[y.child].parent = t
                THEN Survivor(T, dead, "next_sibling", y.child) ELSE y.child
           z == Unlinked(T, dead, t)
<1>1. z = [y EXCEPT !.next = n, !.next_sibling = s, !.child = c]
  BY Zenon DEF Unlinked, TaskMap, TaskType
<1>2. y \in TaskType
  BY Zenon DEF TaskMap
<1>3. n \in TaskOrNull
  BY <1>2, Links, SurvivorTyped, Zenon DEF TaskType
<1>4. s \in TaskOrNull
  BY <1>2, Links, SurvivorTyped, Zenon DEF TaskType
<1>5. c \in TaskOrNull
  <2>1. y.child \in TaskOrNull
    BY <1>2, Zenon DEF TaskType
  <2>2. Survivor(T, dead, "next_sibling", y.child) \in TaskOrNull
    BY <2>1, Links, SurvivorTyped, Zenon
  <2> QED
    BY <2>1, <2>2, Zenon
<1> HIDE DEF n, s, c, z, y
<1>6. /\ z \in TaskType /\ SameBody(y, z) /\ z.parent = y.parent
      /\ z.next = n /\ z.next_sibling = s /\ z.child = c
  BY <1>1, <1>2, <1>3, <1>4, <1>5 DEF TaskType, SameBody
<1> QED
  BY <1>6, Zenon DEF n, s, c, z, y

LEMMA GcKeeps ==
    ASSUME NEW T \in TaskMap, Ring(T), Tree(T, NULL)
    PROVE  LET U == Collected(T)
           IN  /\ U \in TaskMap /\ Ring(U) /\ Tree(U, NULL)
               /\ InUse(U) = InUse(T) \ Dead(T)
               /\ \A t \in Tasks \ Dead(T) : SameBody(T[t], U[t]) /\ U[t].parent = T[t].parent
               /\ \A t \in Dead(T) : U[t] = Blank
               /\ \A x \in InUse(T) :
                     /\ Survivor(T, Dead(T), "next", x) \in InUse(U)
                     /\ x \notin Dead(T) => Survivor(T, Dead(T), "next", x) = x
<1> DEFINE U == Collected(T)
           dead == Dead(T)
<1>1. dead \in SUBSET Tasks /\ InitTask \notin dead
  BY Zenon DEF Dead
<1>2. /\ \A t \in dead : U[t] = Blank
      /\ \A t \in Tasks \ dead : U[t] = Unlinked(T, dead, t)
  BY <1>1, Zenon DEF Collected
<1>3. Blank \in TaskType /\ Blank.state = "FREE"
  BY DEF Blank, TaskType, States, TaskOrNull
<1>4. \A t \in dead : T[t].state = "DELETED" /\ t # InitTask
  BY Zenon DEF Dead
<1>5. U = [t \in Tasks |-> U[t]]
  BY ZenonT(30) DEF Collected
<1> HIDE DEF U, dead
<1>6. ASSUME NEW t \in Tasks \ dead
      PROVE  /\ U[t] \in TaskType /\ SameBody(T[t], U[t]) /\ U[t].parent = T[t].parent
             /\ U[t].next = Survivor(T, dead, "next", T[t].next)
             /\ U[t].next_sibling = Survivor(T, dead, "next_sibling", T[t].next_sibling)
             /\ U[t].child = IF T[t].child \in dead /\ T[T[t].child].parent = t
                             THEN Survivor(T, dead, "next_sibling", T[t].child)
                             ELSE T[t].child
  BY <1>1, <1>2, UnlinkedIs
<1>7. U \in TaskMap
  <2>1. \A t \in Tasks : U[t] \in TaskType
    BY <1>2, <1>3, <1>6, Zenon
  <2> QED
    BY <1>5, <2>1, Zenon DEF TaskMap
<1>8. \A t \in Tasks \ dead : U[t].state = T[t].state
  BY <1>6, Zenon DEF SameBody
<1>9. InUse(U) = InUse(T) \ dead
  BY <1>2, <1>3, <1>8, Zenon DEF InUse
<1>10. Owners(U, NULL) = Owners(T, NULL)
  <2>1. NULL \notin Tasks /\ InUse(T) \subseteq Tasks /\ InUse(U) \subseteq Tasks
    BY ProcessAssumption, Zenon DEF InUse
  <2> QED
    BY <1>4, <1>8, <1>9, <2>1, Zenon DEF Owners, Gone
<1>11. Linkable(U, "next") /\ Linkable(U, "next_sibling")
  BY <1>7, Links, Zenon
<1>12. InUse(U) \subseteq Tasks \ dead
  BY <1>9, Zenon DEF InUse
<1>13. /\ Ring(U)
       /\ \A x \in InUse(T) : /\ Survivor(T, dead, "next", x) \in InUse(U)
                              /\ x \notin dead => Survivor(T, dead, "next", x) = x
  <2>1. \A t \in InUse(U) : U[t].next = Survivor(T, dead, "next", T[t].next)
    BY <1>6, <1>12, Zenon
  <2> QED
    BY <1>1, <1>9, <1>11, <2>1, RingSurvives, SMTT(30)
<1>14. Tree(U, NULL)
  <2>1. \A t \in InUse(U) :
              /\ U[t].parent = T[t].parent
              /\ U[t].next_sibling = Survivor(T, dead, "next_sibling", T[t].next_sibling)
              /\ U[t].child = IF T[t].child \in dead /\ T[T[t].child].parent = t
                              THEN Survivor(T, dead, "next_sibling", T[t].child)
                              ELSE T[t].child
    BY <1>6, <1>12, Zenon
  <2> QED
    BY <1>1, <1>4, <1>9, <1>10, <1>11, <2>1, TreeSurvives, SMTT(30)
<1> QED
  BY <1>2, <1>6, <1>7, <1>9, <1>13, <1>14 DEF U, dead

----------------------------------------------------------------------------
(* Pids, and who waits for whom.                                           *)

Asks(T, t, b) ==
    /\ b \in Tasks /\ T[b].state \notin {"FREE", "DELETED"}
    /\ T[b].parent = t /\ T[b].pid = T[t].asked

\* The child that t waits for: u is in the first half of waitpid and asks for
\* k; for the others it is in their structure.
Awaited(T, u, k, t) == IF t = u THEN k ELSE T[t].blocked_process

Waits(T, u, k) ==
    \A t \in Waiting(T) :
        Awaited(T, u, k, t) # NULL => Asks(T, t, Awaited(T, u, k, t))

\* Whoever asked for one child waits for one, or has an answer.
Answers(T, u, k) ==
    \A t \in InUse(T) :
        T[t].asked > 0 =>
            IF t \in Waiting(T) THEN Awaited(T, u, k, t) # NULL
            ELSE T[t].rax \in {T[t].asked, 0, EINTR, ESRCH}

Pids(T, last) ==
    /\ \A t \in InUse(T) : T[t].pid \in 1 .. last
    /\ \A s, t \in InUse(T) :
          T[s].pid = T[t].pid /\ s # t => "DELETED" \in {T[s].state, T[t].state}

\* Where the current task is in the kernel, and its state there.
Runs(T, c, rr, at) ==
    /\ at \in {"user", "switch", "tail", "exit", "zombie", "waitpid"}
    /\ rr \in InUse(T) /\ c \in InUse(T) \cup {IdleTask}
    /\ at \notin {"user", "switch"} => c \in InUse(T)
    /\ at \in {"user", "tail", "exit"} /\ c \in Tasks => T[c].state \in {"READY", "RUNNING"}
    /\ at = "zombie" => T[c].state \in {"ZOMBIE", "DELETED"}
    /\ at = "waitpid" => T[c].state \in {"READY", "BLOCKED"}

\* What every step keeps of the structures: h hands its children over, u is
\* in the first half of waitpid and asks for k.
Kept(T, last, h, u, k) ==
    /\ T \in TaskMap /\ Ring(T) /\ Tree(T, h)
    /\ \A t \in Tasks : T[t].state # "STOPPED"
    /\ Pids(T, last) /\ Waits(T, u, k)

WaitsIn(y) == y.state = "BLOCKED" /\ y.block_reason = "WAITPID"

\* A task stays where it is: z may be y some steps later.
Follows(y, z) ==
    /\ z.pid = y.pid /\ z.next = y.next /\ z.next_sibling = y.next_sibling
    /\ z.parent = y.parent /\ z.child = y.child
    /\ z.state = "FREE" <=> y.state = "FREE"
    /\ z.state \in Gone <=> y.state \in Gone
    /\ y.state = "DELETED" => z.state = "DELETED"
    /\ z.state # "STOPPED"

\* Nor does it wait for something else, or return something else.
Quiet(y, z) ==
    /\ Follows(y, z)
    /\ z.state = "DELETED" => y.state = "DELETED"
    /\ WaitsIn(z) => WaitsIn(y) /\ z.blocked_process = y.blocked_process
    /\ WaitsIn(z) \/ z.asked # 0 =>
          /\ z.asked = y.asked /\ z.rax = y.rax
          /\ WaitsIn(y) => WaitsIn(z)

\* The structures do not change.
LEMMA FollowsKeeps ==
    ASSUME NEW T \in TaskMap, NEW U \in TaskMap, \A t \in Tasks : Follows(T[t], U[t]),
           NEW last, NEW h, NEW u, NEW k, Kept(T, last, h, u, k)
    PROVE  /\ InUse(U) = InUse(T) /\ Ring(U) /\ Tree(U, h) /\ Pids(U, last)
           /\ \A t \in Tasks : U[t].state # "STOPPED"
<1>1. SameLinks(T, U) /\ InUse(U) = InUse(T) /\ InUse(T) \subseteq Tasks
  BY Zenon DEF SameLinks, Follows, InUse
<1>2. Owners(U, h) = Owners(T, h) /\ Owners(U, NULL) = Owners(T, NULL)
  BY <1>1, Zenon DEF Owners, Follows
<1>3. InitTask \in Owners(U, NULL)
  BY <1>2, Zenon DEF Kept, Tree, Parents
<1>4. Ring(U) /\ Tree(U, h)
  BY <1>1, <1>2, <1>3, ShapeKeeps, Zenon DEF Kept
<1>5. Pids(U, last)
  <2>1. Pids(T, last)
    BY Zenon DEF Kept
  <2>2. \A t \in InUse(T) : /\ U[t].pid = T[t].pid
                            /\ T[t].state = "DELETED" => U[t].state = "DELETED"
    BY <1>1, Zenon DEF Follows
  <2> QED
    BY <1>1, <2>1, <2>2 DEF Pids
<1>6. \A t \in Tasks : U[t].state # "STOPPED"
  BY Zenon DEF Follows
<1> QED
  BY <1>1, <1>4, <1>5, <1>6, Zenon

\* What a task waits for is still there.
LEMMA WaitsKeep ==
    ASSUME NEW T, NEW U, NEW u, NEW k, NEW v, NEW j, Waits(T, u, k),
           \A t \in Waiting(U) :
              /\ t \in Waiting(T) /\ Awaited(U, v, j, t) = Awaited(T, u, k, t)
              /\ U[t].asked = T[t].asked,
           \A t \in Waiting(U), b \in Tasks :
              Asks(T, t, b) => /\ U[b].state \notin {"FREE", "DELETED"}
                               /\ U[b].parent = T[b].parent /\ U[b].pid = T[b].pid
    PROVE  Waits(U, v, j)
BY DEF Waits, Asks

LEMMA QuietKeeps ==
    ASSUME NEW T \in TaskMap, NEW U \in TaskMap, \A t \in Tasks : Quiet(T[t], U[t]),
           NEW last, NEW h, NEW u, NEW k, Kept(T, last, h, u, k)
    PROVE  /\ InUse(U) = InUse(T) /\ Kept(U, last, h, u, k)
           /\ Answers(T, u, k) => Answers(U, u, k)
<1>1. \A t \in Tasks : Follows(T[t], U[t])
  BY Zenon DEF Quiet
<1>2. /\ InUse(U) = InUse(T) /\ Ring(U) /\ Tree(U, h) /\ Pids(U, last)
      /\ \A t \in Tasks : U[t].state # "STOPPED"
  BY <1>1, FollowsKeeps, Zenon
<1>3. InUse(T) \subseteq Tasks
  BY Zenon DEF InUse
<1>4. /\ \A t \in InUse(T) : t \in Waiting(T) <=> WaitsIn(T[t])
      /\ \A t \in InUse(T) : t \in Waiting(U) <=> WaitsIn(U[t])
      /\ Waiting(U) \subseteq InUse(T)
  BY <1>2, Zenon DEF Waiting, WaitsIn
<1>5. Waits(U, u, k)
  <2>1. Waits(T, u, k)
    BY Zenon DEF Kept
  <2>2. ASSUME NEW t \in Waiting(U)
        PROVE  /\ t \in Waiting(T) /\ Awaited(U, u, k, t) = Awaited(T, u, k, t)
               /\ U[t].asked = T[t].asked
    BY <1>3, <1>4, Zenon DEF Quiet, Awaited
  <2>3. ASSUME NEW t \in Waiting(U), NEW b \in Tasks, Asks(T, t, b)
        PROVE  /\ U[b].state \notin {"FREE", "DELETED"}
               /\ U[b].parent = T[b].parent /\ U[b].pid = T[b].pid
    BY <2>3, Zenon DEF Asks, Quiet, Follows
  <2> QED
    BY <2>1, <2>2, <2>3, WaitsKeep
<1>6. ASSUME Answers(T, u, k) PROVE Answers(U, u, k)
  <2> SUFFICES ASSUME NEW t \in InUse(T), U[t].asked > 0
               PROVE  IF t \in Waiting(U) THEN Awaited(U, u, k, t) # NULL
                      ELSE U[t].rax \in {U[t].asked, 0, EINTR, ESRCH}
    BY <1>2, Zenon DEF Answers
  <2>1. U[t].asked # 0
    OBVIOUS
  <2>2. /\ U[t].asked = T[t].asked /\ U[t].rax = T[t].rax
        /\ WaitsIn(U[t]) <=> WaitsIn(T[t])
        /\ WaitsIn(U[t]) => U[t].blocked_process = T[t].blocked_process
    BY <1>3, <2>1, Zenon DEF Quiet
  <2>3. IF t \in Waiting(T) THEN Awaited(T, u, k, t) # NULL
        ELSE T[t].rax \in {T[t].asked, 0, EINTR, ESRCH}
    BY <1>6, <2>2, ZenonT(30) DEF Answers
  <2> QED
    BY <1>4, <2>2, <2>3, Zenon DEF Awaited
<1> QED
  BY <1>2, <1>5, <1>6, Zenon DEF Kept

\* gc_tasks.
LEMMA CollectedKeeps ==
    ASSUME NEW T, NEW last, Kept(T, last, NULL, NULL, NULL)
    PROVE  LET U == Collected(T)
           IN  /\ Kept(U, last, NULL, NULL, NULL)
               /\ Answers(T, NULL, NULL) => Answers(U, NULL, NULL)
               /\ \A x \in InUse(T) : Survivor(T, Dead(T), "next", x) \in InUse(U)
<1> DEFINE U == Collected(T)
<1>1. T \in TaskMap /\ Ring(T) /\ Tree(T, NULL) /\ Waits(T, NULL, NULL) /\ Pids(T, last)
  BY Zenon DEF Kept
<1>2. /\ U \in TaskMap /\ Ring(U) /\ Tree(U, NULL)
      /\ InUse(U) = InUse(T) \ Dead(T)
      /\ \A t \in Tasks \ Dead(T) : SameBody(T[t], U[t]) /\ U[t].parent = T[t].parent
      /\ \A t \in Dead(T) : U[t] = Blank
      /\ \A x \in InUse(T) : Survivor(T, Dead(T), "next", x) \in InUse(U)
  BY <1>1, GcKeeps, Zenon
<1> HIDE DEF U
<1>3. InUse(T) \subseteq Tasks /\ \A t \in Dead(T) : T[t].state = "DELETED"
  BY Zenon DEF InUse, Dead
<1>4. \A t \in Tasks : U[t].state # "STOPPED"
  <2>1. Blank.state = "FREE"
    BY Zenon DEF Blank
  <2>2. \A t \in Tasks \ Dead(T) : U[t].state = T[t].state
    BY <1>2, Zenon DEF SameBody
  <2> QED
    BY <1>2, <2>1, <2>2, Zenon DEF Kept
<1>5. \A t \in InUse(U) : SameBody(T[t], U[t]) /\ t \in InUse(T)
  BY <1>2, <1>3, ZenonT(30)
<1>6. Pids(U, last)
  BY <1>1, <1>5 DEF Pids, SameBody
<1>7. \A t \in InUse(U) : t \in Waiting(U) <=> t \in Waiting(T)
  BY <1>5, Zenon DEF Waiting, SameBody
<1>8. Waits(U, NULL, NULL)
  <2>1. ASSUME NEW t \in Waiting(U)
        PROVE  /\ t \in Waiting(T) /\ Awaited(U, NULL, NULL, t) = Awaited(T, NULL, NULL, t)
               /\ U[t].asked = T[t].asked
    <3>1. t \in InUse(U)
      BY Zenon DEF Waiting
    <3>2. SameBody(T[t], U[t]) /\ t \in Waiting(T)
      BY <1>5, <1>7, <3>1, Zenon
    <3> QED
      BY <3>2, Zenon DEF SameBody, Awaited
  <2>2. ASSUME NEW t \in Waiting(U), NEW b \in Tasks, Asks(T, t, b)
        PROVE  /\ U[b].state \notin {"FREE", "DELETED"}
               /\ U[b].parent = T[b].parent /\ U[b].pid = T[b].pid
    <3>1. b \notin Dead(T) /\ T[b].state \notin {"FREE", "DELETED"}
      BY <1>3, <2>2, Zenon DEF Asks
    <3> QED
      BY <1>2, <3>1, Zenon DEF SameBody
  <2> QED
    BY <1>1, <2>1, <2>2, WaitsKeep
<1>9. ASSUME Answers(T, NULL, NULL) PROVE Answers(U, NULL, NULL)
  BY <1>5, <1>7, <1>9 DEF Answers, SameBody, Awaited
<1> QED
  BY <1>1, <1>2, <1>4, <1>6, <1>8, <1>9, SMTT(30) DEF U, Kept

----------------------------------------------------------------------------
(* The invariant.                                                          *)

Between == IF At("waitpid") THEN current_task ELSE NULL

Wanted == IF At("waitpid") THEN pc.child ELSE NULL

Handing == IF At("zombie") THEN current_task ELSE NULL

ProcInv ==
    /\ world \in Worlds /\ last_pid \in Nat
    /\ Kept(task, last_pid, Handing, Between, Wanted)
    /\ ~world.irq => Answers(task, Between, Wanted)
    /\ Runs(task, current_task, rr_task, pc.at)
    /\ At("waitpid") =>
          /\ pc.child \in TaskOrNull /\ pc.ws \in BOOLEAN
          /\ pc.flags \in SUBSET {"WNOHANG", "WUNTRACED", "WCONTINUED"}

\* Outside of waitpid and of the second half of exit.
Settles(p) == p \in {"user", "switch", "tail", "exit"}

LEMMA SettledInv ==
    ASSUME world \in Worlds, UNCHANGED world, last_pid' \in Nat, Settles(pc'.at),
           Kept(task', last_pid', NULL, NULL, NULL),
           ~world.irq => Answers(task', NULL, NULL),
           Runs(task', current_task', rr_task', pc'.at)
    PROVE  ProcInv'
<1>1. Handing' = NULL /\ Between' = NULL /\ Wanted' = NULL /\ ~At("waitpid")'
  BY Zenon DEF Handing, Between, Wanted, At, Settles
<1> QED
  BY <1>1, Zenon DEF ProcInv

LEMMA SettledFacts ==
    ASSUME ProcInv, Settles(pc.at)
    PROVE  /\ Kept(task, last_pid, NULL, NULL, NULL)
           /\ ~world.irq => Answers(task, NULL, NULL)
           /\ Runs(task, current_task, rr_task, pc.at)
           /\ world \in Worlds /\ last_pid \in Nat
BY Zenon DEF ProcInv, Handing, Between, Wanted, At, Settles

\* run_next: the current task becomes ready, then gc_tasks.
LEMMA PreemptedQuiet ==
    ASSUME NEW T \in TaskMap, \A t \in Tasks : T[t].state # "STOPPED"
    PROVE  LET U == [t \in Tasks |-> Preempted(T, t)]
           IN  U \in TaskMap /\ \A t \in Tasks : Quiet(T[t], U[t])
<1> DEFINE U == [t \in Tasks |-> Preempted(T, t)]
<1>1. ASSUME NEW t \in Tasks
      PROVE  U[t] \in TaskType /\ Quiet(T[t], U[t])
  <2> DEFINE y == T[t]
             z == U[t]
  <2>1. y \in TaskType /\ y.state # "STOPPED"
    BY Zenon DEF TaskMap
  <2>2. z = y \/ (y.state = "RUNNING" /\ z = [y EXCEPT !.state = "READY"])
    BY Zenon DEF Preempted
  <2> HIDE DEF y, z
  <2>3. z \in TaskType /\ Quiet(y, z)
    BY <2>1, <2>2 DEF TaskType, States, Quiet, Follows, WaitsIn, Gone
  <2> QED
    BY <2>3, Zenon DEF y, z
<1>2. U \in TaskMap
  BY <1>1, Zenon DEF TaskMap
<1> QED
  BY <1>1, <1>2, Zenon

LEMMA GcStep ==
    ASSUME NEW T, Kept(T, last_pid, NULL, NULL, NULL), ~world.irq => Answers(T, NULL, NULL),
           rr_task \in InUse(T), current_task \in InUse(T) \cup {IdleTask},
           world \in Worlds, UNCHANGED <<world, last_pid>>, last_pid \in Nat,
           pc'.at = "switch", Gc(T)
    PROVE  ProcInv'
<1>1. /\ current_task' = Survivor(T, Dead(T), "next", current_task)
      /\ rr_task' = Survivor(T, Dead(T), "next", rr_task)
      /\ task' = Collected(T)
  BY Zenon DEF Gc, Dead, Collected
<1>2. /\ Kept(task', last_pid', NULL, NULL, NULL)
      /\ Answers(T, NULL, NULL) => Answers(task', NULL, NULL)
      /\ \A x \in InUse(T) : Survivor(T, Dead(T), "next", x) \in InUse(task')
  BY <1>1, CollectedKeeps, Zenon
<1>3. current_task' \in InUse(task') \cup {IdleTask} /\ rr_task' \in InUse(task')
  <2>1. Survivor(T, Dead(T), "next", IdleTask) = IdleTask
    BY ProcessAssumption, Zenon DEF Survivor, Dead
  <2> QED
    BY <1>1, <1>2, <2>1, Zenon
<1>4. Runs(task', current_task', rr_task', pc'.at) /\ Settles(pc'.at)
  BY <1>3, Zenon DEF Runs, Settles
<1> QED
  BY <1>2, <1>4, SettledInv, Zenon

LEMMA PreemptStep ==
    ASSUME NEW T, Kept(T, last_pid, NULL, NULL, NULL), ~world.irq => Answers(T, NULL, NULL),
           rr_task \in InUse(T), current_task \in InUse(T) \cup {IdleTask},
           world \in Worlds, UNCHANGED <<world, last_pid>>, last_pid \in Nat,
           pc'.at = "switch", Gc([t \in Tasks |-> Preempted(T, t)])
    PROVE  ProcInv'
<1> DEFINE U == [t \in Tasks |-> Preempted(T, t)]
<1>1. T \in TaskMap /\ \A t \in Tasks : T[t].state # "STOPPED"
  BY Zenon DEF Kept
<1>2. U \in TaskMap /\ \A t \in Tasks : Quiet(T[t], U[t])
  BY <1>1, PreemptedQuiet, Zenon
<1>3. Gc(U)
  BY Zenon
<1> HIDE DEF U
<1>4. /\ InUse(U) = InUse(T) /\ Kept(U, last_pid, NULL, NULL, NULL)
      /\ Answers(T, NULL, NULL) => Answers(U, NULL, NULL)
  BY <1>1, <1>2, QuietKeeps, Zenon
<1> QED
  BY <1>3, <1>4, GcStep, Zenon

LEMMA RunNextStep ==
    ASSUME NEW T, Kept(T, last_pid, NULL, NULL, NULL), ~world.irq => Answers(T, NULL, NULL),
           rr_task \in InUse(T), current_task \in InUse(T) \cup {IdleTask},
           world \in Worlds, UNCHANGED world, last_pid \in Nat, run_next(T)
    PROVE  ProcInv'
BY PreemptStep, Zenon DEF run_next, Goto

----------------------------------------------------------------------------
(* check_blocked_tasks.                                                    *)

LEMMA TargetTyped ==
    ASSUME NEW T \in TaskMap, NEW t \in Tasks
    PROVE  Target(T, t) \in TaskOrNull
<1>1. Linkable(T, "next_sibling") /\ T[t].child \in TaskOrNull
  BY Links, Zenon
<1>2. T[t].blocked_process \in TaskOrNull
  BY Zenon DEF TaskMap, TaskType
<1>3. get_first_waitpid_target(T, t, T[t].waitpid_flags) \in TaskOrNull
  <2> DEFINE good == {c \in Tasks : Reportable(T, c, T[t].waitpid_flags)}
             x == T[t].child
  <2>1. good \in SUBSET Tasks
    BY Zenon
  <2> HIDE DEF good
  <2>2. First(T, "next_sibling", x, good) \in good \cup {NULL}
    BY <1>1, <2>1, FirstIs, Zenon
  <2> QED
    BY <2>1, <2>2, Zenon DEF get_first_waitpid_target, good, TaskOrNull
<1> QED
  BY <1>2, <1>3, Zenon DEF Target, TaskOrNull

\* What a tick makes of a task y: e is what it is told, as it waits.
Ticked(y, z, told, e, pid) ==
    /\ z \in TaskType /\ Follows(y, z)
    /\ z.killed = y.killed /\ z.asked = y.asked
    /\ z.state = "DELETED" => y.state = "DELETED" \/ (y.state = "ZOMBIE" /\ told)
    /\ y.state # "BLOCKED" => z.state \in {y.state, "DELETED"}
    /\ y.state = "BLOCKED" => z.state \in {"BLOCKED", "READY"}
    /\ WaitsIn(z) => WaitsIn(y) /\ z.blocked_process = y.blocked_process /\ e = NULL
    /\ ~WaitsIn(y) => z.rax = y.rax
    /\ WaitsIn(y) /\ ~WaitsIn(z) => z.rax = EINTR \/ (e # NULL /\ z.rax = pid)

LEMMA CheckedIs ==
    ASSUME NEW T \in TaskMap, NEW t \in Tasks, T[t].state # "STOPPED"
    PROVE  Ticked(T[t], Checked(T)[t], \E w \in Waiting(T) : Target(T, w) = t,
                  Target(T, t), T[Target(T, t)].pid)
<1> DEFINE y == T[t]
           tellers == {w \in Waiting(T) : Target(T, w) = t}
           told == IF tellers = {} THEN T[t]
                   ELSE IF T[t].state # "ZOMBIE"
                   THEN [T[t] EXCEPT !.waitpid_event = 0]
                   ELSE IF \E w \in tellers : T[w].blocked_process = t \/ T[w].wstatus
                   THEN [T[t] EXCEPT !.state = "DELETED"]
                   ELSE T[t]
           e == Target(T, t)
           p == T[e].pid
           left == IF T[t].killed THEN 0 ELSE T[t].blocked_ticks - 1
           z == CASE t \in Waiting(T) /\ e # NULL ->
                       [Woken(told) EXCEPT !.rax = T[e].pid, !.blocked_process = NULL]
                  [] t \in Waiting(T) /\ e = NULL /\ T[t].killed ->
                       [Woken(told) EXCEPT !.rax = EINTR, !.blocked_process = NULL]
                  [] T[t].state = "BLOCKED" /\ T[t].block_reason = "DELAY" ->
                       IF left = 0 THEN [Woken(told) EXCEPT !.blocked_ticks = 0]
                       ELSE [told EXCEPT !.blocked_ticks = left]
                  [] OTHER -> told
           any == \E w \in Waiting(T) : Target(T, w) = t
<1>1. y \in TaskType /\ y.state # "STOPPED"
  BY Zenon DEF TaskMap
<1>2. e # NULL => p \in Int
  <2>1. e # NULL => e \in Tasks
    BY TargetTyped, Zenon DEF TaskOrNull
  <2> QED
    BY <2>1 DEF TaskMap, TaskType
<1>3. t \in Waiting(T) <=> WaitsIn(y)
  BY Zenon DEF Waiting, InUse, WaitsIn
<1>4. Checked(T)[t] = z
  BY Zenon DEF Checked
<1>5. \/ told = y
      \/ told = [y EXCEPT !.waitpid_event = 0]
      \/ y.state = "ZOMBIE" /\ any /\ told = [y EXCEPT !.state = "DELETED"]
  BY Zenon
<1>6. \/ WaitsIn(y) /\ e # NULL /\ z = [Woken(told) EXCEPT !.rax = p, !.blocked_process = NULL]
      \/ WaitsIn(y) /\ z = [Woken(told) EXCEPT !.rax = EINTR, !.blocked_process = NULL]
      \/ y.state = "BLOCKED" /\ y.block_reason = "DELAY" /\ z = [Woken(told) EXCEPT !.blocked_ticks = 0]
      \/ y.state = "BLOCKED" /\ y.block_reason = "DELAY" /\ z = [told EXCEPT !.blocked_ticks = left]
      \/ z = told /\ (WaitsIn(y) => e = NULL) /\ ~(y.state = "BLOCKED" /\ y.block_reason = "DELAY")
  <2> HIDE DEF told, e, left
  <2>1. WaitsIn(y) => y.block_reason # "DELAY"
    BY Zenon DEF WaitsIn
  <2> QED
    BY <1>3, <2>1, Zenon
<1>7. left \in Int
  <2>1. y.blocked_ticks \in Int
    BY <1>1, Zenon DEF TaskType
  <2> QED
    BY <2>1
<1>8. NULL \in TaskOrNull /\ EINTR \in Int
  BY DEF TaskOrNull, EINTR
<1> HIDE DEF told, e, p, left, z, y, any
<1>9. /\ told \in TaskType
      /\ told.pid = y.pid /\ told.next = y.next /\ told.next_sibling = y.next_sibling
      /\ told.parent = y.parent /\ told.child = y.child /\ told.killed = y.killed
      /\ told.asked = y.asked /\ told.rax = y.rax /\ told.block_reason = y.block_reason
      /\ told.blocked_process = y.blocked_process
      /\ told.state = y.state \/ (y.state = "ZOMBIE" /\ any /\ told.state = "DELETED")
  BY <1>1, <1>5 DEF TaskType, States
<1>10. z \in TaskType
  <2> DEFINE w == Woken(told)
  <2>1. w \in TaskType
    BY <1>9, Zenon DEF TaskType, States, Woken
  <2> HIDE DEF w
  <2>2. ASSUME NEW x \in Int PROVE [w EXCEPT !.rax = x, !.blocked_process = NULL] \in TaskType
    BY <1>8, <2>1, Zenon DEF TaskType
  <2>3. ASSUME NEW x \in Int, NEW v \in TaskType PROVE [v EXCEPT !.blocked_ticks = x] \in TaskType
    BY Zenon DEF TaskType
  <2>4. [w EXCEPT !.blocked_ticks = 0] \in TaskType /\ [told EXCEPT !.blocked_ticks = left] \in TaskType
    BY <1>7, <1>9, <2>1, <2>3, SMTT(30)
  <2>5. /\ e # NULL => [w EXCEPT !.rax = p, !.blocked_process = NULL] \in TaskType
        /\ [w EXCEPT !.rax = EINTR, !.blocked_process = NULL] \in TaskType
    BY <1>2, <1>8, <2>2, Zenon
  <2>6. w = Woken(told)
    BY Zenon DEF w
  <2> QED
    BY <1>6, <1>9, <2>4, <2>5, <2>6, Zenon
<1>11. Ticked(y, z, any, e, p)
  <2>1. CASE WaitsIn(y) /\ e # NULL /\ z = [Woken(told) EXCEPT !.rax = p, !.blocked_process = NULL]
    BY <1>1, <1>9, <1>10, <2>1, SMTT(30) DEF TaskType, Ticked, Follows, WaitsIn, Woken, Gone
  <2>2. CASE WaitsIn(y) /\ z = [Woken(told) EXCEPT !.rax = EINTR, !.blocked_process = NULL]
    BY <1>1, <1>9, <1>10, <2>2, SMTT(30) DEF TaskType, Ticked, Follows, WaitsIn, Woken, Gone
  <2>3. CASE y.state = "BLOCKED" /\ y.block_reason = "DELAY" /\ z = [Woken(told) EXCEPT !.blocked_ticks = 0]
    BY <1>1, <1>9, <1>10, <2>3, SMTT(30) DEF TaskType, Ticked, Follows, WaitsIn, Woken, Gone
  <2>4. CASE y.state = "BLOCKED" /\ y.block_reason = "DELAY" /\ z = [told EXCEPT !.blocked_ticks = left]
    BY <1>1, <1>9, <1>10, <2>4, SMTT(30) DEF TaskType, Ticked, Follows, WaitsIn, Gone
  <2>5. CASE z = told /\ (WaitsIn(y) => e = NULL) /\ ~(y.state = "BLOCKED" /\ y.block_reason = "DELAY")
    BY <1>1, <1>9, <1>10, <2>5, SMTT(30) DEF Ticked, Follows, WaitsIn, Gone
  <2> QED
    BY <1>6, <2>1, <2>2, <2>3, <2>4, <2>5, ZenonT(30)
<1> QED
  BY <1>4, <1>11, Zenon DEF y, any, e, p

\* A search through the children of p finds a child of p.
LEMMA FirstKid ==
    ASSUME NEW T \in TaskMap, NEW h, Tree(T, h), NEW p \in Owners(T, h), NEW good \in SUBSET Tasks
    PROVE  First(T, "next_sibling", T[p].child, good) \in (Kids(T, p) \cap good) \cup {NULL}
<1>1. PICK B \in Nat : \E r \in [Tasks -> 0 .. B] : TreeBy(T, h, r)
  BY Zenon DEF Tree
<1>2. PICK r \in [Tasks -> 0 .. B] : TreeBy(T, h, r)
  BY <1>1, Zenon
<1>3. r \in [Tasks -> Nat]
  BY <1>1, <1>2
<1> DEFINE S == Kids(T, p)
           x == T[p].child
<1>4. Head(T, x, S, r)
  BY <1>2, Zenon DEF TreeBy
<1>5. Linkable(T, "next_sibling")
  BY Links, Zenon
<1> HIDE DEF S, x
<1>6. LeastOf(First(T, "next_sibling", x, good), S \cap good, r, NULL)
  BY <1>3, <1>4, <1>5, FirstInList, Zenon
<1> QED
  BY <1>6, Zenon DEF LeastOf, S, x

LEMMA TargetKid ==
    ASSUME NEW T \in TaskMap, NEW h, Tree(T, h), NEW t \in Waiting(T), T[t].blocked_process = NULL
    PROVE  Target(T, t) # NULL => Target(T, t) \in Kids(T, t)
<1>1. t \in Owners(T, h)
  BY Zenon DEF Waiting, Owners, Gone
<1> DEFINE good == {c \in Tasks : Reportable(T, c, T[t].waitpid_flags)}
<1>2. good \in SUBSET Tasks /\ Target(T, t) = First(T, "next_sibling", T[t].child, good)
  BY ZenonT(30) DEF Target, get_first_waitpid_target
<1> HIDE DEF good
<1> QED
  BY <1>1, <1>2, FirstKid, Zenon

LEMMA CheckedKeeps ==
    ASSUME NEW T, NEW last, NEW h, NEW u, NEW k, Kept(T, last, h, u, k)
    PROVE  LET U == Checked(T)
           IN  /\ InUse(U) = InUse(T) /\ Kept(U, last, h, u, k)
               /\ u = NULL /\ Answers(T, u, k) => Answers(U, u, k)
               /\ \A t \in Tasks : /\ T[t].state # "BLOCKED" => U[t].state \in {T[t].state, "DELETED"}
                                   /\ T[t].state = "BLOCKED" => U[t].state \in {"BLOCKED", "READY"}
                                   /\ U[t].state = "DELETED" => T[t].state \in {"ZOMBIE", "DELETED"}
<1> DEFINE U == Checked(T)
           tick(t) == Ticked(T[t], U[t], \E w \in Waiting(T) : Target(T, w) = t,
                             Target(T, t), T[Target(T, t)].pid)
<1>1. /\ T \in TaskMap /\ Tree(T, h) /\ Waits(T, u, k)
      /\ \A t \in Tasks : T[t].state # "STOPPED"
      /\ InUse(T) \subseteq Tasks
  BY Zenon DEF Kept, InUse
<1>2. \A t \in Tasks : tick(t)
  BY <1>1, CheckedIs, Zenon
<1>3. DOMAIN U = Tasks /\ U = [t \in Tasks |-> U[t]]
  BY DEF Checked
<1> HIDE DEF U
<1>4. U \in TaskMap
  BY <1>2, <1>3, Zenon DEF TaskMap, Ticked
<1>5. \A t \in Tasks : Follows(T[t], U[t])
  BY <1>2, Zenon DEF Ticked
<1>6. /\ InUse(U) = InUse(T) /\ Ring(U) /\ Tree(U, h) /\ Pids(U, last)
      /\ \A t \in Tasks : U[t].state # "STOPPED"
  BY <1>1, <1>4, <1>5, FollowsKeeps, Zenon
<1>7. /\ \A t \in Tasks : t \in Waiting(T) <=> WaitsIn(T[t])
      /\ \A t \in Tasks : t \in Waiting(U) <=> WaitsIn(U[t])
      /\ Waiting(U) \subseteq Tasks
  BY <1>1, Zenon DEF Waiting, WaitsIn, InUse
<1>8. ASSUME NEW t \in Waiting(U)
      PROVE  /\ t \in Waiting(T) /\ U[t].blocked_process = T[t].blocked_process
             /\ U[t].asked = T[t].asked /\ Target(T, t) = NULL /\ t \in Tasks
  <2>1. tick(t) /\ t \in Tasks
    BY <1>2, <1>7, Zenon
  <2> QED
    BY <1>7, <2>1, Zenon DEF Ticked
<1>9. ASSUME NEW w \in Waiting(T), NEW b \in Tasks, Target(T, w) = b,
             NEW t \in Waiting(U), Asks(T, t, b), T[b].state = "ZOMBIE"
      PROVE  w = u \/ w = t
  <2>1. SUFFICES ASSUME w # u PROVE w = t
    BY Zenon
  <2>2. CASE T[w].blocked_process = NULL
    <3>1. b \in Kids(T, w)
      BY <1>1, <1>9, <2>2, TargetKid, ProcessAssumption, SMTT(30)
    <3> QED
      BY <1>9, <3>1, ZenonT(30) DEF Asks, Kids
  <2>3. CASE T[w].blocked_process # NULL
    <3>1. Awaited(T, u, k, w) = T[w].blocked_process
      BY <2>1, Zenon DEF Awaited
    <3>2. Asks(T, w, T[w].blocked_process)
      BY <1>1, <2>3, <3>1, Zenon DEF Waits
    <3>3. T[w].blocked_process = b
      BY <1>9, <2>3, ProcessAssumption, Zenon DEF Target
    <3> QED
      BY <1>9, <3>2, <3>3, Zenon DEF Asks
  <2> QED
    BY <2>2, <2>3, Zenon
<1>10. Waits(U, u, k)
  <2>1. ASSUME NEW t \in Waiting(U)
        PROVE  /\ t \in Waiting(T) /\ Awaited(U, u, k, t) = Awaited(T, u, k, t)
               /\ U[t].asked = T[t].asked
    BY <1>8, Zenon DEF Awaited
  <2>2. ASSUME NEW t \in Waiting(U), Awaited(U, u, k, t) # NULL
        PROVE  Asks(U, t, Awaited(U, u, k, t))
    <3> DEFINE b == Awaited(T, u, k, t)
    <3>1. b = Awaited(U, u, k, t) /\ U[t].asked = T[t].asked /\ t \in Tasks
      BY <1>8, <2>1, Zenon
    <3>2. Asks(T, t, b)
      BY <1>1, <2>1, <2>2, Zenon DEF Waits
    <3> HIDE DEF b
    <3>3. /\ b \in Tasks /\ Follows(T[b], U[b]) /\ tick(b)
          /\ T[b].state \notin {"FREE", "DELETED"}
      BY <1>2, <1>5, <3>2, Zenon DEF Asks
    <3>4. U[b].state # "DELETED"
      <4> SUFFICES ASSUME U[b].state = "DELETED" PROVE FALSE
        BY Zenon
      <4>1. T[b].state = "ZOMBIE" /\ \E w \in Waiting(T) : Target(T, w) = b
        BY <3>3, Zenon DEF Ticked
      <4>2. PICK w \in Waiting(T) : Target(T, w) = b
        BY <4>1, Zenon
      <4>3. w = u \/ w = t
        BY <1>9, <3>2, <3>3, <4>1, <4>2, SMTT(30)
      <4>4. b # NULL
        BY <3>3, ProcessAssumption, Zenon
      <4>5. w # t
        BY <1>8, <4>2, <4>4, SMTT(30)
      <4>6. t # u
        BY <4>3, <4>5, Zenon
      <4>7. b = T[t].blocked_process
        BY <4>6, Zenon DEF Awaited, b
      <4>8. Target(T, t) = b
        BY <4>1, <4>4, <4>7, Zenon DEF Target, Reportable
      <4> QED
        BY <1>8, <4>4, <4>8, Zenon
    <3>5. U[b].state \notin {"FREE", "DELETED"} /\ U[b].parent = T[b].parent /\ U[b].pid = T[b].pid
      BY <3>3, <3>4, Zenon DEF Follows
    <3> QED
      BY <3>1, <3>2, <3>5, Zenon DEF Asks
  <2> QED
    BY <2>2, Zenon DEF Waits
<1>11. ASSUME u = NULL, Answers(T, u, k) PROVE Answers(U, u, k)
  <2> SUFFICES ASSUME NEW t \in InUse(T), U[t].asked > 0
               PROVE  IF t \in Waiting(U) THEN Awaited(U, u, k, t) # NULL
                      ELSE U[t].rax \in {U[t].asked, 0, EINTR, ESRCH}
    BY <1>6, Zenon DEF Answers
  <2>1. t \in Tasks /\ tick(t) /\ t # u /\ U[t].asked = T[t].asked
    BY <1>1, <1>2, <1>11, ProcessAssumption, Zenon DEF Ticked
  <2>2. IF t \in Waiting(T) THEN T[t].blocked_process # NULL
        ELSE T[t].rax \in {T[t].asked, 0, EINTR, ESRCH}
    BY <1>11, <2>1, Zenon DEF Answers, Awaited
  <2>3. CASE t \in Waiting(U)
    BY <1>8, <2>1, <2>2, <2>3, ZenonT(30) DEF Awaited
  <2>4. CASE t \notin Waiting(T)
    <3>1. t \notin Waiting(U)
      BY <1>8, <2>4, ZenonT(30)
    <3> QED
      BY <1>7, <2>1, <2>2, <2>4, <3>1, SMTT(30) DEF Ticked
  <2>5. CASE t \in Waiting(T) /\ t \notin Waiting(U)
    <3>1. U[t].rax = EINTR \/ (Target(T, t) # NULL /\ U[t].rax = T[Target(T, t)].pid)
      BY <1>7, <2>1, <2>5, SMTT(30) DEF Ticked
    <3>2. T[t].blocked_process # NULL /\ Asks(T, t, T[t].blocked_process)
      BY <1>1, <2>1, <2>2, <2>5, SMTT(30) DEF Waits, Awaited
    <3>3. Target(T, t) # NULL => Target(T, t) = T[t].blocked_process
      BY <3>2, Zenon DEF Target
    <3>4. T[T[t].blocked_process].pid = T[t].asked
      BY <3>2, Zenon DEF Asks
    <3> QED
      BY <2>1, <2>5, <3>1, <3>3, <3>4, SMTT(30)
  <2> QED
    BY <2>3, <2>4, <2>5, Zenon
<1>12. \A t \in Tasks : /\ T[t].state # "BLOCKED" => U[t].state \in {T[t].state, "DELETED"}
                        /\ T[t].state = "BLOCKED" => U[t].state \in {"BLOCKED", "READY"}
                        /\ U[t].state = "DELETED" => T[t].state \in {"ZOMBIE", "DELETED"}
  BY <1>2, Zenon DEF Ticked
<1> QED
  BY <1>4, <1>6, <1>10, <1>11, <1>12, SMTT(30) DEF U, Kept

----------------------------------------------------------------------------
(* Steps that leave every task where it is.                                *)

LEMMA QuietStep ==
    ASSUME ProcInv, Settles(pc.at), Settles(pc'.at), task' \in TaskMap,
           \A t \in Tasks : Quiet(task[t], task'[t]), UNCHANGED <<world, last_pid>>,
           InUse(task') = InUse(task) => Runs(task', current_task', rr_task', pc'.at)
    PROVE  ProcInv'
<1>1. /\ Kept(task, last_pid, NULL, NULL, NULL)
      /\ ~world.irq => Answers(task, NULL, NULL)
      /\ world \in Worlds /\ last_pid \in Nat
  BY SettledFacts, Zenon
<1>2. task \in TaskMap
  BY <1>1, Zenon DEF Kept
<1>3. /\ InUse(task') = InUse(task) /\ Kept(task', last_pid, NULL, NULL, NULL)
      /\ Answers(task, NULL, NULL) => Answers(task', NULL, NULL)
  BY <1>1, <1>2, QuietKeeps, Zenon
<1> QED
  BY <1>1, <1>3, SettledInv, Zenon

LEMMA QuietSame ==
    ASSUME NEW y, y.state # "STOPPED"
    PROVE  Quiet(y, y)
BY Zenon DEF Quiet, Follows

\* One record changes, quietly.
LEMMA QuietUpdate ==
    ASSUME NEW T \in TaskMap, \A t \in Tasks : T[t].state # "STOPPED", NEW c \in Tasks,
           NEW z \in TaskType, Quiet(T[c], z), NEW U, U = [T EXCEPT ![c] = z]
    PROVE  U \in TaskMap /\ \A t \in Tasks : Quiet(T[t], U[t])
<1>1. U \in TaskMap
  BY Zenon DEF TaskMap
<1>2. \A t \in Tasks : U[t] = IF t = c THEN z ELSE T[t]
  BY Zenon DEF TaskMap
<1> QED
  BY <1>1, <1>2, QuietSame, Zenon

LEMMA SwitchStep ==
    ASSUME ProcInv, UNCHANGED world, switch_task
    PROVE  ProcInv'
<1> DEFINE good == {y \in Tasks : task[y].state = "READY"}
           x == task[rr_task].next
           n == First(task, "next", x, good)
<1>1. At("switch") /\ UNCHANGED last_pid /\ Settles(pc.at)
  BY Zenon DEF switch_task, At, Settles
<1>2. Kept(task, last_pid, NULL, NULL, NULL) /\ Runs(task, current_task, rr_task, pc.at)
  BY <1>1, SettledFacts, Zenon
<1>3. /\ task \in TaskMap /\ \A t \in Tasks : task[t].state # "STOPPED"
      /\ rr_task \in InUse(task) /\ InUse(task) \subseteq Tasks
  BY <1>2, Zenon DEF Kept, Runs, InUse
<1>4. n \in good \cup {NULL}
  <2>1. Linkable(task, "next") /\ x \in TaskOrNull /\ good \in SUBSET Tasks
    BY <1>3, Links, Zenon DEF Linkable
  <2> HIDE DEF good, x
  <2> QED
    BY <2>1, FirstIs, Zenon
<1>5. \/ /\ n = NULL /\ current_task' = IdleTask /\ pc' = User /\ UNCHANGED <<task, rr_task>>
      \/ /\ n # NULL /\ current_task' = n /\ rr_task' = n
         /\ task' = [task EXCEPT ![n].state = "RUNNING", ![n].killed = FALSE]
         /\ pc' = IF task[n].killed THEN Goto("exit") ELSE User
  BY Zenon DEF switch_task, SearchFrom
<1> HIDE DEF n
<1>6. CASE n = NULL /\ current_task' = IdleTask /\ pc' = User /\ UNCHANGED <<task, rr_task>>
  <2>1. \A t \in Tasks : Quiet(task[t], task'[t])
    BY <1>3, <1>6, QuietSame, Zenon
  <2>2. pc'.at = "user"
    BY <1>6, Zenon DEF User
  <2>3. Runs(task', current_task', rr_task', pc'.at) /\ Settles(pc'.at)
    BY <1>3, <1>6, <2>2, ProcessAssumption, SMTT(30) DEF Runs, Settles
  <2> QED
    BY <1>1, <1>3, <1>6, <2>1, <2>3, QuietStep, SMTT(30)
<1>7. CASE /\ n # NULL /\ current_task' = n /\ rr_task' = n
           /\ task' = [task EXCEPT ![n].state = "RUNNING", ![n].killed = FALSE]
           /\ pc' = IF task[n].killed THEN Goto("exit") ELSE User
  <2> DEFINE y == task[n]
             z == [y EXCEPT !.state = "RUNNING", !.killed = FALSE]
  <2>1. n \in Tasks /\ y.state = "READY" /\ y \in TaskType
    BY <1>3, <1>4, <1>7, Zenon DEF TaskMap
  <2>2. task' = [task EXCEPT ![n] = z]
    BY <1>3, <1>7, <2>1, Zenon DEF TaskMap
  <2>3. z \in TaskType /\ Quiet(y, z) /\ z.state = "RUNNING"
    <3> HIDE DEF y
    <3> QED
      BY <2>1 DEF TaskType, States, Quiet, Follows, WaitsIn, Gone
  <2>4. task'[n] = z
    BY <1>3, <2>1, <2>2, Zenon DEF TaskMap
  <2> HIDE DEF z
  <2>5. task' \in TaskMap /\ \A t \in Tasks : Quiet(task[t], task'[t])
    BY <1>3, <2>1, <2>2, <2>3, QuietUpdate
  <2>6. pc'.at \in {"exit", "user"}
    BY <1>7, Zenon DEF User, Goto
  <2>7. n \in InUse(task') /\ task'[n].state = "RUNNING"
    BY <2>1, <2>3, <2>4, Zenon DEF InUse
  <2>8. Runs(task', current_task', rr_task', pc'.at) /\ Settles(pc'.at)
    BY <1>7, <2>6, <2>7, ZenonT(30) DEF Runs, Settles
  <2> QED
    BY <1>1, <2>5, <2>8, QuietStep, Zenon
<1> QED
  BY <1>5, <1>6, <1>7, Zenon

\* The current task in a call, or at the end of one.
LEMMA CurrentFacts ==
    ASSUME ProcInv, At("tail") \/ At("exit") \/ (At("user") /\ current_task \in Tasks)
    PROVE  /\ Kept(task, last_pid, NULL, NULL, NULL)
           /\ ~world.irq => Answers(task, NULL, NULL)
           /\ world \in Worlds /\ last_pid \in Nat
           /\ task \in TaskMap /\ \A t \in Tasks : task[t].state # "STOPPED"
           /\ rr_task \in InUse(task) /\ current_task \in InUse(task)
           /\ InUse(task) \subseteq Tasks /\ task[current_task] \in TaskType
           /\ task[current_task].state \in {"READY", "RUNNING"}
           /\ Settles(pc.at)
<1>1. Settles(pc.at)
  BY Zenon DEF At, Settles
<1>2. /\ Kept(task, last_pid, NULL, NULL, NULL)
      /\ ~world.irq => Answers(task, NULL, NULL)
      /\ Runs(task, current_task, rr_task, pc.at)
      /\ world \in Worlds /\ last_pid \in Nat
  BY <1>1, SettledFacts, Zenon
<1>3. task \in TaskMap /\ \A t \in Tasks : task[t].state # "STOPPED"
  BY <1>2, Zenon DEF Kept
<1>4. InUse(task) \subseteq Tasks
  BY Zenon DEF InUse
<1>5. current_task \in InUse(task) /\ rr_task \in InUse(task)
  BY <1>2, ProcessAssumption, Zenon DEF Runs, At
<1>6. task[current_task] \in TaskType
  BY <1>3, <1>4, <1>5, Zenon DEF TaskMap
<1>7. task[current_task].state \in {"READY", "RUNNING"}
  BY <1>2, <1>4, <1>5, Zenon DEF Runs, At
<1> QED
  BY <1>1, <1>2, <1>3, <1>4, <1>5, <1>6, <1>7, SMTT(30)

\* The current task gets the record z.
LEMMA CurrentStep ==
    ASSUME ProcInv, At("tail") \/ At("exit") \/ (At("user") /\ current_task \in Tasks),
           NEW z \in TaskType, Quiet(task[current_task], z), z.state \in {"READY", "RUNNING"},
           task' = [task EXCEPT ![current_task] = z],
           UNCHANGED <<world, last_pid, current_task, rr_task>>,
           pc'.at \in {"user", "tail", "exit"}
    PROVE  ProcInv'
<1>1. /\ task \in TaskMap /\ \A t \in Tasks : task[t].state # "STOPPED"
      /\ rr_task \in InUse(task) /\ current_task \in InUse(task)
      /\ InUse(task) \subseteq Tasks /\ Settles(pc.at)
  BY CurrentFacts, Zenon
<1>2. task' \in TaskMap /\ \A t \in Tasks : Quiet(task[t], task'[t])
  BY <1>1, QuietUpdate, Zenon
<1>3. task'[current_task] = z
  BY <1>1, Zenon DEF TaskMap
<1>4. InUse(task') = InUse(task) => Runs(task', current_task', rr_task', pc'.at)
  BY <1>1, <1>3, Zenon DEF Runs
<1>5. Settles(pc'.at)
  BY Zenon DEF Settles
<1> QED
  BY <1>1, <1>2, <1>4, <1>5, QuietStep, SMTT(30)

LEMMA CurrentStays ==
    ASSUME ProcInv, At("tail") \/ At("exit") \/ (At("user") /\ current_task \in Tasks),
           UNCHANGED <<world, task, last_pid, current_task, rr_task>>,
           pc'.at \in {"user", "tail", "exit"}
    PROVE  ProcInv'
<1>1. /\ task \in TaskMap /\ \A t \in Tasks : task[t].state # "STOPPED"
      /\ current_task \in InUse(task) /\ InUse(task) \subseteq Tasks
      /\ task[current_task] \in TaskType /\ task[current_task].state \in {"READY", "RUNNING"}
  BY CurrentFacts, Zenon
<1>2. Quiet(task[current_task], task[current_task])
  BY <1>1, QuietSame, Zenon
<1>3. task' = [task EXCEPT ![current_task] = task[current_task]]
  BY <1>1, Zenon DEF TaskMap
<1> QED
  BY <1>1, <1>2, <1>3, CurrentStep

LEMMA SyscallEndStep ==
    ASSUME ProcInv, UNCHANGED world, syscall_end
    PROVE  ProcInv'
<1> DEFINE c == current_task
           y == task[c]
           z == [y EXCEPT !.killed = FALSE]
<1>1. At("tail")
  BY Zenon DEF syscall_end
<1>2. /\ Kept(task, last_pid, NULL, NULL, NULL)
      /\ ~world.irq => Answers(task, NULL, NULL)
      /\ world \in Worlds /\ last_pid \in Nat
      /\ task \in TaskMap /\ rr_task \in InUse(task) /\ c \in InUse(task)
      /\ InUse(task) \subseteq Tasks /\ y \in TaskType /\ y.state \in {"READY", "RUNNING"}
  BY <1>1, CurrentFacts, Zenon
<1>3. CASE run_next(task)
  BY <1>2, <1>3, RunNextStep, Zenon
<1>4. CASE /\ task' = [task EXCEPT ![c].killed = FALSE]
           /\ pc' = Goto("exit")
           /\ UNCHANGED <<current_task, rr_task, last_pid>>
  <2>1. task' = [task EXCEPT ![c] = z]
    BY <1>2, <1>4, Zenon DEF TaskMap
  <2>2. z \in TaskType /\ Quiet(y, z) /\ z.state \in {"READY", "RUNNING"}
    <3> HIDE DEF y
    <3> QED
      BY <1>2, Zenon DEF TaskType, Quiet, Follows, WaitsIn, Gone
  <2>3. pc'.at = "exit"
    BY <1>4, Zenon DEF Goto
  <2> HIDE DEF z
  <2> QED
    BY <1>1, <1>4, <2>1, <2>2, <2>3, CurrentStep
<1>5. CASE /\ pc' = User
           /\ UNCHANGED <<task, current_task, rr_task, last_pid>>
  BY <1>1, <1>5, CurrentStays, ZenonT(30) DEF User
<1> QED
  BY <1>3, <1>4, <1>5, SMTT(30) DEF syscall_end

LEMMA ExitStep ==
    ASSUME ProcInv, UNCHANGED world, exit \/ other_call
    PROVE  ProcInv'
BY CurrentStays, SMTT(30) DEF exit, other_call, InUser, Goto

LEMMA SpawnFailsStep ==
    ASSUME ProcInv, UNCHANGED world, spawn_fails
    PROVE  ProcInv'
<1>1. At("user") /\ current_task \in Tasks /\ UNCHANGED <<task, current_task, rr_task>>
  BY Zenon DEF spawn_fails, InUser
<1>2. pc'.at = "tail" /\ last_pid' = last_pid + 1
  BY Zenon DEF spawn_fails, Goto, NewPid
<1>3. /\ Kept(task, last_pid, NULL, NULL, NULL)
      /\ ~world.irq => Answers(task, NULL, NULL)
      /\ world \in Worlds /\ last_pid \in Nat
      /\ rr_task \in InUse(task) /\ current_task \in InUse(task)
      /\ InUse(task) \subseteq Tasks
      /\ task[current_task].state \in {"READY", "RUNNING"}
  BY <1>1, CurrentFacts, Zenon
<1>4. Pids(task, last_pid')
  <2>1. Pids(task, last_pid)
    BY <1>3, Zenon DEF Kept
  <2>2. \A n \in 1 .. last_pid : n \in 1 .. last_pid'
    BY <1>2, <1>3, SMTT(30)
  <2> QED
    BY <2>1, <2>2, Zenon DEF Pids
<1>5. Kept(task', last_pid', NULL, NULL, NULL)
  BY <1>1, <1>3, <1>4, Zenon DEF Kept
<1>6. Runs(task', current_task', rr_task', pc'.at) /\ Settles(pc'.at)
  BY <1>1, <1>2, <1>3, ZenonT(30) DEF Runs, Settles
<1>7. last_pid' \in Nat
  BY <1>2, <1>3, SMTT(30)
<1>8. ~world.irq => Answers(task', NULL, NULL)
  BY <1>1, <1>3, Zenon
<1> QED
  BY <1>3, <1>5, <1>6, <1>7, <1>8, SettledInv, SMTT(30)

LEMMA YieldStep ==
    ASSUME ProcInv, UNCHANGED world, yield
    PROVE  ProcInv'
<1>1. At("user") /\ current_task \in Tasks /\ run_next(task)
  BY Zenon DEF yield, InUser
<1> QED
  BY <1>1, CurrentFacts, RunNextStep, Zenon

LEMMA SleepStep ==
    ASSUME ProcInv, UNCHANGED world, NEW ms \in Int, sleep(ms)
    PROVE  ProcInv'
<1> DEFINE c == current_task
           y == task[c]
           z == [y EXCEPT !.state = "BLOCKED", !.block_reason = "DELAY", !.blocked_ticks = ms]
           T == [task EXCEPT ![c].state = "BLOCKED", ![c].block_reason = "DELAY",
                             ![c].blocked_ticks = ms]
<1>1. At("user") /\ c \in Tasks /\ y.asked = 0 /\ run_next(T)
  BY Zenon DEF sleep, InUser
<1>2. /\ Kept(task, last_pid, NULL, NULL, NULL)
      /\ ~world.irq => Answers(task, NULL, NULL)
      /\ world \in Worlds /\ last_pid \in Nat
      /\ task \in TaskMap /\ rr_task \in InUse(task) /\ c \in InUse(task)
      /\ y \in TaskType /\ y.state \in {"READY", "RUNNING"}
      /\ \A t \in Tasks : task[t].state # "STOPPED"
  BY <1>1, CurrentFacts, Zenon
<1>3. T = [task EXCEPT ![c] = z]
  BY <1>1, <1>2, Zenon DEF TaskMap
<1>4. z \in TaskType /\ Quiet(y, z)
  <2> HIDE DEF y
  <2> QED
    BY <1>1, <1>2, ZenonT(30) DEF TaskType, States, Quiet, Follows, WaitsIn, Gone
<1> HIDE DEF z, T
<1>5. T \in TaskMap /\ \A t \in Tasks : Quiet(task[t], T[t])
  BY <1>1, <1>2, <1>3, <1>4, QuietUpdate, Zenon
<1>6. /\ InUse(T) = InUse(task) /\ Kept(T, last_pid, NULL, NULL, NULL)
      /\ Answers(task, NULL, NULL) => Answers(T, NULL, NULL)
  BY <1>2, <1>5, QuietKeeps, Zenon
<1> QED
  BY <1>1, <1>2, <1>6, RunNextStep, Zenon

LEMMA TakeResultStep ==
    ASSUME ProcInv, UNCHANGED world, take_result
    PROVE  ProcInv'
<1> DEFINE c == current_task
           y == task[c]
           z == [y EXCEPT !.asked = 0, !.rax = 0]
<1>1. /\ At("user") /\ c \in Tasks /\ UNCHANGED <<current_task, rr_task, last_pid, pc>>
      /\ task' = [task EXCEPT ![c].asked = 0, ![c].rax = 0]
  BY Zenon DEF take_result
<1>2. task \in TaskMap /\ y \in TaskType /\ y.state \in {"READY", "RUNNING"}
  BY <1>1, CurrentFacts, Zenon
<1>3. task' = [task EXCEPT ![c] = z]
  BY <1>1, <1>2, Zenon DEF TaskMap
<1>4. z \in TaskType /\ Quiet(y, z) /\ z.state \in {"READY", "RUNNING"}
  <2> HIDE DEF y
  <2>1. 0 \in Int
    OBVIOUS
  <2>2. ASSUME NEW o \in Int, NEW w, w = [y EXCEPT !.asked = o, !.rax = o]
        PROVE  /\ w \in TaskType /\ w.pid = y.pid /\ w.next = y.next /\ w.next_sibling = y.next_sibling
               /\ w.parent = y.parent /\ w.child = y.child /\ w.state = y.state
               /\ w.asked = o
    BY <1>2, <2>2, Zenon DEF TaskType
  <2>3. /\ z \in TaskType /\ z.pid = y.pid /\ z.next = y.next /\ z.next_sibling = y.next_sibling
        /\ z.parent = y.parent /\ z.child = y.child /\ z.state = y.state
        /\ z.asked = 0
    BY <2>1, <2>2, Zenon
  <2> HIDE DEF z
  <2> QED
    BY <1>2, <2>3, Zenon DEF Quiet, Follows, WaitsIn
<1> HIDE DEF z
<1> QED
  BY <1>1, <1>3, <1>4, CurrentStep, Zenon DEF At

\* signal_task with anything but a stop signal.
LEMMA SignalledQuiet ==
    ASSUME task \in TaskMap, \A t \in Tasks : task[t].state # "STOPPED",
           NEW S, NEW sig, sig # "STOP"
    PROVE  LET U == Signalled(S, sig)
           IN  /\ U \in TaskMap
               /\ \A t \in Tasks : Quiet(task[t], U[t]) /\ U[t].state = task[t].state
<1> DEFINE U == Signalled(S, sig)
<1>1. ASSUME NEW t \in Tasks
      PROVE  U[t] \in TaskType /\ Quiet(task[t], U[t]) /\ U[t].state = task[t].state
  <2> DEFINE y == task[t]
             z == U[t]
             k == y.killed \/ sig = "TERM"
             s == y.state
             e == y.waitpid_event
  <2>1. y \in TaskType /\ y.state # "STOPPED"
    BY Zenon DEF TaskMap
  <2>2. z = y \/ z = [y EXCEPT !.killed = k, !.state = s, !.waitpid_event = e]
    BY <2>1, Zenon DEF Signalled, StateAfter
  <2>3. k \in BOOLEAN
    BY Zenon
  <2>4. s = y.state /\ e = y.waitpid_event
    BY Zenon
  <2> SUFFICES z \in TaskType /\ Quiet(y, z) /\ z.state = y.state
    BY Zenon
  <2> HIDE DEF y, z, k, s, e
  <2>5. CASE z = y
    BY <2>1, <2>5, QuietSame, Zenon
  <2>6. CASE z = [y EXCEPT !.killed = k, !.state = s, !.waitpid_event = e]
    <3> DEFINE v == [y EXCEPT !.killed = k]
               w == [v EXCEPT !.state = s]
    <3>3. v \in TaskType
      BY <2>1, <2>3, Zenon DEF TaskType
    <3>4. s \in States /\ e \in {0, 1, 2}
      BY <2>1, <2>4, Zenon DEF TaskType
    <3>5. z = [w EXCEPT !.waitpid_event = e]
      BY <2>6, Zenon
    <3> HIDE DEF v
    <3>6. w \in TaskType
      BY <3>3, <3>4, Zenon DEF TaskType
    <3> HIDE DEF w
    <3>1. z \in TaskType
      BY <3>4, <3>5, <3>6, Zenon DEF TaskType
    <3>2. /\ z.pid = y.pid /\ z.next = y.next /\ z.next_sibling = y.next_sibling
          /\ z.parent = y.parent /\ z.child = y.child /\ z.state = y.state
          /\ z.asked = y.asked /\ z.rax = y.rax /\ z.block_reason = y.block_reason
          /\ z.blocked_process = y.blocked_process
      BY <2>1, <2>4, <2>6, Zenon DEF TaskType
    <3> QED
      BY <2>1, <3>1, <3>2, Zenon DEF Quiet, Follows, WaitsIn
  <2> QED
    BY <2>2, <2>5, <2>6, Zenon
<1>2. U \in TaskMap
  BY <1>1, Zenon DEF TaskMap, Signalled
<1> QED
  BY <1>1, <1>2, Zenon

LEMMA KillStep ==
    ASSUME ProcInv, UNCHANGED world, NEW sig, sig # "STOP", kill(sig)
    PROVE  ProcInv'
<1>1. /\ At("user") /\ current_task \in Tasks /\ pc'.at = "tail"
      /\ UNCHANGED <<current_task, rr_task, last_pid>>
      /\ \E S \in Targets(sig) : task' = Signalled(S, sig)
  BY Zenon DEF kill, InUser, Goto
<1>2. /\ task \in TaskMap /\ \A t \in Tasks : task[t].state # "STOPPED"
      /\ rr_task \in InUse(task) /\ current_task \in InUse(task)
      /\ InUse(task) \subseteq Tasks /\ Settles(pc.at)
      /\ task[current_task].state \in {"READY", "RUNNING"}
  BY <1>1, CurrentFacts, Zenon
<1>3. /\ task' \in TaskMap
      /\ \A t \in Tasks : Quiet(task[t], task'[t]) /\ task'[t].state = task[t].state
  BY <1>1, <1>2, SignalledQuiet
<1>4. InUse(task') = InUse(task) => Runs(task', current_task', rr_task', pc'.at)
  BY <1>1, <1>2, <1>3, Zenon DEF Runs
<1>5. Settles(pc'.at)
  BY <1>1, Zenon DEF Settles
<1> QED
  BY <1>1, <1>2, <1>3, <1>4, <1>5, QuietStep, SMTT(30)

----------------------------------------------------------------------------
(* Interrupts.                                                             *)

LEMMA InterruptStep ==
    ASSUME ProcInv, UNCHANGED world, NEW T, InUse(T) = InUse(task),
           Kept(T, last_pid, Handing, Between, Wanted),
           ~world.irq => Answers(T, Between, Wanted),
           \A t \in Tasks : /\ task[t].state # "BLOCKED" => T[t].state \in {task[t].state, "DELETED"}
                            /\ task[t].state = "BLOCKED" => T[t].state \in {"BLOCKED", "READY"}
                            /\ T[t].state = "DELETED" => task[t].state \in {"ZOMBIE", "DELETED"},
           interrupt_end(T)
    PROVE  ProcInv'
<1> DEFINE c == current_task
           y == T[c]
           z == [y EXCEPT !.killed = FALSE]
<1>1. UNCHANGED <<current_task, rr_task, last_pid>>
  BY Zenon DEF interrupt_end
<1>2. /\ world \in Worlds /\ last_pid \in Nat /\ Runs(task, c, rr_task, pc.at)
      /\ InUse(task) \subseteq Tasks /\ T \in TaskMap
      /\ \A t \in Tasks : T[t].state # "STOPPED"
  BY Zenon DEF ProcInv, InUse, Kept
<1>3. Runs(T, c, rr_task, pc.at)
  <2>1. c \in Tasks => /\ task[c].state \in {"READY", "RUNNING"} => T[c].state \in {"READY", "RUNNING"}
                       /\ task[c].state \in {"ZOMBIE", "DELETED"} => T[c].state \in {"ZOMBIE", "DELETED"}
                       /\ task[c].state \in {"READY", "BLOCKED"} => T[c].state \in {"READY", "BLOCKED"}
    BY ZenonT(30)
  <2> QED
    BY <1>2, <2>1, Zenon DEF Runs
<1>4. CASE At("user") /\ c \in Tasks /\ T[c].killed
  <2>1. pc' = [at |-> "exit", sti |-> FALSE] /\ task' = [T EXCEPT ![c].killed = FALSE]
    BY <1>4, Zenon DEF interrupt_end
  <2>2. /\ Kept(T, last_pid, NULL, NULL, NULL)
        /\ ~world.irq => Answers(T, NULL, NULL)
    BY <1>4, Zenon DEF Handing, Between, Wanted, At
  <2>3. y \in TaskType /\ y.state \in {"READY", "RUNNING"}
    BY <1>2, <1>3, <1>4, Zenon DEF TaskMap, Runs, At
  <2>4. task' = [T EXCEPT ![c] = z]
    BY <1>2, <1>4, <2>1, Zenon DEF TaskMap
  <2>5. z \in TaskType /\ Quiet(y, z) /\ z.state \in {"READY", "RUNNING"}
    <3> HIDE DEF y
    <3> QED
      BY <2>3, Zenon DEF TaskType, Quiet, Follows, WaitsIn, Gone
  <2>6. task'[c] = z
    BY <1>2, <1>4, <2>4, Zenon DEF TaskMap
  <2> HIDE DEF z
  <2>7. task' \in TaskMap /\ \A t \in Tasks : Quiet(T[t], task'[t])
    <3>1. \A t \in Tasks : task'[t] = IF t = c THEN z ELSE T[t]
      BY <1>2, <2>4, Zenon DEF TaskMap
    <3>2. task' \in TaskMap
      BY <1>2, <2>4, <2>5, Zenon DEF TaskMap
    <3> QED
      BY <1>2, <2>5, <3>1, <3>2, QuietSame, ZenonT(30)
  <2>8. /\ InUse(task') = InUse(T) /\ Kept(task', last_pid, NULL, NULL, NULL)
        /\ Answers(T, NULL, NULL) => Answers(task', NULL, NULL)
    BY <1>2, <2>2, <2>7, QuietKeeps, ZenonT(30)
  <2>9. Runs(task', current_task', rr_task', pc'.at) /\ Settles(pc'.at)
    <3>1. pc'.at = "exit"
      BY <2>1, Zenon
    <3>2. c \in InUse(task') /\ rr_task \in InUse(task')
      BY <1>2, <1>4, <2>8, ProcessAssumption, ZenonT(30) DEF Runs
    <3> QED
      BY <1>1, <2>5, <2>6, <3>1, <3>2, SMTT(30) DEF Runs, Settles
  <2> QED
    BY <1>1, <1>2, <2>2, <2>8, <2>9, SettledInv, SMTT(30)
<1>5. CASE ~(At("user") /\ c \in Tasks /\ T[c].killed)
  <2>1. UNCHANGED pc /\ task' = T
    BY <1>5, Zenon DEF interrupt_end
  <2>2. Handing' = Handing /\ Between' = Between /\ Wanted' = Wanted /\ At("waitpid")' = At("waitpid")
    BY <1>1, <2>1, ZenonT(30) DEF Handing, Between, Wanted, At
  <2> QED
    BY <1>1, <1>2, <1>3, <2>1, <2>2, SMTT(30) DEF ProcInv
<1> QED
  BY <1>4, <1>5, Zenon

LEMMA IrqKillStep ==
    ASSUME ProcInv, UNCHANGED world, NEW sig, sig # "STOP", irq_kill(sig)
    PROVE  ProcInv'
<1>1. PICK S \in Targets(sig) : interrupt_end(Signalled(S, sig))
  BY Zenon DEF irq_kill
<1> DEFINE T == Signalled(S, sig)
<1>2. /\ Kept(task, last_pid, Handing, Between, Wanted)
      /\ ~world.irq => Answers(task, Between, Wanted)
      /\ task \in TaskMap /\ \A t \in Tasks : task[t].state # "STOPPED"
  BY Zenon DEF ProcInv, Kept
<1>3. T \in TaskMap /\ \A t \in Tasks : Quiet(task[t], T[t]) /\ T[t].state = task[t].state
  BY <1>2, SignalledQuiet, Zenon
<1>4. interrupt_end(T)
  BY <1>1, Zenon
<1> HIDE DEF T
<1>5. /\ InUse(T) = InUse(task) /\ Kept(T, last_pid, Handing, Between, Wanted)
      /\ Answers(task, Between, Wanted) => Answers(T, Between, Wanted)
  BY <1>2, <1>3, QuietKeeps, Zenon
<1>6. \A t \in Tasks : /\ task[t].state # "BLOCKED" => T[t].state \in {task[t].state, "DELETED"}
                       /\ task[t].state = "BLOCKED" => T[t].state \in {"BLOCKED", "READY"}
                       /\ T[t].state = "DELETED" => task[t].state \in {"ZOMBIE", "DELETED"}
  BY <1>3, ZenonT(30)
<1> QED
  BY <1>2, <1>4, <1>5, <1>6, InterruptStep, SMTT(30)

LEMMA IrqTickStep ==
    ASSUME ProcInv, UNCHANGED world, irq_tick
    PROVE  ProcInv'
<1> DEFINE T == Checked(task)
<1>1. Interruptible /\ interrupt_end(T)
  BY Zenon DEF irq_tick
<1>2. /\ Kept(task, last_pid, Handing, Between, Wanted)
      /\ ~world.irq => Answers(task, Between, Wanted)
  BY Zenon DEF ProcInv
<1>3. /\ InUse(T) = InUse(task) /\ Kept(T, last_pid, Handing, Between, Wanted)
      /\ Between = NULL /\ Answers(task, Between, Wanted) => Answers(T, Between, Wanted)
      /\ \A t \in Tasks : /\ task[t].state # "BLOCKED" => T[t].state \in {task[t].state, "DELETED"}
                          /\ task[t].state = "BLOCKED" => T[t].state \in {"BLOCKED", "READY"}
                          /\ T[t].state = "DELETED" => task[t].state \in {"ZOMBIE", "DELETED"}
  BY <1>2, CheckedKeeps, Zenon
<1>4. ~world.irq => Between = NULL
  BY <1>1, Zenon DEF Interruptible, Between, At
<1> HIDE DEF T
<1> QED
  BY <1>1, <1>2, <1>3, <1>4, InterruptStep, SMTT(30)

LEMMA IrqPreemptStep ==
    ASSUME ProcInv, UNCHANGED world, irq_preempt
    PROVE  ProcInv'
<1> DEFINE T == Checked(task)
<1>1. At("user") /\ UNCHANGED last_pid /\ pc'.at = "switch" /\ Settles(pc.at)
  BY Zenon DEF irq_preempt, At, Settles
<1>2. Gc([t \in Tasks |-> Preempted(T, t)])
  BY Zenon DEF irq_preempt
<1>3. /\ Kept(task, last_pid, NULL, NULL, NULL)
      /\ ~world.irq => Answers(task, NULL, NULL)
      /\ Runs(task, current_task, rr_task, pc.at)
      /\ world \in Worlds /\ last_pid \in Nat
  BY <1>1, SettledFacts, Zenon
<1>4. /\ InUse(T) = InUse(task) /\ Kept(T, last_pid, NULL, NULL, NULL)
      /\ Answers(task, NULL, NULL) => Answers(T, NULL, NULL)
  BY <1>3, CheckedKeeps, Zenon
<1>5. rr_task \in InUse(T) /\ current_task \in InUse(T) \cup {IdleTask}
  BY <1>3, <1>4, Zenon DEF Runs
<1> HIDE DEF T
<1> QED
  BY <1>1, <1>2, <1>3, <1>4, <1>5, PreemptStep, SMTT(30)

=============================================================================
