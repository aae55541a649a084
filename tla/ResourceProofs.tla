--------------------------- MODULE ResourceProofs ---------------------------
(***************************************************************************)
(* What is handed out and given back: file descriptions, counted for any   *)
(* number of processes, entries and handles, and the kernel's heap, for a  *)
(* heap, a table and requests of any size.                                 *)
(*                                                                         *)
(* A table that belongs to no task is not counted: when close fails it may *)
(* still point somewhere.  That is why the invariant counts in a set X of  *)
(* entries, those of the tasks that exist.                                 *)
(***************************************************************************)
EXTENDS FileDescriptors, KernelHeap, FiniteSetTheorems, TLAPS

\* No close fails.
Calm == "close" \notin world.faulty

LiveIn(k, h) == {d \in Descriptions : k.ref[d] > 0 /\ handle[d] = h}

\* The counts of k are right for the entries X.
Counted(k, X) ==
    /\ k.tab \in [Entries -> Descriptions \cup {NULL}]
    /\ k.ref \in [Descriptions -> Int]
    /\ k.opn \in [Handles -> Nat]
    /\ \A d \in Descriptions : k.ref[d] <= PointTo(k, X, d)
    /\ Calm =>
        /\ \A d \in Descriptions : k.ref[d] = PointTo(k, X, d)
        /\ \A e \in Entries \ X : k.tab[e] = NULL
        /\ \A d \in Descriptions : k.ref[d] > 0 => handle[d] \in Handles
        /\ \A h \in Handles :
              /\ Cardinality(LiveIn(k, h)) <= k.opn[h]
              /\ "truncate" \notin world.faulty => Cardinality(LiveIn(k, h)) = k.opn[h]

\* The entries of tasks that exist, also of those add_task abandoned.
Held == {e \in Entries : task[e[1]] # "none"}

\* The inductive invariant.
FdInv ==
    /\ world \in Worlds
    /\ task \in [Procs -> {"none", "live", "lost"}]
    /\ Counted(Now, Held)

TableOf(p) == {p} \X FDs

----------------------------------------------------------------------------
(* Counting.                                                               *)

\* Tables and descriptions are finite, so counting them makes sense.
LEMMA Finite ==
    /\ IsFiniteSet(Entries) /\ IsFiniteSet(Descriptions)
    /\ \A S : S \subseteq Entries \/ S \subseteq Descriptions =>
                 IsFiniteSet(S) /\ Cardinality(S) \in Nat
<1>1. IsFiniteSet(FDs) /\ IsFiniteSet(Descriptions)
  BY FdAssumption, FS_Interval DEF FDs, Descriptions
<1>2. IsFiniteSet(Entries)
  BY <1>1, FdAssumption, FS_Product, Zenon DEF Entries
<1> QED
  BY <1>1, <1>2, FS_Subset, FS_CardinalityType, Zenon

\* An empty entry points to no description.
LEMMA NullIsNone == NULL \notin Descriptions
BY FdAssumption, Zenon DEF Descriptions

\* Counts of disjoint sets add up, and those of parts are smaller.
LEMMA PointToSplits ==
    ASSUME NEW k, NEW X \in SUBSET Entries, NEW E \in SUBSET X, NEW d
    PROVE  /\ PointTo(k, X, d) \in Nat /\ PointTo(k, E, d) \in Nat
           /\ PointTo(k, X, d) = PointTo(k, X \ E, d) + PointTo(k, E, d)
           /\ PointTo(k, X \ E, d) \in Nat
<1> DEFINE A == {e \in X : k.tab[e] = d}
           B == {e \in E : k.tab[e] = d}
           C == {e \in X \ E : k.tab[e] = d}
<1>1. A \subseteq Entries /\ B \subseteq Entries /\ C \subseteq Entries
  BY Zenon
<1>2. /\ IsFiniteSet(A) /\ Cardinality(A) \in Nat /\ Cardinality(B) \in Nat
      /\ Cardinality(C) \in Nat
  BY <1>1, Finite, Zenon
<1>3. C = A \ B /\ A \cap B = B
  BY Zenon
<1>4. Cardinality(A) = Cardinality(C) + Cardinality(B)
  <2> HIDE DEF A, B, C
  <2>1. Cardinality(A \ B) = Cardinality(A) - Cardinality(A \cap B)
    BY <1>2, FS_Difference, Zenon
  <2> QED
    BY <1>2, <1>3, <2>1
<1> QED
  BY <1>2, <1>4, Zenon DEF PointTo

\* Only what the entries of X point to matters.
LEMMA PointToSame ==
    ASSUME NEW k, NEW l, NEW X, \A e \in X : k.tab[e] = l.tab[e], NEW d
    PROVE  PointTo(k, X, d) = PointTo(l, X, d)
<1>1. {e \in X : k.tab[e] = d} = {e \in X : l.tab[e] = d}
  BY Zenon
<1> QED
  BY <1>1, Zenon DEF PointTo

\* A count of zero means that no entry points there.
LEMMA PointToNothing ==
    ASSUME NEW k, NEW X \in SUBSET Entries, NEW d
    PROVE  PointTo(k, X, d) = 0 <=> \A e \in X : k.tab[e] # d
<1> DEFINE A == {e \in X : k.tab[e] = d}
<1>1. IsFiniteSet(A)
  BY Finite, Zenon
<1>2. Cardinality(A) = 0 <=> A = {}
  BY <1>1, FS_EmptySet, Zenon
<1> QED
  BY <1>2, Zenon DEF PointTo

\* One entry counts once.
LEMMA PointToOne ==
    ASSUME NEW k, NEW e, NEW d
    PROVE  PointTo(k, {e}, d) = IF k.tab[e] = d THEN 1 ELSE 0
<1>1. CASE k.tab[e] = d
  <2>1. {x \in {e} : k.tab[x] = d} = {e}
    BY <1>1, Zenon
  <2> QED
    BY <1>1, <2>1, FS_Singleton, Zenon DEF PointTo
<1>2. CASE k.tab[e] # d
  <2>1. {x \in {e} : k.tab[x] = d} = {}
    BY <1>2, Zenon
  <2> QED
    BY <1>2, <2>1, FS_EmptySet, Zenon DEF PointTo
<1> QED
  BY <1>1, <1>2, Zenon

----------------------------------------------------------------------------
(* The parts of the calls.                                                 *)

\* Closing entries, whatever fails: they may stay in X, or leave it because
\* their table goes.
LEMMA ReleaseKeeps ==
    ASSUME NEW k, NEW X \in SUBSET Entries, Counted(k, X),
           NEW E \in SUBSET X, NEW F, Calm => F = {}
    PROVE  Counted(Release(k, E, F), X) /\ Counted(Release(k, E, F), X \ E)
<1> DEFINE l == Release(k, E, F)
           gone == {e \in E : l.tab[e] # k.tab[e]}
           n(h) == Cardinality({d \in ClosedBy(k, E) \ F : handle[d] = h})
<1>1. /\ \A e \in Entries \ E : l.tab[e] = k.tab[e]
      /\ \A e \in E : l.tab[e] \in {k.tab[e], NULL}
      /\ F = {} => \A e \in E : l.tab[e] = NULL
      /\ \A d \in Descriptions : l.ref[d] = k.ref[d] - PointTo(k, E, d)
      /\ l.tab \in [Entries -> Descriptions \cup {NULL}]
  BY Zenon DEF Release, Counted
<1>2. \A d \in Descriptions :
         PointTo(k, E, d) \in Nat /\ k.ref[d] \in Int /\ PointTo(k, X, d) \in Nat
  BY PointToSplits, Zenon DEF Counted
<1>3. l.ref \in [Descriptions -> Int]
  BY <1>2 DEF Release, Counted
<1>4. l.opn = [h \in Handles |-> IF k.opn[h] < n(h) THEN 0 ELSE k.opn[h] - n(h)]
  BY Zenon DEF Release
<1>5. \A h : n(h) \in Nat
  <2> SUFFICES ASSUME NEW h PROVE n(h) \in Nat
    BY Zenon
  <2>1. {d \in ClosedBy(k, E) \ F : handle[d] = h} \subseteq Descriptions
    BY Zenon DEF ClosedBy
  <2> QED
    BY <2>1, Finite, Zenon
<1>6. l.opn \in [Handles -> Nat]
  <2> HIDE DEF n, l
  <2> QED
    BY <1>4, <1>5 DEF Counted
<1>7. ASSUME NEW d \in Descriptions
      PROVE  /\ PointTo(k, X, d) = PointTo(l, X \ E, d) + PointTo(k, E, d)
             /\ PointTo(l, X \ E, d) \in Nat
             /\ PointTo(l, X \ E, d) <= PointTo(l, X, d)
             /\ PointTo(l, X, d) \in Nat
             /\ F = {} => PointTo(l, X \ E, d) = PointTo(l, X, d)
  <2> HIDE DEF l
  <2>1. PointTo(l, X \ E, d) = PointTo(k, X \ E, d)
    BY <1>1, PointToSame
  <2>2. /\ PointTo(l, X, d) \in Nat /\ PointTo(l, E, d) \in Nat
        /\ PointTo(l, X \ E, d) \in Nat
        /\ PointTo(l, X, d) = PointTo(l, X \ E, d) + PointTo(l, E, d)
    BY PointToSplits, Zenon
  <2>3. F = {} => PointTo(l, E, d) = 0
    BY <1>1, PointToNothing, NullIsNone
  <2>4. PointTo(k, X, d) = PointTo(k, X \ E, d) + PointTo(k, E, d)
    BY PointToSplits, Zenon
  <2>5. PointTo(l, X \ E, d) <= PointTo(l, X, d)
        /\ (F = {} => PointTo(l, X \ E, d) = PointTo(l, X, d))
    BY <2>2, <2>3
  <2> QED
    BY <2>1, <2>2, <2>4, <2>5, Zenon
<1>8. ASSUME NEW d \in Descriptions
      PROVE  /\ l.ref[d] <= PointTo(l, X \ E, d) /\ l.ref[d] <= PointTo(l, X, d)
             /\ Calm => l.ref[d] = PointTo(l, X \ E, d) /\ l.ref[d] = PointTo(l, X, d)
             /\ l.ref[d] <= k.ref[d]
  <2>1. /\ k.ref[d] \in Int /\ k.ref[d] <= PointTo(k, X, d)
        /\ Calm => k.ref[d] = PointTo(k, X, d)
    BY Zenon DEF Counted
  <2>2. l.ref[d] = k.ref[d] - PointTo(k, E, d) /\ l.ref[d] \in Int
    BY <1>1, <1>3, Zenon
  <2>3. PointTo(k, X, d) \in Nat /\ PointTo(k, E, d) \in Nat
    BY <1>2, Zenon
  <2> HIDE DEF l
  <2>4. /\ PointTo(k, X, d) = PointTo(l, X \ E, d) + PointTo(k, E, d)
        /\ PointTo(l, X \ E, d) \in Nat /\ PointTo(l, X, d) \in Nat
    BY <1>7, Zenon
  <2>5. /\ PointTo(l, X \ E, d) <= PointTo(l, X, d)
        /\ F = {} => PointTo(l, X \ E, d) = PointTo(l, X, d)
    BY <1>7, Zenon
  <2>6. l.ref[d] <= PointTo(l, X \ E, d) /\ l.ref[d] <= k.ref[d]
    BY <2>1, <2>2, <2>3, <2>4
  <2>7. Calm => l.ref[d] = PointTo(l, X \ E, d)
    BY <2>1, <2>2, <2>3, <2>4
  <2> QED
    BY <2>2, <2>4, <2>5, <2>6, <2>7
<1>9. ASSUME Calm
      PROVE  /\ \A e \in Entries \ (X \ E) : l.tab[e] = NULL
             /\ \A d \in Descriptions : l.ref[d] > 0 => handle[d] \in Handles
  <2>1. \A d \in Descriptions : l.ref[d] > 0 => k.ref[d] > 0
    BY <1>2, <1>3, <1>8
  <2> HIDE DEF l
  <2> QED
    BY <1>1, <1>9, <2>1, Zenon DEF Counted
<1>10. ASSUME Calm, NEW h \in Handles
       PROVE  /\ Cardinality(LiveIn(l, h)) <= l.opn[h]
              /\ "truncate" \notin world.faulty => Cardinality(LiveIn(l, h)) = l.opn[h]
  <2> DEFINE G == {d \in ClosedBy(k, E) \ F : handle[d] = h}
  <2>1. G \subseteq LiveIn(k, h) /\ LiveIn(k, h) \subseteq Descriptions
    BY <1>2 DEF ClosedBy, LiveIn
  <2>2. LiveIn(l, h) = LiveIn(k, h) \ G
    <3> HIDE DEF l
    <3>1. \A d \in Descriptions : l.ref[d] > 0 <=> k.ref[d] > 0 /\ d \notin ClosedBy(k, E)
      <4> SUFFICES ASSUME NEW d \in Descriptions
                   PROVE  l.ref[d] > 0 <=> k.ref[d] > 0 /\ ~(k.ref[d] \in 1 .. PointTo(k, E, d))
        BY Zenon DEF ClosedBy
      <4> QED
        BY <1>1, <1>2
    <3>2. F = {}
      BY <1>10, Zenon
    <3> QED
      BY <3>1, <3>2, Zenon DEF LiveIn
  <2>3. /\ Cardinality(LiveIn(l, h)) = Cardinality(LiveIn(k, h)) - n(h)
        /\ Cardinality(LiveIn(k, h)) \in Nat /\ n(h) <= Cardinality(LiveIn(k, h))
    <3>1. LiveIn(k, h) \cap G = G
      BY <2>1, Zenon
    <3>2. IsFiniteSet(LiveIn(k, h)) /\ Cardinality(LiveIn(k, h)) \in Nat
      BY <2>1, Finite, Zenon
    <3>3. Cardinality(G) <= Cardinality(LiveIn(k, h))
      BY <2>1, <3>2, FS_Subset, Zenon
    <3> HIDE DEF G, l
    <3>4. Cardinality(LiveIn(l, h)) = Cardinality(LiveIn(k, h)) - Cardinality(G)
      BY <2>2, <3>1, <3>2, FS_Difference, Zenon
    <3> QED
      BY <3>2, <3>3, <3>4, Zenon DEF G
  <2>4. l.opn[h] = IF k.opn[h] < n(h) THEN 0 ELSE k.opn[h] - n(h)
    BY <1>4, Zenon
  <2>5. /\ Cardinality(LiveIn(k, h)) <= k.opn[h] /\ k.opn[h] \in Nat
        /\ "truncate" \notin world.faulty => Cardinality(LiveIn(k, h)) = k.opn[h]
    BY <1>10, Zenon DEF Counted
  <2> HIDE DEF n, l
  <2> QED
    BY <1>5, <2>3, <2>4, <2>5
<1> HIDE DEF l
<1>11. Counted(l, X) /\ Counted(l, X \ E)
  BY <1>1, <1>3, <1>6, <1>8, <1>9, <1>10, Zenon DEF Counted
<1> QED
  BY <1>11, Zenon DEF l

\* The counts do not depend on what is live when nothing changes for it.
LEMMA LiveSame ==
    ASSUME NEW k, NEW l, NEW h,
           \A d \in Descriptions : l.ref[d] > 0 <=> k.ref[d] > 0
    PROVE  LiveIn(l, h) = LiveIn(k, h)
BY Zenon DEF LiveIn

\* An entry that points nowhere need not be counted.
LEMMA UncountFree ==
    ASSUME NEW k, NEW X \in SUBSET Entries, Counted(k, X),
           NEW e \in X, k.tab[e] = NULL
    PROVE  Counted(k, X \ {e})
<1>1. \A d \in Descriptions : PointTo(k, X \ {e}, d) = PointTo(k, X, d)
  <2> SUFFICES ASSUME NEW d \in Descriptions
               PROVE  PointTo(k, X \ {e}, d) = PointTo(k, X, d)
    BY Zenon
  <2>1. {x \in X \ {e} : k.tab[x] = d} = {x \in X : k.tab[x] = d}
    BY NullIsNone, Zenon
  <2> QED
    BY <2>1, Zenon DEF PointTo
<1> QED
  BY <1>1 DEF Counted

\* An entry e that is not counted is made to point where src does.
LEMMA RedirectKeeps ==
    ASSUME NEW k, NEW Y \in SUBSET Entries, Counted(k, Y),
           NEW e \in Entries \ Y, NEW src \in Y, k.tab[src] # NULL, NEW c
    PROVE  Counted(Redirect(k, e, src, c), Y \cup {e})
<1> DEFINE l == Redirect(k, e, src, c)
           x == k.tab[src]
<1>1. x \in Descriptions
  BY Zenon DEF Counted
<1>2. /\ l.tab = [k.tab EXCEPT ![e] = x]
      /\ l.ref = [k.ref EXCEPT ![x] = @ + 1]
      /\ l.opn = k.opn
  BY DEF Redirect
<1>3. /\ l.tab \in [Entries -> Descriptions \cup {NULL}]
      /\ l.ref \in [Descriptions -> Int]
      /\ l.opn \in [Handles -> Nat]
  <2> HIDE DEF l
  <2> QED
    BY <1>1, <1>2 DEF Counted
<1>4. ASSUME NEW d \in Descriptions
      PROVE  /\ PointTo(l, Y \cup {e}, d) = PointTo(k, Y, d) + (IF d = x THEN 1 ELSE 0)
             /\ PointTo(k, Y, d) \in Nat
             /\ l.ref[d] = k.ref[d] + (IF d = x THEN 1 ELSE 0)
  <2>1. (Y \cup {e}) \ {e} = Y /\ Y \cup {e} \in SUBSET Entries
    BY Zenon
  <2> HIDE DEF l
  <2>2. PointTo(l, Y, d) = PointTo(k, Y, d)
    <3>1. \A y \in Y : l.tab[y] = k.tab[y]
      BY <1>2, Zenon DEF Counted
    <3> QED
      BY <3>1, PointToSame
  <2>3. PointTo(l, {e}, d) = IF d = x THEN 1 ELSE 0
    <3>1. l.tab[e] = x
      BY <1>2, Zenon DEF Counted
    <3> QED
      BY <3>1, PointToOne
  <2>4. PointTo(l, Y \cup {e}, d) = PointTo(l, Y, d) + PointTo(l, {e}, d)
    BY <2>1, PointToSplits
  <2>5. PointTo(k, Y, d) \in Nat
    BY PointToSplits, Zenon
  <2>6. l.ref[d] = k.ref[d] + (IF d = x THEN 1 ELSE 0)
    BY <1>2 DEF Counted
  <2> QED
    BY <2>2, <2>3, <2>4, <2>5, <2>6, Zenon
<1>5. ASSUME NEW d \in Descriptions
      PROVE  /\ l.ref[d] <= PointTo(l, Y \cup {e}, d)
             /\ Calm => l.ref[d] = PointTo(l, Y \cup {e}, d)
  <2>1. /\ k.ref[d] \in Int /\ k.ref[d] <= PointTo(k, Y, d)
        /\ Calm => k.ref[d] = PointTo(k, Y, d)
    BY Zenon DEF Counted
  <2>2. /\ PointTo(l, Y \cup {e}, d) = PointTo(k, Y, d) + (IF d = x THEN 1 ELSE 0)
        /\ PointTo(k, Y, d) \in Nat
        /\ l.ref[d] = k.ref[d] + (IF d = x THEN 1 ELSE 0)
    BY <1>4, Zenon
  <2> HIDE DEF l, x
  <2> QED
    BY <2>1, <2>2
<1>6. ASSUME Calm
      PROVE  \A d \in Descriptions : l.ref[d] > 0 <=> k.ref[d] > 0
  <2>1. k.ref[x] > 0
    <3>1. PointTo(k, Y, x) # 0
      BY PointToNothing
    <3>2. PointTo(k, Y, x) \in Nat
      BY PointToSplits, Zenon
    <3>3. k.ref[x] = PointTo(k, Y, x)
      BY <1>1, <1>6, Zenon DEF Counted
    <3> QED
      BY <3>1, <3>2, <3>3
  <2> HIDE DEF l, x
  <2> QED
    BY <1>1, <1>2, <2>1 DEF Counted
<1>7. ASSUME Calm
      PROVE  /\ \A y \in Entries \ (Y \cup {e}) : l.tab[y] = NULL
             /\ \A d \in Descriptions : l.ref[d] > 0 => handle[d] \in Handles
             /\ \A h \in Handles : LiveIn(l, h) = LiveIn(k, h)
  <2> HIDE DEF l
  <2> QED
    BY <1>2, <1>6, <1>7, LiveSame DEF Counted
<1> HIDE DEF l
<1>8. Counted(l, Y \cup {e})
  BY <1>2, <1>3, <1>5, <1>7, Zenon DEF Counted
<1> QED
  BY <1>8, Zenon DEF l

\* The table of src is copied to dst, which was not counted.
LEMMA ShareKeeps ==
    ASSUME NEW k, NEW X \in SUBSET Entries, Counted(k, X),
           NEW src \in Procs, NEW dst \in Procs,
           TableOf(src) \subseteq X, TableOf(dst) \cap X = {}
    PROVE  Counted(Share(k, src, dst), X \cup TableOf(dst))
<1> DEFINE l == Share(k, src, dst)
<1>1. /\ l.tab = [e \in Entries |-> IF e[1] = dst THEN k.tab[<<src, e[2]>>] ELSE k.tab[e]]
      /\ l.ref = [d \in Descriptions |-> k.ref[d] + PointTo(k, TableOf(src), d)]
      /\ l.opn = k.opn
  BY DEF Share, TableOf
<1>2. /\ TableOf(dst) \in SUBSET Entries /\ TableOf(src) \in SUBSET Entries
      /\ \A e \in Entries : e[1] = dst <=> e \in TableOf(dst)
  BY Zenon DEF TableOf, Entries
<1>3. /\ l.tab \in [Entries -> Descriptions \cup {NULL}]
      /\ l.opn \in [Handles -> Nat]
  <2>1. \A e \in Entries : <<src, e[2]>> \in Entries
    BY Zenon DEF Entries
  <2> HIDE DEF l
  <2> QED
    BY <1>1, <2>1 DEF Counted
<1>4. ASSUME NEW d \in Descriptions
      PROVE  PointTo(l, TableOf(dst), d) = PointTo(k, TableOf(src), d)
  <2> DEFINE A == {e \in TableOf(src) : k.tab[e] = d}
             B == {e \in TableOf(dst) : l.tab[e] = d}
             f == [e \in A |-> <<dst, e[2]>>]
  <2>1. \A i \in FDs : /\ <<dst, i>> \in Entries /\ <<src, i>> \in Entries
                       /\ l.tab[<<dst, i>>] = k.tab[<<src, i>>]
    BY <1>1, Zenon DEF Entries
  <2>2. f \in Bijection(A, B)
    <3> HIDE DEF l
    <3>1. f \in [A -> B]
      BY <2>1 DEF TableOf
    <3>2. \A a, b \in A : f[a] = f[b] => a = b
      BY DEF TableOf
    <3>3. \A b \in B : \E a \in A : f[a] = b
      <4> SUFFICES ASSUME NEW b \in B PROVE \E a \in A : f[a] = b
        BY Zenon
      <4>1. b[2] \in FDs /\ b = <<dst, b[2]>>
        BY DEF TableOf
      <4>2. <<src, b[2]>> \in A
        BY <2>1, <4>1, Zenon DEF TableOf
      <4>3. f[<<src, b[2]>>] = b
        BY <4>1, <4>2, Zenon
      <4> QED
        BY <4>2, <4>3, Zenon
    <3> HIDE DEF f, A, B
    <3> QED
      BY <3>1, <3>2, <3>3, Zenon DEF Bijection, Injection, Surjection, IsInjective
  <2>3. IsFiniteSet(A)
    BY <1>2, Finite, Zenon
  <2>4. ExistsBijection(A, B)
    BY <2>2, Zenon DEF ExistsBijection
  <2>5. Cardinality(B) = Cardinality(A)
    <3> HIDE DEF A, B, f
    <3> QED
      BY <2>3, <2>4, FS_Bijection, Zenon
  <2> QED
    BY <2>5, Zenon DEF PointTo
<1>5. ASSUME NEW d \in Descriptions
      PROVE  /\ PointTo(k, TableOf(src), d) \in Nat
             /\ PointTo(k, X, d) \in Nat
             /\ PointTo(k, TableOf(src), d) <= PointTo(k, X, d)
  <2>1. /\ PointTo(k, TableOf(src), d) \in Nat /\ PointTo(k, X, d) \in Nat
        /\ PointTo(k, X \ TableOf(src), d) \in Nat
        /\ PointTo(k, X, d) = PointTo(k, X \ TableOf(src), d) + PointTo(k, TableOf(src), d)
    <3>1. TableOf(src) \in SUBSET X
      BY Zenon
    <3> QED
      BY <3>1, PointToSplits
  <2> QED
    BY <2>1
<1>6. ASSUME NEW d \in Descriptions
      PROVE  PointTo(l, X \cup TableOf(dst), d) = PointTo(k, X, d) + PointTo(k, TableOf(src), d)
  <2> HIDE DEF l
  <2>1. (X \cup TableOf(dst)) \ TableOf(dst) = X /\ X \cup TableOf(dst) \in SUBSET Entries
    BY <1>2, Zenon
  <2>2. PointTo(l, X, d) = PointTo(k, X, d)
    <3>1. \A e \in X : l.tab[e] = k.tab[e]
      BY <1>1, <1>2, Zenon
    <3> QED
      BY <3>1, PointToSame
  <2>3. PointTo(l, X \cup TableOf(dst), d) = PointTo(l, X, d) + PointTo(l, TableOf(dst), d)
    BY <2>1, PointToSplits
  <2>4. PointTo(l, TableOf(dst), d) = PointTo(k, TableOf(src), d)
    BY <1>4, Zenon DEF l
  <2> QED
    BY <2>2, <2>3, <2>4, Zenon
<1>7. l.ref \in [Descriptions -> Int]
  <2> HIDE DEF l
  <2> QED
    BY <1>1, <1>5 DEF Counted
<1>8. ASSUME NEW d \in Descriptions
      PROVE  /\ l.ref[d] <= PointTo(l, X \cup TableOf(dst), d)
             /\ Calm => l.ref[d] = PointTo(l, X \cup TableOf(dst), d)
             /\ Calm => (l.ref[d] > 0 <=> k.ref[d] > 0)
  <2>1. /\ k.ref[d] \in Int /\ k.ref[d] <= PointTo(k, X, d)
        /\ Calm => k.ref[d] = PointTo(k, X, d)
    BY Zenon DEF Counted
  <2>2. l.ref[d] = k.ref[d] + PointTo(k, TableOf(src), d)
    BY <1>1, Zenon
  <2>3. /\ PointTo(k, TableOf(src), d) \in Nat
        /\ PointTo(k, X, d) \in Nat
        /\ PointTo(k, TableOf(src), d) <= PointTo(k, X, d)
    BY <1>5, Zenon
  <2>4. PointTo(l, X \cup TableOf(dst), d) = PointTo(k, X, d) + PointTo(k, TableOf(src), d)
    BY <1>6, Zenon
  <2> HIDE DEF l
  <2> QED
    BY <2>1, <2>2, <2>3, <2>4
<1>9. ASSUME Calm
      PROVE  /\ \A e \in Entries \ (X \cup TableOf(dst)) : l.tab[e] = NULL
             /\ \A d \in Descriptions : l.ref[d] > 0 => handle[d] \in Handles
             /\ \A h \in Handles : LiveIn(l, h) = LiveIn(k, h)
  <2> HIDE DEF l
  <2>1. \A e \in Entries \ (X \cup TableOf(dst)) : l.tab[e] = NULL
    BY <1>1, <1>2, <1>9 DEF Counted
  <2> QED
    BY <1>8, <1>9, <2>1, LiveSame, Zenon DEF Counted
<1> HIDE DEF l
<1>10. Counted(l, X \cup TableOf(dst))
  BY <1>1, <1>3, <1>7, <1>8, <1>9, Zenon DEF Counted
<1> QED
  BY <1>10, Zenon DEF l

----------------------------------------------------------------------------
(* The calls.                                                              *)

\* A call that ends with tables and counts k, the tasks as they are.
LEMMA SetKeeps ==
    ASSUME FdInv, NEW k, Set(k), UNCHANGED <<handle, world>>,
           task' \in [Procs -> {"none", "live", "lost"}],
           Counted(k, Held')
    PROVE  FdInv'
<1>1. Calm' = Calm
  BY Zenon DEF Calm
<1>2. /\ Now'.tab = k.tab /\ Now'.ref = k.ref /\ Now'.opn = k.opn
  BY Zenon DEF Now, Set
<1>3. \A X, d : PointTo(Now', X, d) = PointTo(k, X, d)
  BY <1>2, Zenon DEF PointTo
<1>4. Counted(Now, Held)'
  BY <1>1, <1>2, <1>3 DEF Counted, LiveIn, Calm, PointTo
<1> QED
  BY <1>4, Zenon DEF FdInv

\* Without faults close fails for nothing.
LEMMA CalmCloses ==
    ASSUME NEW D, NEW F \in CloseFailures(D)
    PROVE  Calm => F = {}
BY Zenon DEF CloseFailures, Calm

\* What the invariant says of the tables as they are.
LEMMA HeldFacts ==
    ASSUME FdInv
    PROVE  /\ Held \in SUBSET Entries /\ Counted(Now, Held)
           /\ Now.tab = fd_table /\ Now.clo = cloexec
           /\ Now.ref = refcount /\ Now.opn = opens
           /\ \A p \in Procs : IF task[p] = "none" THEN TableOf(p) \cap Held = {}
                               ELSE TableOf(p) \in SUBSET Held
           /\ \A p \in Procs, i \in FDs : task[p] # "none" => <<p, i>> \in Held
           /\ world.procs \in SUBSET Procs
BY FdAssumption, Zenon DEF FdInv, Held, Now, TableOf, Entries

\* dup2 closes the target and redirects it, or does nothing.
LEMMA Dup2Keeps ==
    ASSUME NEW k, NEW X \in SUBSET Entries, Counted(k, X),
           NEW p, NEW i, NEW j, <<p, i>> \in X, <<p, j>> \in X,
           k.tab[<<p, i>>] # NULL, NEW l \in Dup2(k, p, i, j)
    PROVE  Counted(l, X)
<1>1. CASE i = j
  BY <1>1, Zenon DEF Dup2
<1>2. CASE i # j
  <2>1. PICK F \in CloseFailures(ClosedBy(k, {<<p, j>>})) :
           l = Redirect(Release(k, {<<p, j>>}, F), <<p, j>>, <<p, i>>, FALSE)
    BY <1>2, Zenon DEF Dup2
  <2> DEFINE r == Release(k, {<<p, j>>}, F)
  <2>2. Counted(r, X \ {<<p, j>>})
    BY CalmCloses, ReleaseKeeps, Zenon
  <2>3. r.tab[<<p, i>>] = k.tab[<<p, i>>]
    BY <1>2, Zenon DEF Release
  <2> HIDE DEF r
  <2>4. Counted(Redirect(r, <<p, j>>, <<p, i>>, FALSE), (X \ {<<p, j>>}) \cup {<<p, j>>})
    BY <1>2, <2>2, <2>3, RedirectKeeps, Zenon
  <2>5. (X \ {<<p, j>>}) \cup {<<p, j>>} = X
    BY Zenon
  <2> QED
    BY <2>1, <2>4, <2>5, Zenon DEF r
<1> QED
  BY <1>1, <1>2, Zenon

\* Closing what is marked close-on-exec, in a new table.
LEMMA CloseOnExecKeeps ==
    ASSUME NEW k, NEW X \in SUBSET Entries, Counted(k, X),
           NEW q, TableOf(q) \in SUBSET X, NEW l \in CloseOnExec(k, q)
    PROVE  Counted(l, X)
<1> DEFINE E == {e \in TableOf(q) : k.tab[e] # NULL /\ k.clo[e]}
<1>1. E \in SUBSET X
  BY Zenon
<1>2. PICK F \in CloseFailures(ClosedBy(k, E)) :
         l = [Release(k, E, {}) EXCEPT !.opn = Release(k, E, F).opn]
  BY Zenon DEF CloseOnExec, TableOf
<1>3. Calm => F = {}
  BY CalmCloses, Zenon
<1> HIDE DEF E
<1>4. \A G : (Calm => G = {}) => Counted(Release(k, E, G), X)
  BY <1>1, ReleaseKeeps, Zenon
<1> DEFINE c == Release(k, E, {})
           r == Release(k, E, F)
<1>5. Counted(c, X) /\ Counted(r, X)
  BY <1>3, <1>4, Zenon
<1>6. l.tab = c.tab /\ l.ref = c.ref /\ l.opn = r.opn
  BY <1>2, Zenon DEF Release
<1>7. Calm => r = c
  BY <1>3, Zenon
<1> HIDE DEF c, r
<1>8. \A d : PointTo(l, X, d) = PointTo(c, X, d)
  BY <1>6, Zenon DEF PointTo
<1>9. \A h : LiveIn(l, h) = LiveIn(c, h)
  BY <1>6, Zenon DEF LiveIn
<1> QED
  BY <1>5, <1>6, <1>7, <1>8, <1>9, Zenon DEF Counted

\* close.
LEMMA CloseStep ==
    ASSUME FdInv, UNCHANGED world, NEW p \in Procs, NEW i \in FDs, fd_close(p, i)
    PROVE  FdInv'
<1>1. PICK F \in CloseFailures(ClosedBy(Now, {<<p, i>>})) :
         Set(Release(Now, {<<p, i>>}, F))
  BY Zenon DEF fd_close
<1>2. {<<p, i>>} \in SUBSET Held
  BY HeldFacts, Zenon DEF fd_close, Used
<1>3. Counted(Release(Now, {<<p, i>>}, F), Held)
  BY <1>2, HeldFacts, CalmCloses, ReleaseKeeps, Zenon
<1>4. Held' = Held /\ task' = task /\ handle' = handle
  BY Zenon DEF fd_close, Held
<1> QED
  BY <1>1, <1>3, <1>4, SetKeeps, Zenon DEF FdInv

\* dup and fcntl's F_DUPFD.
LEMMA DupStep ==
    ASSUME FdInv, UNCHANGED world, NEW p \in Procs, NEW i \in FDs,
           NEW minfd, NEW c, dup(p, i, minfd, c)
    PROVE  FdInv'
<1>1. PICK E \in Lowest(1, {j \in FreeFDs(p) : j >= minfd}) :
         Set(Redirect(Now, <<p, E[1]>>, <<p, i>>, c))
  BY Zenon DEF dup
<1> DEFINE e == <<p, E[1]>>
<1>2. E[1] \in FDs /\ fd_table[e] = NULL
  BY DEF Lowest, FreeFDs
<1>3. e \in Held /\ <<p, i>> \in Held /\ fd_table[<<p, i>>] # NULL
  BY <1>2, HeldFacts, Zenon DEF dup, Used
<1> HIDE DEF e
<1>4. Counted(Now, Held \ {e})
  BY <1>2, <1>3, HeldFacts, UncountFree, Zenon
<1>5. Counted(Redirect(Now, e, <<p, i>>, c), (Held \ {e}) \cup {e})
  <2>1. <<p, i>> \in Held \ {e} /\ e \in Entries \ (Held \ {e})
    BY <1>2, <1>3, HeldFacts, Zenon
  <2> QED
    BY <1>3, <1>4, <2>1, HeldFacts, RedirectKeeps, Zenon
<1>6. (Held \ {e}) \cup {e} = Held
  BY <1>3, Zenon
<1>7. Held' = Held /\ task' = task /\ handle' = handle
  BY Zenon DEF dup, Held
<1> QED
  BY <1>1, <1>5, <1>6, <1>7, SetKeeps, Zenon DEF FdInv, e

\* dup2.
LEMMA Dup2Step ==
    ASSUME FdInv, UNCHANGED world, NEW p \in Procs, NEW i \in FDs, NEW j \in FDs,
           dup2(p, i, j)
    PROVE  FdInv'
<1>1. PICK k \in Dup2(Now, p, i, j) : Set(k)
  BY Zenon DEF dup2
<1>2. <<p, i>> \in Held /\ <<p, j>> \in Held /\ Now.tab[<<p, i>>] # NULL
  BY HeldFacts, Zenon DEF dup2, Used
<1>3. Counted(k, Held)
  BY <1>2, HeldFacts, Dup2Keeps, Zenon
<1>4. Held' = Held /\ task' = task /\ handle' = handle
  BY Zenon DEF dup2, Held
<1> QED
  BY <1>1, <1>3, <1>4, SetKeeps, Zenon DEF FdInv

\* fcntl's F_SETFD touches no count.
LEMMA SetCloexecStep ==
    ASSUME FdInv, UNCHANGED world, NEW p \in Procs, NEW i \in FDs, NEW c,
           set_cloexec(p, i, c)
    PROVE  FdInv'
<1> DEFINE k == [Now EXCEPT !.clo = cloexec']
<1>1. /\ k.tab = Now.tab /\ k.ref = Now.ref /\ k.opn = Now.opn
  BY Zenon DEF Now
<1>2. Set(k)
  BY Zenon DEF set_cloexec, Set, Now
<1> HIDE DEF k
<1>3. Counted(k, Held)
  BY <1>1, HeldFacts DEF Counted, PointTo, LiveIn
<1>4. Held' = Held /\ task' = task /\ handle' = handle
  BY Zenon DEF set_cloexec, Held
<1> QED
  BY <1>2, <1>3, <1>4, SetKeeps, Zenon DEF FdInv

\* A new task with a copy of a table.
LEMMA BornHeld ==
    ASSUME FdInv, NEW q \in Procs, task[q] = "none", NEW v \in {"live", "lost"},
           task' = [task EXCEPT ![q] = v]
    PROVE  /\ task' \in [Procs -> {"none", "live", "lost"}]
           /\ Held' = Held \cup TableOf(q)
BY Zenon DEF FdInv, Held, TableOf, Entries

\* A copied table is counted with the tables there were.
LEMMA CopyCounted ==
    ASSUME FdInv, NEW p \in Procs, NEW q \in Procs,
           task[p] = "live", task[q] = "none"
    PROVE  Counted(Share(Now, p, q), Held \cup TableOf(q))
BY HeldFacts, ShareKeeps, Zenon

\* fork.
LEMMA ForkStep ==
    ASSUME FdInv, UNCHANGED world, NEW p \in Procs, NEW q \in Procs, fork(p, q)
    PROVE  FdInv'
<1>1. Counted(Share(Now, p, q), Held \cup TableOf(q))
  BY CopyCounted, Zenon DEF fork
<1>2. /\ Held' = Held \cup TableOf(q)
      /\ task' \in [Procs -> {"none", "live", "lost"}]
  BY BornHeld, Zenon DEF fork
<1> QED
  BY <1>1, <1>2, SetKeeps, Zenon DEF fork

\* spawn, also when it abandons the task it made.
LEMMA SpawnStep ==
    ASSUME FdInv, UNCHANGED world, NEW p \in Procs, NEW q \in Procs,
           NEW dups \in SUBSET (FDs \X FDs), spawn(p, q, dups)
    PROVE  FdInv'
<1> DEFINE copy == Share(Now, p, q)
           X == Held \cup TableOf(q)
           bad == \E x \in dups : fd_table[<<p, x[1]>>] = NULL
<1>1. Counted(copy, X) /\ X \in SUBSET Entries /\ TableOf(q) \in SUBSET X
  BY CopyCounted, HeldFacts, Zenon DEF spawn, TableOf, Entries
<1>2. /\ Held' = X
      /\ task' \in [Procs -> {"none", "live", "lost"}]
  BY BornHeld, Zenon DEF spawn
<1>3. CASE bad
  BY <1>1, <1>2, <1>3, SetKeeps, Zenon DEF spawn
<1>4. CASE ~bad
  <2>1. PICK k \in IF dups = {} THEN {copy}
                   ELSE UNION {Dup2(copy, q, x[1], x[2]) : x \in dups} :
           \E new \in CloseOnExec(k, q) : Set(new)
    BY <1>4, Zenon DEF spawn
  <2>2. Counted(k, X)
    <3>1. CASE dups = {}
      BY <1>1, <2>1, <3>1, Zenon
    <3>2. CASE dups # {}
      <4>1. PICK x \in dups : k \in Dup2(copy, q, x[1], x[2])
        BY <2>1, <3>2, Zenon
      <4>2. x[1] \in FDs /\ x[2] \in FDs
        BY Zenon
      <4>3. <<q, x[1]>> \in TableOf(q) /\ <<q, x[2]>> \in TableOf(q)
        BY <4>2, Zenon DEF TableOf
      <4>4. copy.tab[<<q, x[1]>>] # NULL
        <5>1. copy.tab[<<q, x[1]>>] = fd_table[<<p, x[1]>>]
          BY <4>2, Zenon DEF Share, Now, Entries
        <5> QED
          BY <1>4, <5>1, Zenon
      <4> HIDE DEF copy, X
      <4> QED
        BY <1>1, <4>1, <4>3, <4>4, Dup2Keeps, Zenon
    <3> QED
      BY <3>1, <3>2, Zenon
  <2> HIDE DEF copy, X, bad
  <2>3. PICK new \in CloseOnExec(k, q) : Set(new)
    BY <2>1, Zenon
  <2>4. Counted(new, X)
    BY <1>1, <2>2, CloseOnExecKeeps, Zenon
  <2> QED
    BY <1>2, <2>3, <2>4, SetKeeps, Zenon DEF spawn
<1> QED
  BY <1>3, <1>4, Zenon

\* exit, after which the table is nobody's.
LEMMA ExitStep ==
    ASSUME FdInv, UNCHANGED world, NEW p \in Procs, exit(p)
    PROVE  FdInv'
<1>1. PICK F \in CloseFailures(ClosedBy(Now, TableOf(p))) :
         Set(Release(Now, TableOf(p), F))
  BY Zenon DEF exit, TableOf
<1>2. TableOf(p) \in SUBSET Held
  BY HeldFacts, Zenon DEF exit
<1>3. Counted(Release(Now, TableOf(p), F), Held \ TableOf(p))
  BY <1>2, HeldFacts, CalmCloses, ReleaseKeeps, Zenon
<1>4. /\ Held' = Held \ TableOf(p)
      /\ task' \in [Procs -> {"none", "live", "lost"}]
  BY Zenon DEF exit, FdInv, Held, TableOf, Entries
<1> QED
  BY <1>1, <1>3, <1>4, SetKeeps, Zenon DEF exit

\* execve, which copies the table to the new task and closes the old one.
LEMMA ExecveStep ==
    ASSUME FdInv, UNCHANGED world, NEW p \in Procs, NEW q \in Procs, execve(p, q)
    PROVE  FdInv'
<1> DEFINE X == Held \cup TableOf(q)
<1>1. /\ Counted(Share(Now, p, q), X) /\ X \in SUBSET Entries
      /\ TableOf(q) \in SUBSET X /\ TableOf(p) \in SUBSET X
  BY CopyCounted, HeldFacts DEF execve, TableOf, Entries
<1> PICK new \in CloseOnExec(Share(Now, p, q), q) :
         \/ /\ \E F \in CloseFailures(ClosedBy(new, TableOf(p))) :
                  Set(Release(new, TableOf(p), F))
            /\ task' = [task EXCEPT ![p] = "none", ![q] = "live"]
         \/ Set(new) /\ task' = [task EXCEPT ![q] = "lost"]
  BY Zenon DEF execve, TableOf
<1>2. Counted(new, X)
  <2> HIDE DEF X
  <2> QED
    BY <1>1, CloseOnExecKeeps, Zenon
<1>3. CASE task' = [task EXCEPT ![p] = "none", ![q] = "live"]
           /\ \E F \in CloseFailures(ClosedBy(new, TableOf(p))) :
                 Set(Release(new, TableOf(p), F))
  <2>1. PICK F \in CloseFailures(ClosedBy(new, TableOf(p))) :
           Set(Release(new, TableOf(p), F))
    BY <1>3, Zenon
  <2>2. Counted(Release(new, TableOf(p), F), X \ TableOf(p))
    <3> HIDE DEF X
    <3> QED
      BY <1>1, <1>2, CalmCloses, ReleaseKeeps, Zenon
  <2>3. /\ Held' = X \ TableOf(p)
        /\ task' \in [Procs -> {"none", "live", "lost"}]
    BY <1>3 DEF execve, FdInv, Held, TableOf, Entries
  <2> QED
    BY <2>1, <2>2, <2>3, SetKeeps, Zenon DEF execve
<1>4. CASE Set(new) /\ task' = [task EXCEPT ![q] = "lost"]
  <2>1. /\ Held' = X
        /\ task' \in [Procs -> {"none", "live", "lost"}]
    BY <1>4, BornHeld, Zenon DEF execve
  <2> QED
    BY <1>2, <1>4, <2>1, SetKeeps, Zenon DEF execve
<1> QED
  BY <1>3, <1>4, Zenon

\* New descriptions in free entries, one for each of the handles hs.
LEMMA InstallKeeps ==
    ASSUME FdInv, UNCHANGED world, NEW p \in Procs, task[p] = "live", NEW n \in Nat,
           NEW E \in Lowest(n, FreeFDs(p)), NEW D \in Lowest(n, FreeDescriptions),
           NEW hs, DOMAIN hs = 1 .. n, \A m \in 1 .. n : hs[m] \in Handles,
           \A l, m \in 1 .. n : hs[l] = hs[m] => l = m,
           NEW c, Install(p, E, D, hs, c)
    PROVE  FdInv'
<1>1. /\ DOMAIN E = 1 .. n /\ DOMAIN D = 1 .. n
      /\ \A m \in 1 .. n : /\ E[m] \in FDs /\ fd_table[<<p, E[m]>>] = NULL
                           /\ D[m] \in Descriptions /\ refcount[D[m]] = 0
  BY DEF Lowest, FreeFDs, FreeDescriptions
<1>2. \A l, m \in 1 .. n : (E[l] = E[m] => l = m) /\ (D[l] = D[m] => l = m)
  <2> SUFFICES ASSUME NEW l \in 1 .. n, NEW m \in 1 .. n, l < m
               PROVE  E[l] # E[m] /\ D[l] # D[m]
    OBVIOUS
  <2>1. E[l] < E[m] /\ D[l] < D[m]
    BY Zenon DEF Lowest
  <2>2. E[l] \in Int /\ E[m] \in Int /\ D[l] \in Int /\ D[m] \in Int
    <3>1. FDs \subseteq Int /\ Descriptions \subseteq Int
      BY FdAssumption DEF FDs, Descriptions
    <3> QED
      BY <1>1, <3>1, Zenon
  <2> QED
    BY <2>1, <2>2
<1>3. /\ fd_table' \in [Entries -> Descriptions \cup {NULL}]
      /\ \A m \in 1 .. n : fd_table'[<<p, E[m]>>] = D[m]
      /\ \A e \in Entries : (\A m \in 1 .. n : e # <<p, E[m]>>) => fd_table'[e] = fd_table[e]
  <2> DEFINE Is(e, m) == e = <<p, E[m]>>
  <2>1. \A e, l, m : l \in 1 .. n /\ m \in 1 .. n /\ Is(e, l) /\ Is(e, m) => l = m
    BY <1>2
  <2>2. fd_table' = [e \in Entries |-> IF \E m \in 1 .. n : Is(e, m)
                                       THEN D[CHOOSE m \in 1 .. n : Is(e, m)]
                                       ELSE fd_table[e]]
    BY <1>1 DEF Install
  <2>3. \A m \in 1 .. n : <<p, E[m]>> \in Entries
    BY <1>1, Zenon DEF Entries
  <2>4. ASSUME NEW m \in 1 .. n
        PROVE  fd_table'[<<p, E[m]>>] = D[m]
    <3>1. \A l \in 1 .. n : Is(<<p, E[m]>>, l) <=> l = m
      BY <2>1, Zenon
    <3> QED
      BY <2>2, <2>3, <3>1, Zenon
  <2>5. ASSUME NEW e \in Entries, \A m \in 1 .. n : ~Is(e, m)
        PROVE  fd_table'[e] = fd_table[e]
    BY <2>2, <2>5, Zenon
  <2>6. \A e \in Entries : fd_table[e] \in Descriptions \cup {NULL}
    BY HeldFacts, Zenon DEF Counted
  <2>7. \A e \in Entries : fd_table'[e] \in Descriptions \cup {NULL}
    <3> SUFFICES ASSUME NEW e \in Entries PROVE fd_table'[e] \in Descriptions \cup {NULL}
      BY Zenon
    <3>1. CASE \E m \in 1 .. n : Is(e, m)
      BY <1>1, <2>4, <3>1
    <3>2. CASE \A m \in 1 .. n : ~Is(e, m)
      BY <2>5, <2>6, <3>2, Zenon
    <3> QED
      BY <3>1, <3>2, Zenon
  <2> QED
    BY <2>2, <2>4, <2>5, <2>7, Zenon
<1>4. /\ \A m \in 1 .. n : handle'[D[m]] = hs[m] /\ refcount'[D[m]] = 1
      /\ \A d \in Descriptions : (\A m \in 1 .. n : d # D[m]) =>
             handle'[d] = handle[d] /\ refcount'[d] = refcount[d]
      /\ refcount' \in [Descriptions -> Int]
  <2>1. ASSUME NEW m \in 1 .. n
        PROVE  handle'[D[m]] = hs[m] /\ refcount'[D[m]] = 1
    <3>1. \A l \in 1 .. n : D[l] = D[m] <=> l = m
      BY <1>2, Zenon
    <3> QED
      BY <1>1, <3>1, Zenon DEF Install
  <2>2. ASSUME NEW d \in Descriptions, \A m \in 1 .. n : d # D[m]
        PROVE  handle'[d] = handle[d] /\ refcount'[d] = refcount[d]
    BY <1>1, <2>2, Zenon DEF Install
  <2>3. refcount' \in [Descriptions -> Int]
    BY HeldFacts DEF Install, Counted
  <2> QED
    BY <2>1, <2>2, <2>3, Zenon
<1>5. opens' \in [Handles -> Nat]
      /\ \A h \in Handles : opens'[h] = opens[h] + IF \E m \in 1 .. n : hs[m] = h THEN 1 ELSE 0
  <2>1. opens \in [Handles -> Nat]
    BY HeldFacts, Zenon DEF Counted
  <2>2. opens' = [h \in Handles |->
                    opens[h] + IF \E m \in 1 .. n : hs[m] = h THEN 1 ELSE 0]
    BY Zenon DEF Install
  <2> QED
    BY <2>1, <2>2
<1>6. /\ Held' = Held /\ task' = task /\ Calm' = Calm
      /\ \A m \in 1 .. n : <<p, E[m]>> \in Held
  BY <1>1, HeldFacts, Zenon DEF Install, Held, Calm
<1>7. /\ Now'.tab = fd_table' /\ Now'.ref = refcount' /\ Now'.opn = opens'
      /\ Now.tab = fd_table /\ Now.ref = refcount /\ Now.opn = opens
  BY Zenon DEF Now
<1>8. ASSUME NEW d \in Descriptions
      PROVE  /\ refcount'[d] <= PointTo(Now', Held, d)
             /\ Calm => refcount'[d] = PointTo(Now', Held, d)
  <2> DEFINE A == {e \in Held : fd_table[e] = d}
             B == {e \in Held : fd_table'[e] = d}
  <2>1. /\ IsFiniteSet(A) /\ Cardinality(A) \in Nat
        /\ refcount[d] \in Int /\ refcount[d] <= Cardinality(A)
        /\ Calm => refcount[d] = Cardinality(A)
    BY <1>7, HeldFacts, Finite DEF Counted, PointTo
  <2>2. CASE \A m \in 1 .. n : d # D[m]
    <3>1. B = A
      BY <1>1, <1>3, <2>2, NullIsNone, HeldFacts, SMTT(30)
    <3> QED
      BY <1>4, <1>7, <2>1, <2>2, <3>1, Zenon DEF PointTo
  <2>3. CASE \E m \in 1 .. n : d = D[m]
    <3>1. PICK m \in 1 .. n : d = D[m]
      BY <2>3, Zenon
    <3>2. B = A \cup {<<p, E[m]>>} /\ <<p, E[m]>> \notin A
      <4>1. \A l \in 1 .. n : fd_table'[<<p, E[l]>>] = d <=> l = m
        BY <1>2, <1>3, <3>1
      <4>2. \A l \in 1 .. n : fd_table[<<p, E[l]>>] # d
        BY <1>1, NullIsNone, Zenon
      <4> QED
        BY <1>3, <1>6, <4>1, <4>2, HeldFacts, SMTT(30)
    <3>3. Cardinality(B) = Cardinality(A) + 1
      <4> HIDE DEF A, B
      <4> QED
        BY <2>1, <3>2, FS_AddElement, Zenon
    <3>4. refcount'[d] = 1 /\ refcount[d] = 0
      BY <1>1, <1>4, <3>1, Zenon
    <3>5. PointTo(Now', Held, d) = Cardinality(B)
      BY <1>7, Zenon DEF PointTo
    <3> HIDE DEF A, B
    <3> QED
      BY <2>1, <3>3, <3>4, <3>5
  <2> QED
    BY <2>2, <2>3, Zenon
<1>9. ASSUME Calm
      PROVE  /\ \A e \in Entries \ Held : fd_table'[e] = NULL
             /\ \A d \in Descriptions : refcount'[d] > 0 => handle'[d] \in Handles
  <2>1. /\ \A e \in Entries \ Held : fd_table[e] = NULL
        /\ \A d \in Descriptions : refcount[d] > 0 => handle[d] \in Handles
    BY <1>7, <1>9, HeldFacts, Zenon DEF Counted
  <2> QED
    BY <1>3, <1>4, <1>6, <2>1
<1>10. ASSUME Calm, NEW h \in Handles
       PROVE  /\ Cardinality(LiveIn(Now, h)') <= opens'[h]
              /\ "truncate" \notin world.faulty => Cardinality(LiveIn(Now, h)') = opens'[h]
  <2> DEFINE A == {d \in Descriptions : refcount[d] > 0 /\ handle[d] = h}
             B == {d \in Descriptions : refcount'[d] > 0 /\ handle'[d] = h}
  <2>1. LiveIn(Now, h)' = B /\ LiveIn(Now, h) = A
    BY Zenon DEF LiveIn, Now
  <2>2. /\ IsFiniteSet(A) /\ Cardinality(A) \in Nat /\ opens[h] \in Nat
        /\ Cardinality(A) <= opens[h]
        /\ "truncate" \notin world.faulty => Cardinality(A) = opens[h]
    BY <1>7, <1>10, <2>1, HeldFacts, Finite, Zenon DEF Counted
  <2>0. \A m \in 1 .. n : D[m] \notin A
    <3> SUFFICES ASSUME NEW m \in 1 .. n, refcount[D[m]] > 0
                 PROVE  FALSE
      BY Zenon
    <3>1. refcount[D[m]] = 0
      BY <1>1, Zenon
    <3> QED
      BY <3>1
  <2>3. CASE \E m \in 1 .. n : hs[m] = h
    <3>1. PICK m \in 1 .. n : hs[m] = h
      BY <2>3, Zenon
    <3>2. \A l \in 1 .. n : handle'[D[l]] = h <=> l = m
      BY <1>4, <3>1
    <3>3. B = A \cup {D[m]} /\ D[m] \notin A
      <4>1. D[m] \notin A
        BY <2>0, Zenon
      <4>2. ASSUME NEW d \in Descriptions
            PROVE  d \in B <=> d \in A \cup {D[m]}
        <5>1. CASE \E l \in 1 .. n : d = D[l]
          <6>1. PICK l \in 1 .. n : d = D[l]
            BY <5>1, Zenon
          <6>2. d \in B <=> l = m
            BY <1>4, <3>2, <6>1
          <6>3. d \notin A
            BY <2>0, <6>1, Zenon
          <6>4. d = D[m] <=> l = m
            BY <1>2, <6>1, Zenon
          <6> QED
            BY <6>2, <6>3, <6>4, Zenon
        <5>2. CASE \A l \in 1 .. n : d # D[l]
          BY <1>4, <5>2, Zenon
        <5> QED
          BY <5>1, <5>2, Zenon
      <4>3. D[m] \in Descriptions
        BY <1>1, Zenon
      <4> QED
        BY <4>1, <4>2, <4>3, Zenon
    <3>4. Cardinality(B) = Cardinality(A) + 1
      <4> HIDE DEF A, B
      <4> QED
        BY <2>2, <3>3, FS_AddElement, Zenon
    <3>5. opens'[h] = opens[h] + 1
      BY <1>5, <2>3, Zenon
    <3> HIDE DEF A, B
    <3> QED
      BY <2>1, <2>2, <3>4, <3>5
  <2>4. CASE \A m \in 1 .. n : hs[m] # h
    <3>1. B = A
      <4> SUFFICES ASSUME NEW d \in Descriptions
                   PROVE  d \in B <=> d \in A
        BY Zenon
      <4>1. CASE \E l \in 1 .. n : d = D[l]
        BY <1>4, <2>4, <2>0, <4>1
      <4>2. CASE \A l \in 1 .. n : d # D[l]
        BY <1>4, <4>2, Zenon
      <4> QED
        BY <4>1, <4>2, Zenon
    <3>2. opens'[h] = opens[h]
      BY <1>5, <2>2, <2>4
    <3> HIDE DEF A, B
    <3> QED
      BY <2>1, <2>2, <3>1, <3>2, Zenon
  <2> QED
    BY <2>3, <2>4, Zenon
<1>11. Counted(Now, Held)'
  BY <1>3, <1>4, <1>5, <1>6, <1>7, <1>8, <1>9, <1>10, Zenon DEF Counted
<1> QED
  BY <1>6, <1>11, Zenon DEF FdInv

\* The handles that fd_open, fd_socket and pipe give to new descriptions.
LEMMA OpenStep ==
    ASSUME FdInv, UNCHANGED world, NEW p \in Procs, NEW f \in Files, NEW c,
           fd_open(p, f, c)
    PROVE  FdInv'
<1> DEFINE h == <<f, "FILE">>
<1>1. h \in Handles
  BY Zenon DEF Handles
<1>2. ASSUME NEW E \in Lowest(1, FreeFDs(p)), NEW D \in Lowest(1, FreeDescriptions),
             Install(p, E, D, <<h>>, c)
      PROVE  FdInv'
  <2> DEFINE hs == <<h>>
  <2>1. /\ DOMAIN hs = 1 .. 1 /\ \A m \in 1 .. 1 : hs[m] \in Handles
        /\ \A l, m \in 1 .. 1 : hs[l] = hs[m] => l = m
    BY <1>1
  <2>2. Install(p, E, D, hs, c) /\ task[p] = "live"
    BY <1>2, Zenon DEF fd_open
  <2> HIDE DEF hs, h
  <2> QED
    BY <2>1, <2>2, InstallKeeps, Zenon
<1>3. ASSUME "truncate" \in world.faulty, opens' = [opens EXCEPT ![h] = @ + 1],
             UNCHANGED <<task, fd_table, cloexec, refcount, handle>>
      PROVE  FdInv'
  <2> HIDE DEF h
  <2> DEFINE k == [Now EXCEPT !.opn = opens']
  <2>1. k.tab = fd_table /\ k.ref = refcount /\ k.opn = opens' /\ k.clo = cloexec
    BY Zenon DEF Now
  <2>2. Set(k)
    BY <1>3, <2>1, Zenon DEF Set
  <2> HIDE DEF k
  <2>3. opens \in [Handles -> Nat]
    BY HeldFacts, Zenon DEF Counted
  <2>4. opens' \in [Handles -> Nat] /\ \A x \in Handles : opens[x] <= opens'[x]
    <3>1. opens' \in [Handles -> Nat]
      BY <1>1, <1>3, <2>3
    <3>2. ASSUME NEW x \in Handles PROVE opens[x] <= opens'[x]
      <4>1. opens[x] \in Nat /\ (opens'[x] = opens[x] \/ opens'[x] = opens[x] + 1)
        BY <1>3, <2>3, Zenon
      <4> QED
        BY <4>1
    <3> QED
      BY <3>1, <3>2, Zenon
  <2>5. \A X, d : PointTo(k, X, d) = PointTo(Now, X, d)
    BY <2>1, HeldFacts, Zenon DEF PointTo
  <2>6. \A x : LiveIn(k, x) = LiveIn(Now, x)
    BY <2>1, HeldFacts, Zenon DEF LiveIn
  <2>7. ASSUME Calm, NEW x \in Handles
        PROVE  Cardinality(LiveIn(k, x)) <= opens'[x]
    <3>1. Cardinality(LiveIn(Now, x)) <= opens[x] /\ Cardinality(LiveIn(Now, x)) \in Nat
      BY <2>7, HeldFacts, Finite, Zenon DEF Counted, LiveIn
    <3>2. opens[x] \in Nat /\ opens'[x] \in Nat /\ opens[x] <= opens'[x]
      BY <2>3, <2>4, Zenon
    <3> QED
      BY <2>6, <3>1, <3>2
  <2>8. Counted(k, Held)
    BY <1>3, <2>1, <2>4, <2>5, <2>7, HeldFacts DEF Counted
  <2>9. Held' = Held /\ task' = task /\ handle' = handle
    BY <1>3, Zenon DEF Held
  <2> QED
    BY <2>2, <2>8, <2>9, SetKeeps, Zenon DEF FdInv
<1> QED
  BY <1>2, <1>3, Zenon DEF fd_open

\* socket.
LEMMA SocketStep ==
    ASSUME FdInv, UNCHANGED world, NEW p \in Procs, fd_socket(p)
    PROVE  FdInv'
<1>1. PICK s \in world.sockets : \E E \in Lowest(1, FreeFDs(p)),
              D \in Lowest(1, FreeDescriptions) :
                Install(p, E, D, <<<<s, "SOCKET">>>>, FALSE)
  BY Zenon DEF fd_socket
<1> DEFINE h == <<s, "SOCKET">>
           hs == <<h>>
<1>2. h \in Handles
  BY FdAssumption, Zenon DEF Handles, FdInv
<1>3. /\ DOMAIN hs = 1 .. 1 /\ \A m \in 1 .. 1 : hs[m] \in Handles
      /\ \A l, m \in 1 .. 1 : hs[l] = hs[m] => l = m
  BY <1>2
<1>4. task[p] = "live"
  BY Zenon DEF fd_socket
<1> HIDE DEF hs
<1> QED
  BY <1>1, <1>3, <1>4, InstallKeeps, Zenon DEF hs

\* pipe, which installs two descriptions.
LEMMA PipeStep ==
    ASSUME FdInv, UNCHANGED world, NEW p \in Procs, pipe(p)
    PROVE  FdInv'
<1>1. PICK o \in Pipes : \E E \in Lowest(2, FreeFDs(p)),
              D \in Lowest(2, FreeDescriptions) :
                Install(p, E, D, <<<<o, "READER">>, <<o, "WRITER">>>>, FALSE)
  BY Zenon DEF pipe
<1> DEFINE r == <<o, "READER">>
           w == <<o, "WRITER">>
           hs == <<r, w>>
<1>2. r \in Handles /\ w \in Handles /\ r # w
  BY Zenon DEF Handles
<1>3. /\ DOMAIN hs = 1 .. 2 /\ \A m \in 1 .. 2 : hs[m] \in Handles
      /\ \A l, m \in 1 .. 2 : hs[l] = hs[m] => l = m
  <2> HIDE DEF r, w
  <2> QED
    BY <1>2
<1>4. task[p] = "live"
  BY Zenon DEF pipe
<1> HIDE DEF hs
<1> QED
  BY <1>1, <1>3, <1>4, InstallKeeps, Zenon DEF hs

----------------------------------------------------------------------------
(* The invariant.                                                          *)

\* Before the first call every count is zero.
LEMMA FdInit == Init => FdInv
<1> SUFFICES ASSUME Init PROVE FdInv
  BY Zenon
<1>1. \A d : {e \in Held : fd_table[e] = d} = IF d = NULL THEN Held ELSE {}
  BY Zenon DEF Init, Held
<1>2. \A d \in Descriptions : PointTo(Now, Held, d) = 0
  BY <1>1, NullIsNone, FS_EmptySet, Zenon DEF PointTo, Now
<1>3. \A h : LiveIn(Now, h) = {}
  BY DEF LiveIn, Now, Init
<1>4. \A h : Cardinality(LiveIn(Now, h)) = 0
  BY <1>3, FS_EmptySet, Zenon
<1>5. /\ fd_table \in [Entries -> Descriptions \cup {NULL}]
      /\ refcount = [d \in Descriptions |-> 0] /\ opens = [h \in Handles |-> 0]
      /\ \A e \in Entries : fd_table[e] = NULL
  BY Zenon DEF Init
<1>6. Counted(Now, Held)
  BY <1>2, <1>4, <1>5 DEF Counted, Now
<1> QED
  BY <1>6, FdAssumption, Zenon DEF FdInv, Init

\* No call breaks the invariant.
LEMMA FdNext == FdInv /\ [Next]_<<vars, world>> => FdInv'
<1> SUFFICES ASSUME FdInv, [Next]_<<vars, world>> PROVE FdInv'
  BY Zenon
<1>1. CASE UNCHANGED <<vars, world>>
  BY <1>1 DEF vars, FdInv, Counted, Calm, LiveIn, PointTo, Now, Held
<1>2. CASE Next
  <2>1. UNCHANGED world /\ world.procs \in SUBSET Procs
    BY <1>2, HeldFacts, Zenon DEF Next
  <2>2. PICK p \in Procs :
        \/ \E f \in Files, c \in BOOLEAN : fd_open(p, f, c)
        \/ fd_socket(p) \/ pipe(p) \/ exit(p)
        \/ \E i \in FDs :
              \/ fd_close(p, i)
              \/ \E c \in BOOLEAN : set_cloexec(p, i, c)
              \/ \E j \in FDs, c \in BOOLEAN : dup(p, i, j, c)
              \/ \E j \in FDs : dup2(p, i, j)
        \/ \E q \in Procs :
              \/ fork(p, q) \/ execve(p, q) \/ spawn(p, q, {})
              \/ \E x \in FDs \X FDs : spawn(p, q, {x})
    BY <1>2, <2>1, Zenon DEF Next
  <2>3. CASE \E f \in Files, c \in BOOLEAN : fd_open(p, f, c)
    BY <2>1, <2>3, OpenStep, Zenon
  <2>4. CASE fd_socket(p)
    BY <2>1, <2>4, SocketStep, Zenon
  <2>5. CASE pipe(p)
    BY <2>1, <2>5, PipeStep
  <2>6. CASE exit(p)
    BY <2>1, <2>6, ExitStep
  <2>7. ASSUME NEW i \in FDs, fd_close(p, i) PROVE FdInv'
    BY <2>1, <2>7, CloseStep, Zenon
  <2>8. ASSUME NEW i \in FDs, NEW c \in BOOLEAN, set_cloexec(p, i, c) PROVE FdInv'
    BY <2>1, <2>8, SetCloexecStep, Zenon
  <2>9. ASSUME NEW i \in FDs, NEW j \in FDs, NEW c \in BOOLEAN, dup(p, i, j, c) PROVE FdInv'
    BY <2>1, <2>9, DupStep, Zenon
  <2>10. ASSUME NEW i \in FDs, NEW j \in FDs, dup2(p, i, j) PROVE FdInv'
    BY <2>1, <2>10, Dup2Step, Zenon
  <2>11. ASSUME NEW q \in Procs, fork(p, q) PROVE FdInv'
    BY <2>1, <2>11, ForkStep, Zenon
  <2>12. ASSUME NEW q \in Procs, execve(p, q) PROVE FdInv'
    BY <2>1, <2>12, ExecveStep, Zenon
  <2>13. ASSUME NEW q \in Procs, NEW dups \in SUBSET (FDs \X FDs), spawn(p, q, dups)
         PROVE  FdInv'
    BY <2>1, <2>13, SpawnStep, Zenon
  <2>14. ASSUME NEW q \in Procs, spawn(p, q, {}) \/ \E x \in FDs \X FDs : spawn(p, q, {x})
         PROVE  FdInv'
    BY <2>13, <2>14, Zenon
  <2> QED
    BY <2>2, <2>3, <2>4, <2>5, <2>6, <2>7, <2>8, <2>9, <2>10, <2>11, <2>12, <2>14, Zenon
<1> QED
  BY <1>1, <1>2, Zenon

\* The counts are right in every reachable state.
THEOREM FdInvariant == Spec => []FdInv
BY FdInit, FdNext, PTL DEF Spec

\* RefcountExact, from the part of the invariant about the tables: no entry
\* outside the tables of existing tasks points anywhere unless a close failed.
THEOREM RefcountsAreExact == Spec => []RefcountExact
<1>1. FdInv => RefcountExact
  <2> SUFFICES ASSUME FdInv, NEW d \in Descriptions
               PROVE  /\ refcount[d] <= Cardinality(PointingTo(d))
                      /\ Calm => refcount[d] = Cardinality(PointingTo(d))
    BY Zenon DEF RefcountExact, Calm
  <2> DEFINE A == {e \in Held : fd_table[e] = d}
  <2>1. /\ refcount[d] <= Cardinality(A) /\ refcount[d] \in Int
        /\ Calm => refcount[d] = Cardinality(A)
    BY HeldFacts DEF Counted, PointTo
  <2>2. A \subseteq PointingTo(d) /\ PointingTo(d) \subseteq Entries
    BY HeldFacts, Zenon DEF PointingTo
  <2>3. /\ Cardinality(A) \in Nat /\ Cardinality(PointingTo(d)) \in Nat
        /\ Cardinality(A) <= Cardinality(PointingTo(d))
    <3> HIDE DEF A
    <3> QED
      BY <2>2, Finite, FS_Subset, Zenon
  <2>4. Calm => PointingTo(d) = A
    <3>1. Calm => \A e \in Entries \ Held : fd_table[e] = NULL
      BY HeldFacts, Zenon DEF Counted
    <3> QED
      BY <3>1, HeldFacts, NullIsNone, Zenon DEF PointingTo
  <2> HIDE DEF A
  <2> QED
    BY <2>1, <2>3, <2>4
<1> QED
  BY <1>1, FdInvariant, PTL

\* OpensExact: what stands behind the descriptions is counted as exactly.
THEOREM OpensAreExact == Spec => []OpensExact
<1>1. FdInv => OpensExact
  BY HeldFacts, Zenon DEF OpensExact, Counted, Calm, LiveIn, Live
<1> QED
  BY <1>1, FdInvariant, PTL

\* NoUseAfterClose: an entry points to a description with a count of at least
\* one, so what the description stands for has not been given back.
THEOREM NothingIsUsedAfterClose == Spec => []NoUseAfterClose
<1>1. FdInv => NoUseAfterClose
  <2> SUFFICES ASSUME FdInv, Calm, NEW e \in Entries, fd_table[e] # NULL
               PROVE  opens[handle[fd_table[e]]] > 0
    BY Zenon DEF NoUseAfterClose, Calm
  <2> DEFINE d == fd_table[e]
             h == handle[d]
             A == {x \in Held : fd_table[x] = d}
             L == LiveIn(Now, h)
  <2>1. d \in Descriptions /\ e \in A
    BY HeldFacts, Zenon DEF Counted
  <2>2. refcount[d] = Cardinality(A) /\ A \subseteq Entries
    BY <2>1, HeldFacts DEF Counted, PointTo
  <2>3. refcount[d] > 0
    <3> HIDE DEF A
    <3>1. IsFiniteSet(A) /\ Cardinality(A) \in Nat
      BY <2>2, Finite, Zenon
    <3>2. Cardinality(A) # 0
      BY <2>1, <3>1, FS_EmptySet, Zenon
    <3> QED
      BY <2>2, <3>1, <3>2
  <2>4. h \in Handles /\ d \in L /\ L \subseteq Descriptions
    BY <2>1, <2>3, HeldFacts, Zenon DEF Counted, LiveIn
  <2>5. Cardinality(L) <= opens[h] /\ opens[h] \in Nat
    BY <2>4, HeldFacts, Zenon DEF Counted
  <2>6. Cardinality(L) \in Nat /\ Cardinality(L) # 0
    <3> HIDE DEF L
    <3>1. IsFiniteSet(L) /\ Cardinality(L) \in Nat
      BY <2>4, Finite, Zenon
    <3> QED
      BY <2>4, <3>1, FS_EmptySet, Zenon
  <2> HIDE DEF L, h, A
  <2>7. opens[h] > 0
    BY <2>5, <2>6
  <2> QED
    BY <2>7, Zenon DEF h
<1> QED
  BY <1>1, FdInvariant, PTL

----------------------------------------------------------------------------
(* The kernel heap.  HeapInv says that the entries tile the heap, and that *)
(* the taken ones are the allocations that are held.  The first half alone *)
(* does not rule out that alloc_region meets a mapped page; it takes the   *)
(* second to know that a free entry has none.                              *)

\* Page p lies in the run of n pages from s.
Within(p, s, n) == s <= p /\ p < s + n

LEMMA RunIsInterval ==
    ASSUME NEW s \in Int, NEW n \in Int
    PROVE  /\ Run(s, n) \subseteq Int
           /\ \A p \in Int : p \in Run(s, n) <=> Within(p, s, n)
  BY DEF Run, Within

\* The entries of the table while the kernel runs, in terms of numbers.
LEMMA TableFacts ==
    ASSUME HeapInv, panicked = "no"
    PROVE  /\ map_index \in Nat /\ map_index >= 1 /\ map_index < ALLOC_MAP_SIZE
           /\ \A i \in UsedSlots : /\ i \in MapSlots
                              /\ map[i].start \in Nat /\ map[i].pages \in Nat
                              /\ map[i].pages >= 1 /\ map[i].free \in BOOLEAN
                              /\ map[i].start + map[i].pages <= HeapPages
           /\ \A i, j \in UsedSlots : i # j => \A p \in Int :
                ~(/\ Within(p, map[i].start, map[i].pages)
                  /\ Within(p, map[j].start, map[j].pages))
           /\ \A p \in KernelPages : \E i \in UsedSlots : Within(p, map[i].start, map[i].pages)
<1>1. /\ map_index \in Nat /\ map_index >= 1 /\ map_index < ALLOC_MAP_SIZE
      /\ \A i \in UsedSlots : i \in MapSlots
  BY HeapAssumption DEF HeapInv, HeapTypeOK, HeldAreTaken, UsedSlots, MapSlots
<1>2. \A i \in UsedSlots : /\ map[i].start \in Nat /\ map[i].pages \in Nat
                      /\ map[i].pages >= 1 /\ map[i].free \in BOOLEAN
                      /\ map[i].start + map[i].pages <= HeapPages
  <2>1. \A i \in MapSlots : map[i] \in [start : 0 .. HeapPages, pages : 0 .. HeapPages,
                                     free : BOOLEAN]
    BY Zenon DEF HeapInv, HeapTypeOK
  <2>2. \A i \in MapSlots : /\ map[i].start \in Nat /\ map[i].pages \in Nat
                         /\ map[i].free \in BOOLEAN
    BY <2>1, HeapAssumption
  <2> QED BY <1>1, <2>2, Zenon DEF HeapInv, HeldAreTaken
<1>3. \A i, j \in UsedSlots : i # j => \A p \in Int :
        ~(/\ Within(p, map[i].start, map[i].pages)
          /\ Within(p, map[j].start, map[j].pages))
  <2> SUFFICES ASSUME NEW i \in UsedSlots, NEW j \in UsedSlots, i # j, NEW p \in Int,
                      Within(p, map[i].start, map[i].pages),
                      Within(p, map[j].start, map[j].pages)
               PROVE  FALSE
    BY Zenon
  <2>1. p \in Region(i) /\ p \in Region(j)
    BY <1>2, RunIsInterval DEF Region
  <2> QED BY <2>1, Zenon DEF HeapInv, RegionsTile
<1>4. \A p \in KernelPages : \E i \in UsedSlots : Within(p, map[i].start, map[i].pages)
  <2>1. \A p \in KernelPages : p \in Int
    BY HeapAssumption DEF KernelPages
  <2> QED BY <1>2, <2>1, RunIsInterval DEF HeapInv, RegionsTile, Region
<1> QED BY <1>1, <1>2, <1>3, <1>4, Zenon

\* A mapped page lies in an entry that is taken.
LEMMA MappedIsTaken ==
    ASSUME HeapInv, panicked = "no", NEW p \in mapped
    PROVE  /\ p \in Int
           /\ \E j \in UsedSlots : ~map[j].free /\ Within(p, map[j].start, map[j].pages)
<1>1. p \in Int
  BY HeapAssumption DEF HeapInv, HeapTypeOK, KernelPages
<1>2. PICK a \in held : p \in Run(a.start, a.pages)
  BY Zenon DEF HeapInv, OnlyHeldMapped
<1>3. PICK j \in UsedSlots : ~map[j].free /\ map[j].start = a.start /\ map[j].pages = a.pages
  BY Zenon DEF HeapInv, HeldAreTaken
<1>4. Within(p, map[j].start, map[j].pages)
  BY <1>1, <1>2, <1>3, TableFacts, RunIsInterval
<1> QED BY <1>1, <1>3, <1>4, Zenon

\* What the two halves of the invariant on the table say in the next state,
\* in terms of numbers.
LEMMA TableFromFacts ==
    ASSUME map_index' \in Nat,
           \A i \in UsedSlots' : map'[i].start \in Nat /\ map'[i].pages \in Nat,
           \A i, j \in UsedSlots' : i # j => \A p \in Int :
                ~(/\ Within(p, map'[i].start, map'[i].pages)
                  /\ Within(p, map'[j].start, map'[j].pages)),
           \A p \in KernelPages : \E i \in UsedSlots' : Within(p, map'[i].start, map'[i].pages)
    PROVE  RegionsTile'
<1>1. \A i \in UsedSlots' : /\ Run(map'[i].start, map'[i].pages) \subseteq Int
                       /\ \A p \in Int : p \in Run(map'[i].start, map'[i].pages)
                                        <=> Within(p, map'[i].start, map'[i].pages)
  BY RunIsInterval
<1>2. \A p \in KernelPages : p \in Int
  BY HeapAssumption DEF KernelPages
<1>3. ASSUME NEW i \in UsedSlots', NEW j \in UsedSlots', i # j
      PROVE  Run(map'[i].start, map'[i].pages) \cap Run(map'[j].start, map'[j].pages) = {}
  BY <1>1, <1>3, Zenon
<1> QED BY <1>1, <1>2, <1>3, Zenon DEF RegionsTile, Region

\* An entry that is free and large enough has no page mapped.
LEMMA FreeIsUnmapped ==
    ASSUME HeapInv, panicked = "no", NEW i \in UsedSlots, map[i].free,
           NEW n \in Nat, n <= map[i].pages
    PROVE  Run(map[i].start, n) \cap mapped = {}
<1> SUFFICES ASSUME NEW p \in mapped, p \in Run(map[i].start, n)
             PROVE  FALSE
  BY Zenon
<1>1. p \in Int
  BY MappedIsTaken, Zenon
<1>2. PICK j \in UsedSlots : ~map[j].free /\ Within(p, map[j].start, map[j].pages)
  BY MappedIsTaken, Zenon
<1>3. map[i].start \in Nat /\ map[i].pages \in Nat
  BY TableFacts, Zenon
<1>4. Within(p, map[i].start, n)
  BY <1>1, <1>3, RunIsInterval
<1>5. Within(p, map[i].start, map[i].pages)
  BY <1>1, <1>3, <1>4 DEF Within
<1> QED BY <1>1, <1>2, <1>5, TableFacts, Zenon

\* find_available_va cuts entry i: the pieces it leaves still tile the heap.
LEMMA TakeKeepsTiles ==
    ASSUME HeapInv, panicked = "no", NEW n \in Requests, NEW i \in UsedSlots, Fits(i, n),
           map' = Take(i, n),
           map_index' = map_index + (IF map[i].pages > n THEN 1 ELSE 0),
           map_index' < ALLOC_MAP_SIZE
    PROVE  /\ RegionsTile'
           /\ UsedSlots \subseteq UsedSlots' /\ UsedSlots' \subseteq MapSlots
           /\ map' \in [MapSlots -> [start : 0 .. HeapPages, pages : 0 .. HeapPages,
                                  free : BOOLEAN]]
           /\ ~map'[i].free /\ map'[i].start = map[i].start /\ map'[i].pages = n
           /\ \A j \in UsedSlots \ {i} : map'[j] = map[j]
           /\ \A j \in UsedSlots' \ UsedSlots : map'[j].free
           /\ \A j \in UsedSlots' : map'[j].pages >= 1 /\ map'[j].start + map'[j].pages <= HeapPages
<1> DEFINE s == map[i].start
           p == map[i].pages
           k == map_index
<1>1. /\ i \in MapSlots /\ k \in MapSlots /\ k \notin UsedSlots /\ i # k
      /\ k \in Nat /\ k < ALLOC_MAP_SIZE /\ UsedSlots \subseteq MapSlots
  BY TableFacts, HeapAssumption DEF MapSlots, UsedSlots
<1>2. /\ s \in Nat /\ p \in Nat /\ n \in Nat /\ 1 <= n /\ n <= p
      /\ s + p <= HeapPages /\ HeapPages \in Nat
  BY TableFacts, HeapAssumption DEF Fits, Requests
<1>3. map \in [MapSlots -> [start : 0 .. HeapPages, pages : 0 .. HeapPages, free : BOOLEAN]]
  BY Zenon DEF HeapInv, HeapTypeOK
<1>4. CASE p > n
  <2>1. /\ map'[i] = [start |-> s, pages |-> n, free |-> FALSE]
        /\ map'[k] = [start |-> s + n, pages |-> p - n, free |-> TRUE]
        /\ \A j \in MapSlots \ {i, k} : map'[j] = map[j]
        /\ DOMAIN map' = MapSlots
        /\ map' = [j \in MapSlots |-> map'[j]]
    BY <1>1, <1>3, <1>4, Zenon DEF Take, Rest
  <2>2. map_index' = k + 1 /\ UsedSlots' = UsedSlots \cup {k}
    BY <1>1, <1>4 DEF UsedSlots
  <2>3. map' \in [MapSlots -> [start : 0 .. HeapPages, pages : 0 .. HeapPages,
                           free : BOOLEAN]]
    <3>1. /\ map'[i] \in [start : 0 .. HeapPages, pages : 0 .. HeapPages, free : BOOLEAN]
          /\ map'[k] \in [start : 0 .. HeapPages, pages : 0 .. HeapPages, free : BOOLEAN]
      BY <1>2, <2>1
    <3> QED BY <1>3, <2>1, <3>1, Zenon
  <2>4. /\ map'[i].start = s /\ map'[i].pages = n /\ ~map'[i].free
        /\ map'[k].start = s + n /\ map'[k].pages = p - n /\ map'[k].free
    BY <2>1
  <2>5. \A j \in UsedSlots \ {i} : map'[j] = map[j]
    BY <1>1, <2>1, Zenon
  <2>6. \A q \in Int : /\ Within(q, s, n) => Within(q, s, p)
                       /\ Within(q, s + n, p - n) => Within(q, s, p) /\ ~Within(q, s, n)
                       /\ Within(q, s, p) => Within(q, s, n) \/ Within(q, s + n, p - n)
    BY <1>2, SMTT(30) DEF Within
  <2>7. \A j \in UsedSlots' : /\ map'[j].start \in Nat /\ map'[j].pages \in Nat
                         /\ map'[j].pages >= 1
                         /\ map'[j].start + map'[j].pages <= HeapPages
    <3>1. s + n \in Nat /\ p - n \in Nat /\ p - n >= 1 /\ s + n + (p - n) <= HeapPages
          /\ s + n <= HeapPages
      BY <1>2, <1>4, SMTT(30)
    <3> QED BY <1>2, <2>2, <2>4, <2>5, <3>1, TableFacts, SMTT(30)
  <2>8. \A x, y \in UsedSlots' : x # y => \A q \in Int :
            ~(/\ Within(q, map'[x].start, map'[x].pages)
              /\ Within(q, map'[y].start, map'[y].pages))
    <3>1. \A x, y \in UsedSlots : x # y => \A q \in Int :
            ~(/\ Within(q, map[x].start, map[x].pages)
              /\ Within(q, map[y].start, map[y].pages))
      BY TableFacts, Zenon
    <3> QED BY <2>2, <2>4, <2>5, <2>6, <3>1
  <2>9. \A q \in KernelPages : \E x \in UsedSlots' : Within(q, map'[x].start, map'[x].pages)
    <3>1. \A q \in KernelPages : q \in Int
      BY HeapAssumption DEF KernelPages
    <3>2. \A q \in KernelPages : \E x \in UsedSlots : Within(q, map[x].start, map[x].pages)
      BY TableFacts, Zenon
    <3> QED BY <2>2, <2>4, <2>5, <2>6, <3>1, <3>2, SMTT(30)
  <2>10. RegionsTile'
    BY <1>1, <2>2, <2>7, <2>8, <2>9, TableFromFacts, SMTT(30)
  <2> QED BY <1>1, <2>2, <2>3, <2>4, <2>5, <2>7, <2>10, Zenon
<1>5. CASE ~(p > n)
  <2>1. p = n
    BY <1>2, <1>5
  <2>2. /\ map'[i] = [start |-> s, pages |-> n, free |-> FALSE]
        /\ \A j \in MapSlots \ {i} : map'[j] = map[j]
        /\ map' \in [MapSlots -> [start : 0 .. HeapPages, pages : 0 .. HeapPages,
                               free : BOOLEAN]]
    <3>1. map' = [map EXCEPT ![i].free = FALSE]
      BY <1>5, Zenon DEF Take
    <3> QED BY <1>1, <1>3, <2>1, <3>1, ZenonT(30)
  <2>3. map_index' = k /\ UsedSlots' = UsedSlots
    BY <1>1, <1>5 DEF UsedSlots
  <2>4. \A j \in UsedSlots : map'[j].start = map[j].start /\ map'[j].pages = map[j].pages
    BY <1>1, <2>1, <2>2
  <2>5. RegionsTile'
    <3>1. \A x, y \in UsedSlots' : x # y => \A q \in Int :
            ~(/\ Within(q, map'[x].start, map'[x].pages)
              /\ Within(q, map'[y].start, map'[y].pages))
      BY <2>3, <2>4, TableFacts
    <3>2. \A q \in KernelPages : \E x \in UsedSlots' : Within(q, map'[x].start, map'[x].pages)
      BY <2>3, <2>4, TableFacts, Zenon
    <3>3. \A x \in UsedSlots' : map'[x].start \in Nat /\ map'[x].pages \in Nat
      BY <2>3, <2>4, TableFacts, Zenon
    <3> QED BY <1>1, <2>3, <3>1, <3>2, <3>3, TableFromFacts, Zenon
  <2> QED BY <1>1, <2>2, <2>3, <2>4, <2>5, TableFacts
<1> QED BY <1>4, <1>5, Zenon

\* What kmalloc hands out shares no page with what is held.
LEMMA KmallocKeepsInv ==
    ASSUME HeapInv, panicked = "no", NEW n \in Requests, kmalloc(n)
    PROVE  HeapInv'
<1>1. CASE /\ panicked' = "Out of kernel heap addresses"
           /\ UNCHANGED <<map, map_index, mapped, held>>
  BY <1>1, Zenon DEF HeapInv, HeapTypeOK, RegionsTile, HeldAreTaken, HeldAreDisjoint, OnlyHeldMapped
<1>2. ASSUME NEW i \in UsedSlots, FirstFit(i, n),
             map_index + (IF map[i].pages > n THEN 1 ELSE 0) >= ALLOC_MAP_SIZE,
             map' = [map EXCEPT ![map_index] = Rest(i, n)],
             map_index' = map_index + (IF map[i].pages > n THEN 1 ELSE 0),
             panicked' = "Too many kernel allocations",
             UNCHANGED <<mapped, held>>
      PROVE  HeapInv'
  <2>1. /\ map_index' \in 1 .. ALLOC_MAP_SIZE /\ map_index \in MapSlots
        /\ map[i].pages > n
    <3>1. map_index \in Nat /\ 1 <= map_index /\ map_index < ALLOC_MAP_SIZE
      BY TableFacts, Zenon
    <3>2. ALLOC_MAP_SIZE \in Nat
      BY HeapAssumption, Zenon
    <3>3. map[i].pages > n /\ map_index' = map_index + 1
      <4>1. CASE map[i].pages > n
        BY <1>2, <4>1, Zenon
      <4>2. CASE ~(map[i].pages > n)
        <5>1. map_index + 0 >= ALLOC_MAP_SIZE
          BY <1>2, <4>2, Zenon
        <5> QED BY <3>1, <3>2, <5>1
      <4> QED BY <4>1, <4>2, Zenon
    <3> QED BY <3>1, <3>2, <3>3 DEF MapSlots
  <2>2. Rest(i, n) \in [start : 0 .. HeapPages, pages : 0 .. HeapPages, free : BOOLEAN]
    <3>1. /\ map[i].start \in Nat /\ map[i].pages \in Nat /\ n \in Nat
          /\ map[i].start + map[i].pages <= HeapPages
      BY TableFacts DEF Requests
    <3>2. map[i].start + n \in 0 .. HeapPages /\ map[i].pages - n \in 0 .. HeapPages
      BY <2>1, <3>1, HeapAssumption
    <3> QED BY <3>2, Zenon DEF Rest
  <2>3. HeapTypeOK'
    BY <1>2, <2>1, <2>2, Zenon DEF HeapInv, HeapTypeOK
  <2> QED BY <1>2, <2>3, Zenon DEF HeapInv, RegionsTile, HeldAreTaken, HeldAreDisjoint, OnlyHeldMapped
<1>3. ASSUME NEW i \in UsedSlots, FirstFit(i, n),
             map_index + (IF map[i].pages > n THEN 1 ELSE 0) < ALLOC_MAP_SIZE,
             map' = Take(i, n),
             map_index' = map_index + (IF map[i].pages > n THEN 1 ELSE 0),
             panicked' = panicked,
             mapped' = mapped \cup Run(map[i].start, n),
             held' = held \cup {[start |-> map[i].start, pages |-> n]},
             Run(map[i].start, n) \cap mapped = {}
      PROVE  HeapInv'
  <2> DEFINE s == map[i].start
             new == [start |-> s, pages |-> n]
  <2>1. Fits(i, n)
    BY <1>3, Zenon DEF FirstFit
  <2>2. /\ RegionsTile'
        /\ UsedSlots \subseteq UsedSlots' /\ UsedSlots' \subseteq MapSlots
        /\ map' \in [MapSlots -> [start : 0 .. HeapPages, pages : 0 .. HeapPages,
                               free : BOOLEAN]]
        /\ ~map'[i].free /\ map'[i].start = s /\ map'[i].pages = n
        /\ \A j \in UsedSlots \ {i} : map'[j] = map[j]
        /\ \A j \in UsedSlots' \ UsedSlots : map'[j].free
        /\ \A j \in UsedSlots' : /\ map'[j].pages >= 1
                            /\ map'[j].start + map'[j].pages <= HeapPages
    BY <1>3, <2>1, TakeKeepsTiles, Zenon
  <2>3. /\ s \in Nat /\ n \in Nat /\ 1 <= n /\ s + n <= HeapPages /\ map[i].free
    <3>1. n \in Nat /\ 1 <= n
      BY HeapAssumption DEF Requests
    <3>2. /\ map[i].pages \in Nat /\ s \in Nat /\ s + map[i].pages <= HeapPages
          /\ map[i].free /\ map[i].pages >= n
      BY <2>1, TableFacts, Zenon DEF Fits
    <3> QED BY <3>1, <3>2, HeapAssumption
  <2>4. Run(s, n) \subseteq KernelPages
    BY <2>3, HeapAssumption DEF Run, KernelPages
  <2>5. HeapTypeOK'
    <3>1. map_index' \in 1 .. ALLOC_MAP_SIZE
      BY <1>3, TableFacts, HeapAssumption, SMTT(30)
    <3>2. new \in [start : 0 .. HeapPages, pages : 1 .. HeapPages]
      BY <2>3, HeapAssumption
    <3> QED BY <1>3, <2>2, <2>4, <3>1, <3>2, Zenon DEF HeapInv, HeapTypeOK
  <2>6. HeldAreTaken'
    <3>1. \A a \in held : \E j \in UsedSlots :
            j # i /\ ~map[j].free /\ map[j].start = a.start /\ map[j].pages = a.pages
      BY <2>3, Zenon DEF HeapInv, HeldAreTaken
    <3>2. \A a \in held' : \E j \in UsedSlots' :
            ~map'[j].free /\ map'[j].start = a.start /\ map'[j].pages = a.pages
      BY <1>3, <2>2, <3>1
    <3>3. \A j \in UsedSlots' : ~map'[j].free
            => [start |-> map'[j].start, pages |-> map'[j].pages] \in held'
      <4>1. \A j \in UsedSlots \ {i} : ~map[j].free
              => [start |-> map[j].start, pages |-> map[j].pages] \in held
        BY Zenon DEF HeapInv, HeldAreTaken
      <4> QED BY <1>3, <2>2, <4>1, Zenon
    <3> QED BY <1>3, <2>2, <3>2, <3>3, Zenon DEF HeldAreTaken
  <2>7. HeldAreDisjoint'
    <3>1. \A a \in held : Run(a.start, a.pages) \subseteq mapped
      BY Zenon DEF HeapInv, HeldAreDisjoint
    <3>2. Run(new.start, new.pages) = Run(s, n)
      BY Zenon
    <3>3. \A a, b \in held : a # b => Run(a.start, a.pages) \cap Run(b.start, b.pages) = {}
      BY Zenon DEF HeapInv, HeldAreDisjoint
    <3>4. \A a \in held : Run(a.start, a.pages) \cap Run(new.start, new.pages) = {}
      BY <1>3, <3>1, <3>2, Zenon
    <3>5. held' = held \cup {new} /\ mapped' = mapped \cup Run(new.start, new.pages)
      BY <1>3, <3>2, Zenon
    <3> HIDE DEF new
    <3> QED BY <3>1, <3>3, <3>4, <3>5, Zenon DEF HeldAreDisjoint
  <2>8. OnlyHeldMapped'
    <3>1. Run(new.start, new.pages) = Run(s, n) /\ new \in held'
      BY <1>3, Zenon
    <3> QED BY <1>3, <3>1, Zenon DEF HeapInv, OnlyHeldMapped
  <2> QED BY <2>2, <2>5, <2>6, <2>7, <2>8, Zenon DEF HeapInv
<1>4. ASSUME NEW i \in UsedSlots, FirstFit(i, n)
      PROVE  Run(map[i].start, n) \cap mapped = {}
  BY <1>4, FreeIsUnmapped, TableFacts DEF FirstFit, Fits, Requests
<1>5. map_index \in Nat /\ ALLOC_MAP_SIZE \in Nat
  BY TableFacts, HeapAssumption, Zenon
<1>6. CASE \A i \in UsedSlots : ~Fits(i, n)
  <2>1. ~\E i \in UsedSlots : FirstFit(i, n)
    BY <1>6, Zenon DEF FirstFit
  <2> QED BY <1>1, <2>1, Zenon DEF kmalloc
<1>7. CASE ~\A i \in UsedSlots : ~Fits(i, n)
  <2>1. PICK i \in UsedSlots :
          LET grown == map_index + (IF map[i].pages > n THEN 1 ELSE 0)
              run == Run(map[i].start, n)
              full == grown >= ALLOC_MAP_SIZE
              clash == run \cap mapped # {}
          IN /\ FirstFit(i, n)
             /\ map' = IF full THEN [map EXCEPT ![map_index] = Rest(i, n)] ELSE Take(i, n)
             /\ map_index' = grown
             /\ panicked' = IF full THEN "Too many kernel allocations"
                            ELSE IF clash THEN "already mapped" ELSE panicked
             /\ mapped' = IF full \/ clash THEN mapped ELSE mapped \cup run
             /\ held' = IF full \/ clash THEN held
                        ELSE held \cup {[start |-> map[i].start, pages |-> n]}
    BY <1>7, Zenon DEF kmalloc
  <2>2. CASE map_index + (IF map[i].pages > n THEN 1 ELSE 0) >= ALLOC_MAP_SIZE
    BY <1>2, <2>1, <2>2, Zenon
  <2>3. CASE ~(map_index + (IF map[i].pages > n THEN 1 ELSE 0) >= ALLOC_MAP_SIZE)
    <3>1. map_index + (IF map[i].pages > n THEN 1 ELSE 0) < ALLOC_MAP_SIZE
      BY <1>5, <2>3
    <3>2. Run(map[i].start, n) \cap mapped = {}
      BY <1>4, <2>1, Zenon
    <3> QED BY <1>3, <2>1, <2>3, <3>1, <3>2, Zenon
  <2> QED BY <2>2, <2>3, Zenon
<1> QED BY <1>6, <1>7, Zenon

\* Equal starts mean the same entry, so kfree unmaps what its caller holds.
LEMMA KfreeKeepsInv ==
    ASSUME HeapInv, panicked = "no", NEW a \in held, kfree(a)
    PROVE  HeapInv'
<1>1. PICK i \in UsedSlots :
        /\ map[i].start = a.start
        /\ \A j \in UsedSlots : map[j].start = a.start => j <= i
        /\ mapped' = mapped \ Region(i)
        /\ map' = [map EXCEPT ![i].free = TRUE]
  BY Zenon DEF kfree, Unmap
<1>2. held' = held \ {a} /\ UNCHANGED <<map_index, panicked>> /\ UsedSlots' = UsedSlots
  BY Zenon DEF kfree, UsedSlots
<1>3. \A x, y \in UsedSlots : map[x].start = map[y].start => x = y
  <2> SUFFICES ASSUME NEW x \in UsedSlots, NEW y \in UsedSlots,
                      map[x].start = map[y].start, x # y
               PROVE  FALSE
    BY Zenon
  <2>1. /\ map[x].start \in Nat /\ map[x].pages \in Nat /\ map[x].pages >= 1
        /\ map[y].start \in Nat /\ map[y].pages \in Nat /\ map[y].pages >= 1
    BY TableFacts, Zenon
  <2>2. /\ Within(map[x].start, map[x].start, map[x].pages)
        /\ Within(map[x].start, map[y].start, map[y].pages)
    BY <2>1 DEF Within
  <2>3. map[x].start \in Int
    BY <2>1
  <2> QED BY <2>2, <2>3, TableFacts, Zenon
<1>4. ~map[i].free /\ map[i].pages = a.pages /\ Region(i) = Run(a.start, a.pages)
  <2>1. PICK j \in UsedSlots :
          ~map[j].free /\ map[j].start = a.start /\ map[j].pages = a.pages
    BY Zenon DEF HeapInv, HeldAreTaken
  <2>2. j = i
    BY <1>1, <1>3, <2>1, Zenon
  <2> QED BY <1>1, <2>1, <2>2, Zenon DEF Region
<1>5. /\ map' \in [MapSlots -> [start : 0 .. HeapPages, pages : 0 .. HeapPages, free : BOOLEAN]]
      /\ map'[i].free
      /\ \A j \in UsedSlots : map'[j].start = map[j].start /\ map'[j].pages = map[j].pages
      /\ \A j \in UsedSlots \ {i} : map'[j] = map[j]
  <2>1. i \in MapSlots /\ UsedSlots \subseteq MapSlots
    BY TableFacts, Zenon
  <2>2. map \in [MapSlots -> [start : 0 .. HeapPages, pages : 0 .. HeapPages, free : BOOLEAN]]
    BY Zenon DEF HeapInv, HeapTypeOK
  <2> QED BY <1>1, <2>1, <2>2, Zenon
<1>6. HeapTypeOK'
  BY <1>1, <1>2, <1>5, Zenon DEF HeapInv, HeapTypeOK
<1>7. RegionsTile'
  BY <1>2, <1>5, Zenon DEF HeapInv, RegionsTile, Region
<1>8. HeldAreTaken'
  <2>1. \A b \in held \ {a} : \E j \in UsedSlots \ {i} :
          ~map[j].free /\ map[j].start = b.start /\ map[j].pages = b.pages
    <3> SUFFICES ASSUME NEW b \in held, b # a
                 PROVE  \E j \in UsedSlots \ {i} :
                          ~map[j].free /\ map[j].start = b.start /\ map[j].pages = b.pages
      BY Zenon
    <3>1. PICK j \in UsedSlots : ~map[j].free /\ map[j].start = b.start /\ map[j].pages = b.pages
      BY Zenon DEF HeapInv, HeldAreTaken
    <3>2. a \in [start : 0 .. HeapPages, pages : 1 .. HeapPages]
          /\ b \in [start : 0 .. HeapPages, pages : 1 .. HeapPages]
      BY Zenon DEF HeapInv, HeapTypeOK
    <3>3. ~(b.start = a.start /\ b.pages = a.pages)
      BY <3>2
    <3>4. j # i
      BY <1>1, <1>4, <3>1, <3>3, Zenon
    <3> QED BY <3>1, <3>4, Zenon
  <2>2. \A j \in UsedSlots \ {i} : ~map[j].free =>
          /\ [start |-> map[j].start, pages |-> map[j].pages] \in held
          /\ [start |-> map[j].start, pages |-> map[j].pages] # a
    BY <1>1, <1>3 DEF HeapInv, HeldAreTaken
  <2>3. /\ map_index < ALLOC_MAP_SIZE
        /\ \A j \in UsedSlots : map[j].pages >= 1 /\ map[j].start + map[j].pages <= HeapPages
    BY TableFacts, Zenon
  <2> QED BY <1>2, <1>5, <2>1, <2>2, <2>3 DEF HeldAreTaken
<1>9. HeldAreDisjoint' /\ OnlyHeldMapped'
  <2>1. mapped' = mapped \ Run(a.start, a.pages)
    BY <1>1, <1>4, Zenon
  <2> QED BY <1>2, <2>1, Zenon DEF HeapInv, HeldAreDisjoint, OnlyHeldMapped
<1> QED BY <1>6, <1>7, <1>8, <1>9, Zenon DEF HeapInv

\* The invariant holds in every state, for a heap and a table of any size.
THEOREM HeapInvariant == HeapSpec => []HeapInv
<1>1. HeapInit => HeapInv
  <2> SUFFICES ASSUME HeapInit PROVE HeapInv
    OBVIOUS
  <2>1. 0 \in MapSlots /\ UsedSlots = {0} /\ map_index \in 1 .. ALLOC_MAP_SIZE
        /\ map_index < ALLOC_MAP_SIZE
    BY HeapAssumption DEF HeapInit, MapSlots, UsedSlots
  <2>2. map[0].start = 0 /\ map[0].pages = HeapPages /\ map[0].free
    BY <2>1, Zenon DEF HeapInit
  <2>3. map \in [MapSlots -> [start : 0 .. HeapPages, pages : 0 .. HeapPages, free : BOOLEAN]]
    BY HeapAssumption DEF HeapInit
  <2>4. Region(0) = KernelPages
    BY <2>2, HeapAssumption DEF Region, Run, KernelPages
  <2> QED BY <2>1, <2>2, <2>3, <2>4, HeapAssumption
          DEF HeapInit, HeapInv, HeapTypeOK, RegionsTile, HeldAreTaken, HeldAreDisjoint, OnlyHeldMapped
<1>2. HeapInv /\ [HeapNext]_heap_vars => HeapInv'
  <2> SUFFICES ASSUME HeapInv, [HeapNext]_heap_vars PROVE HeapInv'
    BY Zenon
  <2>1. CASE UNCHANGED heap_vars
    BY <2>1 DEF heap_vars, HeapInv, HeapTypeOK, RegionsTile, HeldAreTaken, HeldAreDisjoint,
                OnlyHeldMapped, Region, UsedSlots
  <2> QED BY <2>1, KmallocKeepsInv, KfreeKeepsInv, Zenon DEF HeapNext
<1> QED BY <1>1, <1>2, PTL DEF HeapSpec

\* kmalloc never hands out a page that somebody holds.
THEOREM AllocationsAreDisjoint == HeapSpec => []HeldAreDisjoint
<1>1. HeapInv => HeldAreDisjoint
  BY Zenon DEF HeapInv
<1> QED BY <1>1, HeapInvariant, PTL

\* alloc_region never panics on a page of the heap that is already mapped.
THEOREM NoPageIsMappedTwice == HeapSpec => []OnlyHeldMapped
<1>1. HeapInv => OnlyHeldMapped
  BY Zenon DEF HeapInv
<1> QED BY <1>1, HeapInvariant, PTL
=============================================================================
