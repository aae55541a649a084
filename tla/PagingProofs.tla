---------------------------- MODULE PagingProofs ----------------------------
(***************************************************************************)
(* PagingInv is an invariant of Paging, for every number of processes,     *)
(* pages and frames, and Paging implements AddressSpaces: frames,          *)
(* reference counts, copy on write and the processor's cache are invisible *)
(* to the processes.  The counts of memory_bitmap come first: how many     *)
(* entries point to a frame before and after entries are installed         *)
(* (Install) and dropped (Clear).                                          *)
(***************************************************************************)
EXTENDS Paging, FiniteSetTheorems, TLAPS

\* There are finitely many entries, so counting them makes sense.
LEMMA RefsFinite == IsFiniteSet(Refs)
<1>1. IsFiniteSet(Spaces)
  BY FS_AddElement, SpaceAssumption, Zenon DEF Spaces
<1> QED
  BY <1>1, FS_Product, SlotAssumption, Zenon DEF Refs

\* The entries that point to one frame can be counted.
LEMMA UsersFinite ==
    ASSUME NEW f
    PROVE  IsFiniteSet(Users(f)) /\ Cardinality(Users(f)) \in Nat
<1>1. Users(f) \in SUBSET Refs
  BY Zenon DEF Users
<1> QED
  BY <1>1, RefsFinite, FS_Subset, FS_CardinalityType, Zenon

\* An entry is a pair of a space and a slot.
LEMMA RefIsPair ==
    ASSUME NEW r \in Refs
    PROVE  /\ r = <<r[1], r[2]>>
           /\ r[1] \in Spaces /\ r[2] \in Slots
BY DEF Refs

\* A frame that is free has no user and is not reserved.
LEMMA FreeFrameUnused ==
    ASSUME TypeOK, RefcountExact, NEW f \in Frames, memory_bitmap[f] = 0
    PROVE  f \notin Reserved /\ \A r \in Refs : Present(r) => pte[r] # f
<1>1. Cardinality(Users(f)) \in Nat /\ IsFiniteSet(Users(f))
  BY UsersFinite, Zenon
<1>2. Cardinality(Users(f)) = 0 /\ f \notin Reserved
  BY <1>1 DEF RefcountExact
<1>3. Users(f) = {}
  BY <1>1, <1>2, FS_EmptySet, Zenon
<1> QED
  BY <1>2, <1>3, Zenon DEF Users

\* What FirstFit gives out: distinct frames that nobody uses.
LEMMA FirstFitFresh ==
    ASSUME TypeOK, RefcountExact, NEW need \in SUBSET Slots,
           NEW g \in FirstFit(need)
    PROVE  /\ g \in [need -> Frames]
           /\ \A x, y \in need : g[x] = g[y] => x = y
           /\ \A x \in need : /\ g[x] \notin Reserved
                              /\ memory_bitmap[g[x]] = 0
                              /\ first_usable <= g[x]
                              /\ \A r \in Refs : Present(r) => pte[r] # g[x]
<1>1. g \in [need -> Available] /\ \A x, y \in need : x < y => g[x] < g[y]
  BY Zenon DEF FirstFit
<1>2. g \in [need -> Frames]
  BY <1>1, Zenon DEF Available
<1>3. \A x, y \in need : g[x] = g[y] => x = y
  <2> SUFFICES ASSUME NEW x \in need, NEW y \in need, x # y
               PROVE  g[x] # g[y]
    BY Zenon
  <2>1. x \in Int /\ y \in Int
    BY SlotAssumption, Zenon
  <2>2. g[x] \in Int /\ g[y] \in Int
    BY <1>2 DEF Frames
  <2> QED
    BY <1>1, <2>1, <2>2
<1>4. ASSUME NEW x \in need
      PROVE  g[x] \in Frames /\ memory_bitmap[g[x]] = 0 /\ first_usable <= g[x]
  BY <1>1, Zenon DEF Available, TypeOK, Frames
<1> QED
  BY <1>2, <1>3, <1>4, FreeFrameUnused, Zenon

\* Giving out the frames of FirstFit leaves no free frame below the hint.
LEMMA AdvanceHintSound ==
    ASSUME TypeOK, NoFreeFrameBelowHint, NEW need \in SUBSET Slots,
           NEW g \in FirstFit(need), AdvanceHint(need, g)
    PROVE  /\ first_usable' \in 0 .. usable_page_count
           /\ \A f \in Frames :
                 memory_bitmap[f] = 0 /\ (\A x \in need : g[x] # f)
                    => first_usable' <= f
<1>1. g \in [need -> Available]
      /\ \A x \in need, f \in Available : f < g[x] => \E y \in need : g[y] = f
  BY Zenon DEF FirstFit
<1>2. CASE need = {}
  BY <1>2, Zenon DEF AdvanceHint, TypeOK, NoFreeFrameBelowHint
<1>3. CASE need # {}
  <2>1. PICK last \in need : /\ \A x \in need : g[x] <= g[last]
                             /\ first_usable' = g[last] + 1
    BY <1>3, Zenon DEF AdvanceHint
  <2>2. g[last] \in Frames /\ g[last] \in Int
    BY <1>1 DEF Available, Frames
  <2>3. first_usable' \in 0 .. usable_page_count
    BY <2>1, <2>2, FrameAssumption DEF Frames
  <2>4. ASSUME NEW f \in Frames, memory_bitmap[f] = 0,
               \A x \in need : g[x] # f
        PROVE  first_usable' <= f
    <3>1. f \in Available
      BY <2>4, Zenon DEF Available, NoFreeFrameBelowHint
    <3>2. ~(f < g[last])
      BY <1>1, <2>4, <3>1, Zenon
    <3> QED
      BY <2>1, <2>2, <2>4, <3>2 DEF Frames
  <2> QED
    BY <2>3, <2>4, Zenon
<1> QED
  BY <1>2, <1>3, Zenon

\* How counting reacts when the users of a frame change.
LEMMA CountUsers ==
    ASSUME NEW A, NEW B, IsFiniteSet(A), IsFiniteSet(B)
    PROVE  /\ Cardinality(A) \in Nat /\ Cardinality(B) \in Nat
           /\ A \cap B = {} =>
                Cardinality(A \cup B) = Cardinality(A) + Cardinality(B)
           /\ B \subseteq A =>
                /\ Cardinality(A \ B) = Cardinality(A) - Cardinality(B)
                /\ Cardinality(B) <= Cardinality(A)
<1>1. Cardinality(A) \in Nat /\ Cardinality(B) \in Nat
  BY FS_CardinalityType, Zenon
<1>2. ASSUME A \cap B = {}
      PROVE  Cardinality(A \cup B) = Cardinality(A) + Cardinality(B)
  BY <1>1, <1>2, FS_Union, FS_EmptySet
<1>3. ASSUME B \subseteq A
      PROVE  /\ Cardinality(A \ B) = Cardinality(A) - Cardinality(B)
             /\ Cardinality(B) <= Cardinality(A)
  <2>1. A \cap B = B
    BY <1>3, Zenon
  <2>2. Cardinality(A \ B) = Cardinality(A) - Cardinality(A \cap B)
    BY FS_Difference, Zenon
  <2>3. Cardinality(B) <= Cardinality(A)
    BY <1>3, FS_Subset, Zenon
  <2> QED
    BY <2>1, <2>2, <2>3, Zenon
<1> QED
  BY <1>1, <1>2, <1>3, Zenon

\* A space has one entry for each slot.
LEMMA EntriesCount ==
    ASSUME NEW s \in Spaces, NEW X \in SUBSET Slots
    PROVE  /\ Entries(s, X) \subseteq Refs
           /\ IsFiniteSet(Entries(s, X))
           /\ Cardinality(Entries(s, X)) = Cardinality(X)
<1>1. Entries(s, X) \subseteq Refs
  BY DEF Entries, Refs
<1>2. IsFiniteSet(X)
  BY Zenon, FS_Subset, SlotAssumption
<1>3. [x \in X |-> <<s, x>>] \in Bijection(X, Entries(s, X))
  BY Zenon DEF Bijection, Injection, Surjection, IsInjective, Entries
<1>4. ExistsBijection(X, Entries(s, X))
  BY <1>3, Zenon DEF ExistsBijection
<1> QED
  BY <1>1, <1>2, <1>4, FS_Bijection, Zenon

\* Installing entries keeps the counts exact, the hint low enough and the
\* writable pages exclusive: what is installed is fresh, or not writable.
LEMMA InstallStep ==
    ASSUME PagingInv, NEW s \in Spaces,
           NEW need \in SUBSET Slots, NEW g \in FirstFit(need), AdvanceHint(need, g),
           NEW D \in SUBSET Slots, need \subseteq D,
           NEW h \in [D -> Frames], \A x \in need : h[x] = g[x],
           \A x \in D \ need : memory_bitmap[h[x]] # 0,
           \A x \in D : ~Present(<<s, x>>),
           Install(s, h),
           \A r \in Refs : Present(r)' <=> Present(r) \/ (r[1] = s /\ r[2] \in D),
           \A r \in Refs : flags'[r] \in {"rw", "table"} =>
              \/ r[1] = s /\ r[2] \in need
              \/ /\ flags[r] \in {"rw", "table"}
                 /\ \A x \in D \ need : pte[r] # h[x]
    PROVE  /\ memory_bitmap' \in [Frames -> Nat]
           /\ first_usable' \in 0 .. usable_page_count
           /\ pte' \in [Refs -> Frames]
           /\ \A r \in Refs : ~(r[1] = s /\ r[2] \in D) => pte'[r] = pte[r]
           /\ \A x \in D : pte'[<<s, x>>] = h[x]
           /\ RefcountExact' /\ WritableIsExclusive' /\ NoFreeFrameBelowHint'
<1> DEFINE at(f) == {x \in D : h[x] = f}
<1>1. /\ memory_bitmap' = [f \in Frames |-> memory_bitmap[f] + Cardinality(at(f))]
      /\ pte' = [r \in Refs |-> IF r[1] = s /\ r[2] \in D THEN h[r[2]] ELSE pte[r]]
  BY Zenon DEF Install
<1>2. /\ \A r \in Refs : ~(r[1] = s /\ r[2] \in D) => pte'[r] = pte[r]
      /\ \A r \in Refs : r[1] = s /\ r[2] \in D => pte'[r] = h[r[2]]
      /\ \A x \in D : pte'[<<s, x>>] = h[x]
  BY <1>1, Zenon DEF Refs
<1>3. pte' \in [Refs -> Frames]
  BY <1>1, Zenon DEF PagingInv, TypeOK
<1>4. /\ g \in [need -> Frames]
      /\ \A x, y \in need : g[x] = g[y] => x = y
      /\ \A x \in need : /\ g[x] \notin Reserved
                         /\ memory_bitmap[g[x]] = 0
                         /\ \A r \in Refs : Present(r) => pte[r] # g[x]
  BY FirstFitFresh DEF PagingInv
<1>5. \A f \in Frames : /\ at(f) \in SUBSET Slots /\ IsFiniteSet(at(f))
                        /\ Cardinality(at(f)) \in Nat
  <2> SUFFICES ASSUME NEW f \in Frames
               PROVE  /\ at(f) \in SUBSET Slots /\ IsFiniteSet(at(f))
                      /\ Cardinality(at(f)) \in Nat
    BY Zenon
  <2>1. at(f) \in SUBSET Slots
    BY Zenon
  <2> HIDE DEF at
  <2> QED
    BY <2>1, FS_Subset, FS_CardinalityType, SlotAssumption, Zenon
<1>6. \A f \in Frames : Users(f)' = Users(f) \cup Entries(s, at(f))
                        /\ Users(f) \cap Entries(s, at(f)) = {}
  <2> SUFFICES ASSUME NEW f \in Frames
               PROVE  /\ Users(f)' = Users(f) \cup Entries(s, at(f))
                      /\ Users(f) \cap Entries(s, at(f)) = {}
    BY Zenon
  <2>1. ASSUME NEW r \in Refs
        PROVE  /\ r \in Users(f)' <=> r \in Users(f) \/ r \in Entries(s, at(f))
               /\ ~(r \in Users(f) /\ r \in Entries(s, at(f)))
    <3>1. r = <<r[1], r[2]>> /\ r[1] \in Spaces /\ r[2] \in Slots
      BY RefIsPair, Zenon
    <3>2. r \in Entries(s, at(f)) <=> r[1] = s /\ r[2] \in D /\ h[r[2]] = f
      BY <3>1 DEF Entries
    <3>3. r[1] = s /\ r[2] \in D => ~Present(r)
      BY <3>1
    <3> QED
      BY <1>2, <3>2, <3>3, Zenon DEF Users
  <2>2. Entries(s, at(f)) \subseteq Refs
    BY <1>5, EntriesCount, Zenon
  <2>3. Users(f) \subseteq Refs /\ Users(f)' \subseteq Refs
    BY Zenon DEF Users
  <2> HIDE DEF at
  <2> QED
    BY <2>1, <2>2, <2>3, Zenon
<1>7. \A f \in Frames : Cardinality(Users(f)') =
                           Cardinality(Users(f)) + Cardinality(at(f))
  <2> HIDE DEF at
  <2> SUFFICES ASSUME NEW f \in Frames
               PROVE  Cardinality(Users(f)') =
                         Cardinality(Users(f)) + Cardinality(at(f))
    BY Zenon
  <2>1. IsFiniteSet(Users(f)) /\ IsFiniteSet(Entries(s, at(f)))
        /\ Cardinality(Entries(s, at(f))) = Cardinality(at(f))
    BY <1>5, UsersFinite, EntriesCount, Zenon
  <2> QED
    BY <1>6, <2>1, CountUsers
<1>8. \A f \in Frames : memory_bitmap'[f] = memory_bitmap[f] + Cardinality(at(f))
  BY <1>1, Zenon
<1>9. \A x \in need : x \in at(g[x])
  BY Zenon
<1> HIDE DEF at
<1>10. memory_bitmap' \in [Frames -> Nat]
  BY <1>1, <1>5 DEF PagingInv, TypeOK
<1>11. RefcountExact'
  <2> SUFFICES ASSUME NEW f \in Frames
               PROVE  memory_bitmap'[f] = Cardinality(Users(f)')
                                          + IF f \in Reserved THEN 1 ELSE 0
    BY Zenon DEF RefcountExact
  <2>1. memory_bitmap[f] = Cardinality(Users(f)) + IF f \in Reserved THEN 1 ELSE 0
    BY Zenon DEF PagingInv, RefcountExact
  <2>2. Cardinality(Users(f)) \in Nat
    BY UsersFinite, Zenon
  <2> QED
    BY <1>5, <1>7, <1>8, <2>1, <2>2
<1>12. first_usable' \in 0 .. usable_page_count /\ NoFreeFrameBelowHint'
  <2>1. ASSUME NEW f \in Frames, memory_bitmap'[f] = 0
        PROVE  memory_bitmap[f] = 0 /\ \A x \in need : g[x] # f
    <3>1. memory_bitmap[f] \in Nat /\ Cardinality(at(f)) \in Nat
      BY <1>5, Zenon DEF PagingInv, TypeOK
    <3>2. memory_bitmap[f] = 0 /\ Cardinality(at(f)) = 0
      BY <1>8, <2>1, <3>1
    <3>3. at(f) = {}
      BY <1>5, <3>2, FS_EmptySet, Zenon
    <3> QED
      BY <1>9, <3>2, <3>3, Zenon
  <2> QED
    BY <2>1, AdvanceHintSound DEF PagingInv, NoFreeFrameBelowHint
<1>13. WritableIsExclusive'
  <2> SUFFICES ASSUME NEW r \in Refs, flags'[r] \in {"rw", "table"}
               PROVE  /\ pte'[r] \notin Reserved
                      /\ \A q \in Refs : Present(q)' /\ pte'[q] = pte'[r] => q = r
    BY Zenon DEF WritableIsExclusive
  <2>1. CASE r[1] = s /\ r[2] \in need
    <3>1. pte'[r] = g[r[2]]
      BY <1>2, <2>1, Zenon
    <3>2. ASSUME NEW q \in Refs, Present(q)', pte'[q] = g[r[2]]
          PROVE  q = r
      <4>1. q[1] = s /\ q[2] \in D
        BY <1>2, <1>4, <2>1, <3>2
      <4>2. q[2] \in need
        BY <1>2, <1>4, <2>1, <3>2, <4>1
      <4>3. q[2] = r[2]
        BY <1>2, <1>4, <2>1, <3>2, <4>1, <4>2
      <4> QED
        BY <2>1, <4>1, <4>3, RefIsPair
    <3> QED
      BY <1>4, <2>1, <3>1, <3>2, Zenon
  <2>2. CASE ~(r[1] = s /\ r[2] \in need)
    <3>1. flags[r] \in {"rw", "table"} /\ Present(r)
          /\ \A x \in D \ need : pte[r] # h[x]
      BY <2>2, Zenon DEF Present
    <3>2. /\ pte[r] \notin Reserved
          /\ \A q \in Refs : Present(q) /\ pte[q] = pte[r] => q = r
      BY <3>1, Zenon DEF PagingInv, WritableIsExclusive
    <3>3. pte'[r] = pte[r]
      <4>1. r[1] = s /\ r[2] \in D => ~Present(r)
        BY RefIsPair
      <4> QED
        BY <1>2, <3>1, <4>1, Zenon
    <3>4. ASSUME NEW q \in Refs, Present(q)', pte'[q] = pte[r]
          PROVE  q = r
      <4>1. CASE q[1] = s /\ q[2] \in D
        BY <1>2, <1>4, <3>1, <3>4, <4>1
      <4>2. CASE ~(q[1] = s /\ q[2] \in D)
        BY <1>2, <3>2, <3>4, <4>2, Zenon
      <4> QED
        BY <4>1, <4>2, Zenon
    <3> QED
      BY <3>2, <3>3, <3>4, Zenon
  <2> QED
    BY <2>1, <2>2, Zenon
<1> QED
  BY <1>2, <1>3, <1>10, <1>11, <1>12, <1>13, Zenon

\* Dropping mapped entries keeps the counts exact and the hint low enough.
LEMMA ClearStep ==
    ASSUME PagingInv, NEW X \in SUBSET Refs, \A r \in X : Present(r), Clear(X)
    PROVE  /\ memory_bitmap' \in [Frames -> Nat]
           /\ first_usable' \in 0 .. usable_page_count
           /\ pte' \in [Refs -> Frames]
           /\ flags' \in [Refs -> Flags]
           /\ \A r \in Refs : /\ Present(r)' <=> Present(r) /\ r \notin X
                              /\ r \notin X => /\ pte'[r] = pte[r]
                                               /\ flags'[r] = flags[r]
           /\ RefcountExact'
           /\ WritableIsExclusive'
           /\ NoFreeFrameBelowHint'
<1> DEFINE B(f) == {r \in X : pte[r] = f}
<1>1. ASSUME NEW f \in Frames
      PROVE  /\ Uses(X, f) = Cardinality(B(f))
             /\ B(f) \subseteq Users(f) /\ IsFiniteSet(B(f)) /\ IsFiniteSet(Users(f))
             /\ Cardinality(Users(f)) \in Nat /\ Cardinality(B(f)) \in Nat
             /\ Cardinality(B(f)) <= Cardinality(Users(f))
             /\ Cardinality(Users(f) \ B(f)) =
                   Cardinality(Users(f)) - Cardinality(B(f))
  <2>1. B(f) \subseteq Users(f)
    BY Zenon DEF Users
  <2>2. IsFiniteSet(Users(f)) /\ Cardinality(Users(f)) \in Nat
    BY UsersFinite, Zenon
  <2>3. IsFiniteSet(B(f))
    BY <2>1, <2>2, FS_Subset, Zenon
  <2> HIDE DEF B
  <2>4. /\ Cardinality(B(f)) \in Nat
        /\ Cardinality(B(f)) <= Cardinality(Users(f))
        /\ Cardinality(Users(f) \ B(f)) =
              Cardinality(Users(f)) - Cardinality(B(f))
    BY Zenon, <2>1, <2>2, <2>3, CountUsers
  <2> QED
    BY <2>1, <2>2, <2>3, <2>4, Zenon DEF Uses, B
<1>2. /\ memory_bitmap' = Dropped(X)
      /\ flags' = [r \in Refs |-> IF r \in X THEN "none" ELSE flags[r]]
      /\ pte' = [r \in Refs |-> IF r \in X THEN 0 ELSE pte[r]]
  BY Zenon DEF Clear
<1>3. ASSUME NEW f \in Frames
      PROVE  /\ memory_bitmap'[f] = memory_bitmap[f] - Uses(X, f)
             /\ memory_bitmap'[f] \in Nat
             /\ memory_bitmap[f] = Cardinality(Users(f))
                                   + IF f \in Reserved THEN 1 ELSE 0
  <2>1. /\ Uses(X, f) \in Nat /\ Cardinality(Users(f)) \in Nat
        /\ Uses(X, f) <= Cardinality(Users(f))
    BY Zenon, <1>1
  <2>2. /\ memory_bitmap[f] = Cardinality(Users(f))
                              + IF f \in Reserved THEN 1 ELSE 0
    BY Zenon DEF PagingInv, RefcountExact
  <2>3. memory_bitmap[f] >= Uses(X, f)
    BY <2>1, <2>2
  <2> QED
    BY <1>2, <2>1, <2>2, <2>3 DEF Dropped
<1>4. 0 \in Frames
  BY FrameAssumption DEF Frames
<1>5. memory_bitmap' \in [Frames -> Nat]
  <2>1. memory_bitmap' = [f \in Frames |-> memory_bitmap'[f]]
    BY <1>2, Zenon DEF Dropped
  <2> QED
    BY <1>3, <2>1, Zenon
<1>6. pte' \in [Refs -> Frames] /\ flags' \in [Refs -> Flags]
  BY <1>2, <1>4, Zenon DEF PagingInv, TypeOK, Flags
<1>7. \A r \in Refs : /\ Present(r)' <=> Present(r) /\ r \notin X
                      /\ r \notin X => pte'[r] = pte[r] /\ flags'[r] = flags[r]
  BY <1>2, Zenon DEF Present
<1>8. RefcountExact'
  <2> SUFFICES ASSUME NEW f \in Frames
               PROVE  memory_bitmap'[f] = Cardinality(Users(f)')
                                          + IF f \in Reserved THEN 1 ELSE 0
    BY Zenon DEF RefcountExact
  <2>1. Users(f)' = Users(f) \ B(f)
    BY <1>7, Zenon DEF Users
  <2> HIDE DEF B
  <2> QED
    BY <1>1, <1>3, <2>1
<1>9. WritableIsExclusive'
  <2> SUFFICES ASSUME NEW r \in Refs, flags'[r] \in {"rw", "table"}
               PROVE  /\ pte'[r] \notin Reserved
                      /\ \A q \in Refs : Present(q)' /\ pte'[q] = pte'[r] => q = r
    BY Zenon DEF WritableIsExclusive
  <2>1. r \notin X /\ flags[r] \in {"rw", "table"} /\ pte'[r] = pte[r]
    BY <1>2, Zenon
  <2> QED
    BY <1>7, <2>1, Zenon DEF PagingInv, WritableIsExclusive
<1>10. /\ first_usable' \in 0 .. usable_page_count
       /\ NoFreeFrameBelowHint'
  <2> DEFINE freed == {f \in Frames : Uses(X, f) > 0 /\ Dropped(X)[f] = 0}
  <2>1. PICK m \in freed \cup {first_usable} :
           /\ \A f \in freed \cup {first_usable} : m <= f
           /\ first_usable' = m
    BY Zenon DEF Clear, LowerHint
  <2>2. first_usable \in 0 .. usable_page_count
    BY Zenon DEF PagingInv, TypeOK
  <2>3. m \in 0 .. usable_page_count
    BY <2>1, <2>2, FrameAssumption DEF Frames
  <2>4. ASSUME NEW f \in Frames, memory_bitmap'[f] = 0
        PROVE  m <= f
    <3>1. CASE f \in freed
      BY <2>1, <3>1, Zenon
    <3>2. CASE f \notin freed
      <4>1. Uses(X, f) = 0
        <5>1. Uses(X, f) \in Nat
          BY Zenon, <1>1
        <5>2. Dropped(X)[f] = 0
          BY <1>2, <2>4, Zenon
        <5> QED
          BY <3>2, <5>1, <5>2
      <4>2. memory_bitmap[f] = 0
        BY <1>3, <2>4, <4>1 DEF PagingInv, TypeOK
      <4>3. first_usable <= f /\ m <= first_usable
        BY <2>1, <4>2, Zenon DEF PagingInv, NoFreeFrameBelowHint
      <4> QED
        BY <2>2, <2>3, <4>3 DEF Frames
    <3> QED
      BY <3>1, <3>2, Zenon
  <2> QED
    BY <2>1, <2>3, <2>4, Zenon DEF NoFreeFrameBelowHint
<1> QED
  BY <1>5, <1>6, <1>7, <1>8, <1>9, <1>10, Zenon

----------------------------------------------------------------------------
(* The operations.                                                         *)

\* Mapping the pages R, and the tables they miss, preserves the invariant.
LEMMA MapStep ==
    ASSUME PagingInv, NEW s \in Active, NEW R \in SUBSET PagesOf(s),
           NEW need, NEW g \in FirstFit(need), AdvanceHint(need, g),
           NEW h \in [NewTables(s, R) \cup R -> Frames],
           NewTables(s, R) \subseteq need, need \subseteq NewTables(s, R) \cup R,
           \A x \in need : h[x] = g[x],
           \A p \in R \ need : h[p] \in Reserved,
           Install(s, h),
           NEW flag \in {"rw", "cow", "ro"}, flag = "rw" => R \subseteq need,
           \A p \in R : flag = "ro" <=> h[p] = vvar_paddr,
           \A p \in R : ~Present(<<s, p>>),
           Mark(s, R, flag), tlb' = {}, pml4_physical' = pml4_physical,
           mem' \in [Frames -> Values], mem'[zero_page] = Zero
    PROVE  PagingInv'
<1> DEFINE tables == NewTables(s, R)
           D == tables \cup R
<1>1. s \in Spaces /\ R \in SUBSET Pages /\ R \in SUBSET Slots
  BY Zenon DEF Active, PagingInv, TypeOK, Spaces, PagesOf, Pages, Slots
<1>2. /\ tables \in SUBSET Tables /\ tables \cap R = {} /\ D \in SUBSET Slots
      /\ need \in SUBSET Slots /\ Root \notin D
      /\ \A t \in tables : ~Present(<<s, t>>)
  <2>1. tables \in SUBSET Tables /\ \A t \in tables : ~Present(<<s, t>>)
    BY <1>1, SlotAssumption DEF NewTables, TablesFor
  <2> HIDE DEF tables
  <2> QED
    BY <1>1, <2>1, SlotAssumption, Zenon DEF Slots, Pages, tables
<1>3. \A x \in D : ~Present(<<s, x>>)
  BY <1>2, Zenon
<1>4. \A t \in Tables : t \in tables <=> ~Present(<<s, t>>) /\ \E p \in R : TableOf[p] = t
  BY Zenon DEF NewTables, TablesFor
<1> HIDE DEF tables
<1>5. /\ \A u \in Spaces, x \in Slots : <<u, x>> \in Refs
      /\ \A u \in Spaces, x \in Slots : ~(u = s /\ x \in D) =>
            flags'[<<u, x>>] = flags[<<u, x>>]
      /\ \A p \in R : flags'[<<s, p>>] = flag
      /\ \A t \in tables : flags'[<<s, t>>] = "table"
  BY <1>1, <1>2, Zenon DEF Refs, Mark, tables
<1>6. \A u \in Spaces, x \in Slots :
         Present(<<u, x>>)' <=> Present(<<u, x>>) \/ (u = s /\ x \in D)
  BY Zenon, <1>5 DEF Present
<1>7. \A r \in Refs : Present(r)' <=> Present(r) \/ (r[1] = s /\ r[2] \in D)
  <2> SUFFICES ASSUME NEW r \in Refs
               PROVE  Present(r)' <=> Present(r) \/ (r[1] = s /\ r[2] \in D)
    BY Zenon
  <2>1. PICK u \in Spaces, x \in Slots : r = <<u, x>>
    BY DEF Refs
  <2> QED
    BY <1>6, <2>1, Zenon DEF Present
<1>8. \A r \in Refs : flags'[r] \in {"rw", "table"} =>
         \/ r[1] = s /\ r[2] \in need
         \/ flags[r] \in {"rw", "table"} /\ \A x \in D \ need : pte[r] # h[x]
  <2> SUFFICES ASSUME NEW r \in Refs, flags'[r] \in {"rw", "table"},
                      ~(r[1] = s /\ r[2] \in need)
               PROVE  flags[r] \in {"rw", "table"} /\ \A x \in D \ need : pte[r] # h[x]
    BY Zenon
  <2>1. ~(r[1] = s /\ r[2] \in D)
    BY <1>5, RefIsPair DEF tables
  <2>2. flags[r] \in {"rw", "table"}
    BY <2>1, Zenon DEF Mark, tables
  <2>3. pte[r] \notin Reserved
    BY <2>2, Zenon DEF PagingInv, WritableIsExclusive
  <2> QED
    BY <2>2, <2>3, Zenon DEF tables
<1>9. \A x \in D \ need : memory_bitmap[h[x]] # 0
  <2> SUFFICES ASSUME NEW x \in D \ need PROVE memory_bitmap[h[x]] # 0
    BY Zenon
  <2>1. h[x] \in Reserved /\ h[x] \in Frames
    BY FrameAssumption, Zenon DEF tables
  <2> QED
    BY <2>1, FreeFrameUnused, Zenon DEF PagingInv
<1>10. /\ memory_bitmap' \in [Frames -> Nat]
       /\ first_usable' \in 0 .. usable_page_count
       /\ pte' \in [Refs -> Frames]
       /\ \A r \in Refs : ~(r[1] = s /\ r[2] \in D) => pte'[r] = pte[r]
       /\ \A x \in D : pte'[<<s, x>>] = h[x]
       /\ RefcountExact' /\ WritableIsExclusive' /\ NoFreeFrameBelowHint'
  <2>1. h \in [D -> Frames] /\ need \subseteq D
    BY Zenon DEF tables
  <2> HIDE DEF D
  <2> QED
    BY <1>1, <1>2, <1>3, <1>7, <1>8, <1>9, <2>1, InstallStep
<1>11. TypeOK'
  <2>1. flags' \in [Refs -> Flags]
    BY Zenon DEF PagingInv, TypeOK, Flags, Mark
  <2> QED
    BY <1>10, <2>1, Zenon DEF PagingInv, TypeOK
<1>12. EntriesWellFormed'
  <2>1. \A u \in Spaces : Alive(u) => Alive(u)'
    BY <1>2, <1>5, Zenon DEF Alive, Slots
  <2>2. Alive(pml4_physical)' /\ (s # Kernel => Alive(s)')
    <3>1. pml4_physical \in Spaces /\ Alive(pml4_physical)
          /\ (s # Kernel => s = pml4_physical)
      BY Zenon DEF PagingInv, TypeOK, EntriesWellFormed, Spaces, Active
    <3> QED
      BY <2>1, <3>1, Zenon DEF Alive
  <2>3. ASSUME NEW u \in Spaces, NEW x \in Slots
        PROVE  /\ x \notin Pages => flags'[<<u, x>>] \in {"none", "table"}
               /\ x \in Pages => flags'[<<u, x>>] # "table"
               /\ Present(<<u, x>>)' =>
                     /\ x \in Pages => x \in PagesOf(u)
                     /\ x = Root => u # Kernel
                     /\ u # Kernel => Alive(u)'
                     /\ flags'[<<u, x>>] = "ro" <=> pte'[<<u, x>>] = vvar_paddr
    <3>1. CASE u = s /\ x \in R
      <4>1. /\ x \in Pages /\ x \in PagesOf(u) /\ x # Root
            /\ flags'[<<u, x>>] = flag /\ pte'[<<u, x>>] = h[x]
        BY <1>1, <1>2, <1>5, <1>10, <3>1, Zenon
      <4> QED
        BY <2>2, <3>1, <4>1, Zenon
    <3>2. CASE u = s /\ x \in tables
      <4>1. h[x] = g[x] /\ g[x] \notin Reserved
        BY <1>2, <3>2, FirstFitFresh, Zenon DEF PagingInv, tables
      <4>2. x \notin Pages /\ x # Root /\ h[x] # vvar_paddr
        BY <1>2, <3>2, <4>1, SlotAssumption, FrameAssumption, Zenon
      <4> QED
        BY <1>5, <1>10, <2>2, <3>2, <4>2, Zenon
    <3>3. CASE ~(u = s /\ x \in D)
      <4>1. /\ pte'[<<u, x>>] = pte[<<u, x>>] /\ flags'[<<u, x>>] = flags[<<u, x>>]
            /\ Present(<<u, x>>)' <=> Present(<<u, x>>)
        BY <1>5, <1>10, <3>3, Zenon DEF Present
      <4> QED
        BY <2>1, <4>1 DEF PagingInv, EntriesWellFormed
    <3> QED
      BY <3>1, <3>2, <3>3, Zenon
  <2> QED
    BY <2>2, <2>3, Zenon DEF EntriesWellFormed, PagesOf
<1>13. TlbCoherent' /\ ZeroPageIsZero'
  BY Zenon DEF TlbCoherent, ZeroPageIsZero
<1>14. TablesHoldPages'
  <2> SUFFICES ASSUME NEW u \in Spaces, NEW t \in Tables
               PROVE  Present(<<u, t>>)' <=>
                        \E p \in PagesOf(u) : TableOf[p] = t /\ Present(<<u, p>>)'
    BY Zenon DEF TablesHoldPages, PagesOf
  <2>1. /\ t \in Slots /\ t \notin R
        /\ \A p \in PagesOf(u) : p \in Slots /\ p \notin tables
    BY <1>1, <1>2, SlotAssumption, Zenon DEF Slots, Pages, PagesOf
  <2>2. Present(<<u, t>>) <=> \E p \in PagesOf(u) : TableOf[p] = t /\ Present(<<u, p>>)
    BY Zenon DEF PagingInv, TablesHoldPages
  <2>3. \A p \in PagesOf(u) :
           Present(<<u, p>>)' <=> Present(<<u, p>>) \/ (u = s /\ p \in R)
    BY Zenon, <1>6, <2>1
  <2>4. Present(<<u, t>>)' <=> Present(<<u, t>>) \/ (u = s /\ t \in tables)
    BY <1>6, <2>1, Zenon
  <2>5. R \subseteq PagesOf(s)
    BY Zenon
  <2> QED
    BY Zenon, <1>4, <2>2, <2>3, <2>4, <2>5
<1> QED
  BY <1>10, <1>11, <1>12, <1>13, <1>14, Zenon DEF PagingInv

\* alloc_region and its caller's fill preserve the invariant.
LEMMA AllocRegionStep ==
    ASSUME PagingInv, NEW s \in Active, NEW R \in SUBSET PagesOf(s),
           NEW v \in Values, alloc_region(s, R, v)
    PROVE  PagingInv'
<1> DEFINE need == NewTables(s, R) \cup R
<1>1. need \in SUBSET Slots
  BY SlotAssumption DEF NewTables, TablesFor, Slots, Pages, PagesOf
<1>2. PICK g \in FirstFit(need) :
         /\ AdvanceHint(need, g)
         /\ Install(s, g)
         /\ mem' = [f \in Frames |->
                       IF \E p \in R : g[p] = f THEN v
                       ELSE IF \E t \in need : g[t] = f THEN Zero
                       ELSE mem[f]]
  BY Zenon DEF alloc_region
<1>3. /\ Mark(s, R, "rw")
      /\ tlb' = {}
      /\ pml4_physical' = pml4_physical
      /\ \A p \in R : ~Present(<<s, p>>)
  BY Zenon DEF alloc_region
<1>4. /\ NewTables(s, R) \subseteq need /\ R \subseteq need
      /\ need = NewTables(s, R) \cup R
  BY Zenon
<1> HIDE DEF need
<1>5. g \in [need -> Frames] /\ \A x \in need : g[x] \notin Reserved
  BY <1>1, FirstFitFresh, Zenon DEF PagingInv
<1>6. mem' \in [Frames -> Values] /\ mem'[zero_page] = Zero
  <2>1. \A x \in need : g[x] # zero_page
    BY <1>5, FrameAssumption, Zenon
  <2> QED
    BY <1>2, <2>1, ValueAssumption, FrameAssumption, Zenon
       DEF PagingInv, TypeOK, ZeroPageIsZero, need
<1>7. \A p \in R : g[p] # vvar_paddr
  BY <1>5, FrameAssumption, Zenon DEF need
<1> QED
  <2>1. /\ g \in [NewTables(s, R) \cup R -> Frames]
        /\ \A p \in R \ need : g[p] \in Reserved
        /\ \A p \in R : "rw" = "ro" <=> g[p] = vvar_paddr
    BY <1>4, <1>5, <1>7, Zenon
  <2> QED
    BY <1>2, <1>3, <1>4, <1>6, <2>1, MapStep, SMTT(30)

\* Mapping pages to a reserved frame preserves the invariant.
LEMMA MapSharedStep ==
    ASSUME PagingInv, NEW s \in Active, NEW R \in SUBSET PagesOf(s),
           NEW frame \in {zero_page, vvar_paddr}, NEW flag \in {"cow", "ro"},
           flag = "ro" <=> frame = vvar_paddr, MapShared(s, R, frame, flag)
    PROVE  PagingInv'
<1> DEFINE need == NewTables(s, R)
<1>1. /\ need \in SUBSET Slots /\ need \cap R = {}
      /\ frame \in Frames /\ frame \in Reserved
  BY SlotAssumption, FrameAssumption
     DEF NewTables, TablesFor, Slots, Pages, PagesOf
<1>2. PICK g \in FirstFit(need) :
         /\ AdvanceHint(need, g)
         /\ Install(s, [x \in need \cup R |-> IF x \in need THEN g[x] ELSE frame])
         /\ mem' = [f \in Frames |->
                       IF \E t \in need : g[t] = f THEN Zero ELSE mem[f]]
  BY Zenon DEF MapShared
<1>3. /\ Mark(s, R, flag)
      /\ tlb' = {}
      /\ pml4_physical' = pml4_physical
      /\ \A p \in R : ~Present(<<s, p>>)
  BY Zenon DEF MapShared
<1> DEFINE h == [x \in need \cup R |-> IF x \in need THEN g[x] ELSE frame]
<1>4. g \in [need -> Frames] /\ \A x \in need : g[x] \notin Reserved
  <2> HIDE DEF need
  <2> QED
    BY <1>1, FirstFitFresh, Zenon DEF PagingInv
<1>5. mem' \in [Frames -> Values] /\ mem'[zero_page] = Zero
  <2> HIDE DEF need
  <2>1. \A x \in need : g[x] # zero_page
    BY <1>4, FrameAssumption, Zenon
  <2> QED
    BY <1>2, <2>1, ValueAssumption, FrameAssumption, Zenon
       DEF PagingInv, TypeOK, ZeroPageIsZero
<1>6. /\ h \in [need \cup R -> Frames]
      /\ \A x \in need : h[x] = g[x]
      /\ \A p \in R : h[p] = frame
  <2> HIDE DEF need
  <2> QED
    BY <1>1, <1>4, Zenon
<1>7. Install(s, h)
  BY <1>2, Zenon
<1> HIDE DEF h
<1>8. /\ AdvanceHint(need, g)
      /\ \A p \in R \ need : h[p] \in Reserved
      /\ flag = "rw" => R \subseteq need
      /\ \A p \in R : flag = "ro" <=> h[p] = vvar_paddr
      /\ flag \in {"rw", "cow", "ro"}
      /\ h \in [NewTables(s, R) \cup R -> Frames]
      /\ NewTables(s, R) \subseteq need /\ need \subseteq NewTables(s, R) \cup R
  BY <1>1, <1>2, <1>6, Zenon
<1> HIDE DEF need
<1>9. PICK N, H : N = need /\ H = h
  BY Zenon
<1>10. /\ g \in FirstFit(N) /\ AdvanceHint(N, g)
       /\ H \in [NewTables(s, R) \cup R -> Frames]
       /\ NewTables(s, R) \subseteq N /\ N \subseteq NewTables(s, R) \cup R
       /\ \A x \in N : H[x] = g[x]
       /\ \A p \in R \ N : H[p] \in Reserved
       /\ Install(s, H)
       /\ flag = "rw" => R \subseteq N
       /\ \A p \in R : flag = "ro" <=> H[p] = vvar_paddr
  BY <1>6, <1>7, <1>8, <1>9, Zenon
<1>11. flag \in {"rw", "cow", "ro"}
  BY Zenon
<1> QED
  BY SMTT(40), <1>3, <1>5, <1>10, <1>11, MapStep

\* free_region preserves the invariant.
LEMMA FreeRegionStep ==
    ASSUME PagingInv, NEW s \in Active, NEW R \in SUBSET PagesOf(s),
           free_region(s, R)
    PROVE  PagingInv'
<1> DEFINE gone == {p \in R : Present(<<s, p>>)}
           empty == TablesEmptied(s, gone)
           X == Entries(s, gone \cup empty)
<1>1. s \in Spaces /\ gone \in SUBSET PagesOf(s) /\ gone \in SUBSET Pages
  BY Zenon DEF Active, PagingInv, TypeOK, Spaces, PagesOf, Pages
<1>2. /\ empty \in SUBSET Tables
      /\ \A t \in empty : Present(<<s, t>>)
  <2>1. \A t \in empty : \E p \in gone : t = TableOf[p]
    BY SMTT(30) DEF TablesEmptied, TablesFor
  <2>2. \A p \in gone : TableOf[p] \in Tables /\ Present(<<s, p>>)
    BY <1>1, SlotAssumption, Zenon DEF Pages
  <2> QED
    BY Zenon, <1>1, <2>1, <2>2 DEF PagingInv, TablesHoldPages
<1>3. X \in SUBSET Refs /\ \A r \in X : Present(r)
  <2>1. \A x \in gone \cup empty : x \in Slots /\ Present(<<s, x>>)
    BY <1>1, <1>2, Zenon DEF Slots
  <2> HIDE DEF gone, empty
  <2> QED
    BY <1>1, <2>1 DEF Entries, Refs
<1>4. /\ Clear(X) /\ Invalidate(Entries(s, gone))
      /\ pml4_physical' = pml4_physical /\ mem' = mem
  BY Zenon DEF free_region
<1>5. \A u \in Spaces, x \in Slots :
         <<u, x>> \in Refs /\ (<<u, x>> \in X <=> u = s /\ x \in gone \cup empty)
  BY Zenon DEF Entries, Refs
<1>6. /\ memory_bitmap' \in [Frames -> Nat]
      /\ first_usable' \in 0 .. usable_page_count
      /\ pte' \in [Refs -> Frames]
      /\ flags' \in [Refs -> Flags]
      /\ \A r \in Refs : /\ Present(r)' <=> Present(r) /\ r \notin X
                         /\ r \notin X => /\ pte'[r] = pte[r]
                                          /\ flags'[r] = flags[r]
      /\ RefcountExact' /\ WritableIsExclusive' /\ NoFreeFrameBelowHint'
  BY Zenon, <1>3, <1>4, ClearStep
<1>7. \A r \in X : flags'[r] = "none"
  BY <1>3, <1>4, Zenon DEF Clear
<1>8. \A e \in tlb' : e \in tlb /\ e[1] \notin Entries(s, gone)
  BY <1>4, Zenon DEF Invalidate
<1> HIDE DEF gone, empty, X
<1>9. TypeOK'
  BY <1>4, <1>6, <1>8, Zenon DEF PagingInv, TypeOK
<1>10. \A u \in Spaces : Alive(u) => Alive(u)'
  <2> SUFFICES ASSUME NEW u \in Spaces, Alive(u)
               PROVE  Alive(u)'
    BY Zenon
  <2>1. Root \in Slots /\ Root \notin gone \cup empty
    BY <1>1, <1>2, SlotAssumption, Zenon DEF Slots
  <2> QED
    BY <1>5, <1>6, <2>1, Zenon DEF Alive
<1>11. EntriesWellFormed'
  <2>1. Alive(pml4_physical)'
    BY <1>4, <1>10, Zenon DEF PagingInv, EntriesWellFormed, TypeOK, Spaces, Alive
  <2>2. ASSUME NEW u \in Spaces, NEW x \in Slots
        PROVE  /\ x \notin Pages => flags'[<<u, x>>] \in {"none", "table"}
               /\ x \in Pages => flags'[<<u, x>>] # "table"
               /\ Present(<<u, x>>)' =>
                     /\ x \in Pages => x \in PagesOf(u)
                     /\ x = Root => u # Kernel
                     /\ u # Kernel => Alive(u)'
                     /\ flags'[<<u, x>>] = "ro" <=> pte'[<<u, x>>] = vvar_paddr
    <3>1. <<u, x>> \in Refs
      BY <1>5, Zenon
    <3>2. CASE <<u, x>> \in X
      BY <1>7, <3>2, Zenon DEF Present
    <3>3. CASE <<u, x>> \notin X
      BY <1>6, <1>10, <3>1, <3>3 DEF PagingInv, EntriesWellFormed
    <3> QED
      BY <3>2, <3>3, Zenon
  <2> QED
    BY <2>1, <2>2, Zenon DEF EntriesWellFormed, PagesOf
<1>12. TlbCoherent'
  <2> SUFFICES ASSUME NEW e \in tlb'
               PROVE  /\ e[1][1] \in Active
                      /\ Present(e[1])' /\ e[2] = pte'[e[1]]
                      /\ e[3] = (flags'[e[1]] = "rw")
    BY <1>4, Zenon DEF TlbCoherent, Active
  <2>1. e \in tlb /\ e[1] \in Places
    BY <1>8, Zenon DEF PagingInv, TypeOK
  <2>2. e[1] \in Refs /\ e[1] \notin X
    <3>1. PICK u \in Spaces, p \in Pages : e[1] = <<u, p>>
      BY <2>1 DEF Places, Spaces, Pages
    <3>2. p \notin empty /\ p \in Slots
      BY <1>2, SlotAssumption, Zenon DEF Slots
    <3> QED
      BY <1>5, <1>8, <3>1, <3>2, Zenon DEF Entries
  <2>3. /\ e[1][1] \in Active
        /\ Present(e[1]) /\ e[2] = pte[e[1]] /\ e[3] = (flags[e[1]] = "rw")
    BY <2>1, Zenon DEF PagingInv, TlbCoherent
  <2> QED
    BY <1>6, <2>2, <2>3, Zenon
<1>13. TablesHoldPages'
  <2> SUFFICES ASSUME NEW u \in Spaces, NEW t \in Tables
               PROVE  Present(<<u, t>>)' <=>
                        \E p \in PagesOf(u) : TableOf[p] = t /\ Present(<<u, p>>)'
    BY Zenon DEF TablesHoldPages, PagesOf
  <2>1. t \in Slots /\ t \notin gone
        /\ \A p \in PagesOf(u) : p \in Slots /\ p \notin empty
    BY <1>1, <1>2, SlotAssumption, Zenon DEF Slots, Pages, PagesOf
  <2>2. Present(<<u, t>>) <=> \E p \in PagesOf(u) : TableOf[p] = t /\ Present(<<u, p>>)
    BY Zenon DEF PagingInv, TablesHoldPages
  <2>3. Present(<<u, t>>)' <=> Present(<<u, t>>) /\ ~(u = s /\ t \in empty)
    BY <1>5, <1>6, <2>1, Zenon
  <2>4. \A p \in PagesOf(u) :
           Present(<<u, p>>)' <=> Present(<<u, p>>) /\ ~(u = s /\ p \in gone)
    BY <1>5, <1>6, <2>1, Zenon
  <2>5. t \in empty <=>
           /\ \E p \in gone : TableOf[p] = t
           /\ ~\E p \in PagesOf(s) \ gone : Present(<<s, p>>) /\ TableOf[p] = t
    BY Zenon DEF empty, TablesEmptied, TablesFor
  <2>6. gone \subseteq PagesOf(s)
    BY <1>1, Zenon
  <2> QED
    BY <2>2, <2>3, <2>4, <2>5, <2>6
<1>14. ZeroPageIsZero'
  BY <1>4, Zenon DEF PagingInv, ZeroPageIsZero
<1> QED
  BY <1>6, <1>9, <1>11, <1>12, <1>13, <1>14, Zenon DEF PagingInv


\* free_page_tables preserves the invariant.
LEMMA FreePageTablesStep ==
    ASSUME PagingInv, NEW t \in Procs, free_page_tables(t)
    PROVE  PagingInv'
<1> DEFINE X == {r \in Entries(t, Slots) : Present(r)}
<1>1. t \in Spaces /\ t # Kernel /\ t # pml4_physical /\ t \notin Active
  BY SpaceAssumption, Zenon DEF free_page_tables, Spaces, Active
<1>2. X \in SUBSET Refs /\ \A r \in X : Present(r)
  BY <1>1 DEF Entries, Refs
<1>3. Clear(X) /\ pml4_physical' = pml4_physical /\ mem' = mem /\ tlb' = tlb
  BY Zenon DEF free_page_tables
<1>4. /\ memory_bitmap' \in [Frames -> Nat]
      /\ first_usable' \in 0 .. usable_page_count
      /\ pte' \in [Refs -> Frames]
      /\ flags' \in [Refs -> Flags]
      /\ \A r \in Refs : /\ Present(r)' <=> Present(r) /\ r \notin X
                         /\ r \notin X => /\ pte'[r] = pte[r]
                                          /\ flags'[r] = flags[r]
      /\ RefcountExact' /\ WritableIsExclusive' /\ NoFreeFrameBelowHint'
  BY <1>2, <1>3, ClearStep, Zenon
<1>5. \A u \in Spaces, x \in Slots :
         /\ <<u, x>> \in Refs
         /\ <<u, x>> \in X <=> u = t /\ Present(<<u, x>>)
  BY Zenon DEF Entries, Refs
<1> HIDE DEF X
<1>6. \A x \in Slots : ~Present(<<t, x>>)'
  BY <1>1, <1>4, <1>5, Zenon
<1>7. \A u \in Spaces \ {t}, x \in Slots :
         /\ pte'[<<u, x>>] = pte[<<u, x>>] /\ flags'[<<u, x>>] = flags[<<u, x>>]
  BY Zenon, <1>4, <1>5
<1>8. TypeOK'
  BY <1>3, <1>4, Zenon DEF PagingInv, TypeOK
<1>9. EntriesWellFormed'
  <2>1. \A u \in Spaces \ {t} : Alive(u)' <=> Alive(u)
    BY <1>7, Zenon DEF Alive, Slots
  <2>2. Alive(pml4_physical)'
    BY <1>1, <1>3, <1>7, Zenon DEF PagingInv, EntriesWellFormed, TypeOK, Spaces, Alive, Slots
  <2>3. ASSUME NEW u \in Spaces, NEW x \in Slots
        PROVE  /\ x \notin Pages => flags'[<<u, x>>] \in {"none", "table"}
               /\ x \in Pages => flags'[<<u, x>>] # "table"
               /\ Present(<<u, x>>)' =>
                     /\ x \in Pages => x \in PagesOf(u)
                     /\ x = Root => u # Kernel
                     /\ u # Kernel => Alive(u)'
                     /\ flags'[<<u, x>>] = "ro" <=> pte'[<<u, x>>] = vvar_paddr
    <3>1. CASE u = t
      BY <1>6, <3>1, Zenon DEF Present
    <3>2. CASE u # t
      BY <1>7, <2>1, <3>2 DEF PagingInv, EntriesWellFormed, Present
    <3> QED
      BY <3>1, <3>2, Zenon
  <2> QED
    BY <2>2, <2>3, Zenon DEF EntriesWellFormed, PagesOf
<1>10. TlbCoherent'
  <2> SUFFICES ASSUME NEW e \in tlb
               PROVE  /\ e[1][1] \in Active
                      /\ Present(e[1])' /\ e[2] = pte'[e[1]]
                      /\ e[3] = (flags'[e[1]] = "rw")
    BY <1>3, Zenon DEF TlbCoherent, Active
  <2>1. /\ e[1][1] \in Active /\ e[1] \in Places
        /\ Present(e[1]) /\ e[2] = pte[e[1]] /\ e[3] = (flags[e[1]] = "rw")
    BY Zenon DEF PagingInv, TlbCoherent, TypeOK
  <2>2. PICK u \in Spaces, p \in Slots : e[1] = <<u, p>>
    BY <2>1 DEF Places, Spaces, Slots, Pages
  <2> QED
    BY <1>1, <1>7, <2>1, <2>2 DEF Present
<1>11. TablesHoldPages'
  <2> SUFFICES ASSUME NEW u \in Spaces, NEW x \in Tables
               PROVE  Present(<<u, x>>)' <=>
                        \E p \in PagesOf(u) : TableOf[p] = x /\ Present(<<u, p>>)'
    BY Zenon DEF TablesHoldPages, PagesOf
  <2>1. x \in Slots /\ \A p \in PagesOf(u) : p \in Slots
    BY Zenon DEF Slots, Pages, PagesOf
  <2>2. Present(<<u, x>>) <=> \E p \in PagesOf(u) : TableOf[p] = x /\ Present(<<u, p>>)
    BY Zenon DEF PagingInv, TablesHoldPages
  <2> QED
    BY Zenon, <1>6, <1>7, <2>1, <2>2 DEF Present
<1>12. ZeroPageIsZero'
  BY <1>3, Zenon DEF PagingInv, ZeroPageIsZero
<1> QED
  BY <1>4, <1>8, <1>9, <1>10, <1>11, <1>12 DEF PagingInv

\* An address space that does not exist has no entry.
LEMMA DeadSpaceEmpty ==
    ASSUME EntriesWellFormed, NEW t \in Procs, ~Alive(t)
    PROVE  \A x \in Slots : ~Present(<<t, x>>)
BY SpaceAssumption, Zenon DEF EntriesWellFormed, Spaces

\* clone_page_tables of the kernel's base tables preserves the invariant.
LEMMA CloneBaseStep ==
    ASSUME PagingInv, NEW t \in Procs, clone_base(t)
    PROVE  PagingInv'
<1>1. t \in Spaces /\ t # Kernel /\ ~Alive(t) /\ <<t, Root>> \in Refs
      /\ \A x \in Slots : ~Present(<<t, x>>)
  BY SpaceAssumption, DeadSpaceEmpty, Zenon
     DEF clone_base, Spaces, Refs, Slots, PagingInv
<1>2. PICK g \in FirstFit({Root}) :
         /\ AdvanceHint({Root}, g)
         /\ Install(t, g)
         /\ mem' = [mem EXCEPT ![g[Root]] = Zero]
  BY Zenon DEF clone_base
<1>3. /\ flags' = [flags EXCEPT ![<<t, Root>>] = "table"]
      /\ pml4_physical' = pml4_physical /\ tlb' = tlb
  BY Zenon DEF clone_base
<1>4. {Root} \in SUBSET Slots
  BY Zenon DEF Slots
<1>5. g \in [{Root} -> Frames] /\ g[Root] \in Frames /\ g[Root] \notin Reserved
  BY <1>4, FirstFitFresh DEF PagingInv
<1>6. \A r \in Refs : r = <<t, Root>> <=> r[1] = t /\ r[2] \in {Root}
  BY RefIsPair
<1>7. \A r \in Refs : r # <<t, Root>> =>
         flags'[r] = flags[r] /\ (Present(r)' <=> Present(r))
  BY <1>3, Zenon DEF PagingInv, TypeOK, Present
<1>8. flags'[<<t, Root>>] = "table" /\ Present(<<t, Root>>)'
  BY <1>1, <1>3, Zenon DEF PagingInv, TypeOK, Present
<1>9. /\ memory_bitmap' \in [Frames -> Nat]
      /\ first_usable' \in 0 .. usable_page_count
      /\ pte' \in [Refs -> Frames]
      /\ \A r \in Refs : r # <<t, Root>> => pte'[r] = pte[r]
      /\ pte'[<<t, Root>>] = g[Root]
      /\ RefcountExact' /\ WritableIsExclusive' /\ NoFreeFrameBelowHint'
  <2>1. /\ \A r \in Refs :
              Present(r)' <=> Present(r) \/ (r[1] = t /\ r[2] \in {Root})
        /\ \A r \in Refs : flags'[r] \in {"rw", "table"} =>
              \/ r[1] = t /\ r[2] \in {Root}
              \/ /\ flags[r] \in {"rw", "table"}
                 /\ \A x \in {Root} \ {Root} : pte[r] # g[x]
        /\ \A x \in {Root} : ~Present(<<t, x>>)
    BY <1>1, <1>4, <1>6, <1>7, <1>8, Zenon
  <2>2. PICK D : D = {Root}
    BY Zenon
  <2>3. /\ D \in SUBSET Slots /\ D \subseteq D /\ g \in FirstFit(D)
        /\ AdvanceHint(D, g) /\ g \in [D -> Frames]
        /\ \A x \in D : g[x] = g[x]
        /\ \A x \in D \ D : memory_bitmap[g[x]] # 0
        /\ \A x \in D : ~Present(<<t, x>>)
        /\ Install(t, g)
        /\ \A r \in Refs : Present(r)' <=> Present(r) \/ (r[1] = t /\ r[2] \in D)
        /\ \A r \in Refs : flags'[r] \in {"rw", "table"} =>
              \/ r[1] = t /\ r[2] \in D
              \/ /\ flags[r] \in {"rw", "table"}
                 /\ \A x \in D \ D : pte[r] # g[x]
    BY Zenon, <1>2, <1>4, <1>5, <2>1, <2>2
  <2>4. /\ memory_bitmap' \in [Frames -> Nat]
        /\ first_usable' \in 0 .. usable_page_count
        /\ pte' \in [Refs -> Frames]
        /\ \A r \in Refs : ~(r[1] = t /\ r[2] \in D) => pte'[r] = pte[r]
        /\ \A x \in D : pte'[<<t, x>>] = g[x]
        /\ RefcountExact' /\ WritableIsExclusive' /\ NoFreeFrameBelowHint'
    BY Zenon, <1>1, <2>3, InstallStep
  <2> QED
    BY <1>6, <2>2, <2>4, Zenon
<1>10. EntriesWellFormed'
  <2>1. \A u \in Spaces : /\ <<u, Root>> \in Refs
                          /\ Alive(u) => Alive(u)'
                          /\ Alive(t)'
    BY <1>1, <1>7, <1>8, Zenon DEF Alive, Refs, Slots
  <2>2. Alive(pml4_physical)'
    BY <1>3, <2>1, Zenon DEF PagingInv, EntriesWellFormed, TypeOK, Spaces, Alive
  <2>3. ASSUME NEW u \in Spaces, NEW x \in Slots
        PROVE  /\ x \notin Pages => flags'[<<u, x>>] \in {"none", "table"}
               /\ x \in Pages => flags'[<<u, x>>] # "table"
               /\ Present(<<u, x>>)' =>
                     /\ x \in Pages => x \in PagesOf(u)
                     /\ x = Root => u # Kernel
                     /\ u # Kernel => Alive(u)'
                     /\ flags'[<<u, x>>] = "ro" <=> pte'[<<u, x>>] = vvar_paddr
    <3>1. <<u, x>> \in Refs
      BY Zenon DEF Refs
    <3>2. CASE u = t /\ x = Root
      BY Zenon, <1>1, <1>5, <1>8, <1>9, <2>1, <3>2, SlotAssumption, FrameAssumption
    <3>3. CASE ~(u = t /\ x = Root)
      <4>1. /\ pte'[<<u, x>>] = pte[<<u, x>>] /\ flags'[<<u, x>>] = flags[<<u, x>>]
            /\ Present(<<u, x>>)' <=> Present(<<u, x>>)
        BY <1>7, <1>9, <3>1, <3>3, Zenon
      <4> QED
        BY Zenon, <2>1, <4>1 DEF PagingInv, EntriesWellFormed
    <3> QED
      BY <3>2, <3>3, Zenon
  <2> QED
    BY <2>2, <2>3, Zenon DEF EntriesWellFormed, PagesOf
<1>11. TypeOK'
  <2>1. mem' \in [Frames -> Values] /\ flags' \in [Refs -> Flags]
    BY Zenon, <1>2, <1>3, <1>5, ValueAssumption DEF PagingInv, TypeOK, Flags
  <2> QED
    BY <1>3, <1>9, <2>1, Zenon DEF PagingInv, TypeOK
<1>12. ZeroPageIsZero'
  BY <1>2, <1>5, FrameAssumption, Zenon DEF PagingInv, TypeOK, ZeroPageIsZero
<1>13. TlbCoherent'
  <2> SUFFICES ASSUME NEW e \in tlb
               PROVE  /\ e[1][1] \in Active
                      /\ Present(e[1])' /\ e[2] = pte'[e[1]]
                      /\ e[3] = (flags'[e[1]] = "rw")
    BY <1>3, Zenon DEF TlbCoherent, Active
  <2>1. /\ e[1][1] \in Active /\ e[1] \in Places
        /\ Present(e[1]) /\ e[2] = pte[e[1]] /\ e[3] = (flags[e[1]] = "rw")
    BY Zenon DEF PagingInv, TlbCoherent, TypeOK
  <2>2. PICK u \in Spaces, p \in Pages : e[1] = <<u, p>>
    BY <2>1 DEF Places, Spaces, Pages
  <2>3. e[1] \in Refs /\ e[1] # <<t, Root>>
    BY <2>2, SlotAssumption DEF Refs, Slots
  <2> QED
    BY <1>7, <1>9, <2>1, <2>3, Zenon
<1>14. TablesHoldPages'
  <2>1. \A u \in Spaces, x \in Tables \cup Pages :
           Present(<<u, x>>)' <=> Present(<<u, x>>)
    BY <1>7, SlotAssumption, Zenon DEF Refs, Slots
  <2> QED
    BY Zenon, <2>1 DEF PagingInv, TablesHoldPages, PagesOf, Pages
<1> QED
  BY <1>9, <1>10, <1>11, <1>12, <1>13, <1>14 DEF PagingInv

----------------------------------------------------------------------------
(* fork, the copy-on-write fault, the processor's own steps, and the      *)
(* theorems.                                                               *)

\* fork's clone_page_tables preserves the invariant: the child's entries share
\* the frames of the parent's, and neither side can write them any more.
LEMMA ClonePageTablesStep ==
    ASSUME PagingInv, NEW t \in Procs, clone_page_tables(t)
    PROVE  PagingInv'
<1> DEFINE s == pml4_physical
           need == {x \in {Root} \cup Tables : Present(<<s, x>>)}
           shared == {p \in UserPages : Present(<<s, p>>)}
<1>1. /\ t \in Spaces /\ s \in Spaces /\ t # Kernel /\ s # Kernel /\ t # s
      /\ Alive(s) /\ ~Alive(t)
      /\ \A x \in Slots : ~Present(<<t, x>>)
  BY SpaceAssumption, DeadSpaceEmpty, Zenon
     DEF clone_page_tables, Spaces, PagingInv, TypeOK, EntriesWellFormed
<1>2. /\ need \in SUBSET Slots /\ shared \in SUBSET Pages /\ shared \in SUBSET Slots
      /\ need \cap Pages = {} /\ Root \in need /\ Root \in Slots
      /\ Root \notin shared
  BY Zenon, <1>1, SlotAssumption DEF Slots, Pages, Alive, Present
<1>3. PICK g \in FirstFit(need) :
         /\ AdvanceHint(need, g)
         /\ Install(t, [x \in need \cup shared |->
                           IF x \in need THEN g[x] ELSE pte[<<s, x>>]])
         /\ mem' = [f \in Frames |->
                       IF \E x \in need : g[x] = f THEN Zero ELSE mem[f]]
  BY Zenon DEF clone_page_tables
<1>4. /\ flags' = [r \in Refs |->
                     IF r[1] = t /\ r[2] \in need THEN "table"
                     ELSE IF r[1] \in {s, t} /\ r[2] \in shared
                     THEN CoW(flags[<<s, r[2]>>]) ELSE flags[r]]
      /\ Invalidate(Entries(s, shared))
      /\ pml4_physical' = pml4_physical
  BY Zenon DEF clone_page_tables
<1>5. \A x \in need \cup shared : Present(<<s, x>>)
  BY Zenon
<1>6. \A x \in Slots : Present(<<s, x>>) => x \in need \cup shared
  BY <1>1, Zenon DEF PagingInv, EntriesWellFormed, PagesOf, Slots
<1>7. shared \subseteq UserPages
  BY Zenon
<1> HIDE DEF need, shared
<1>8. /\ g \in [need -> Frames]
      /\ \A x, y \in need : g[x] = g[y] => x = y
      /\ \A x \in need : /\ g[x] \notin Reserved
                         /\ memory_bitmap[g[x]] = 0
                         /\ first_usable <= g[x]
                         /\ \A r \in Refs : Present(r) => pte[r] # g[x]
  BY <1>2, <1>3, FirstFitFresh DEF PagingInv
<1> DEFINE D == need \cup shared
           h == [x \in D |-> IF x \in need THEN g[x] ELSE pte[<<s, x>>]]
\* The four kinds of entries after the step.
<1>9. /\ \A u \in Spaces, x \in Slots : <<u, x>> \in Refs
      /\ \A x \in need : flags'[<<t, x>>] = "table"
      /\ \A x \in shared : flags'[<<t, x>>] = CoW(flags[<<s, x>>])
      /\ \A x \in shared : flags'[<<s, x>>] = CoW(flags[<<s, x>>])
      /\ \A u \in Spaces, x \in Slots :
            ~(u = t /\ x \in D) /\ ~(u = s /\ x \in shared)
               => flags'[<<u, x>>] = flags[<<u, x>>]
  <2>1. \A u \in Spaces, x \in Slots : <<u, x>> \in Refs
    BY Zenon DEF Refs
  <2>2. need \cap shared = {}
    BY <1>2, Zenon
  <2> QED
    BY Zenon, <1>1, <1>2, <1>4, <2>1, <2>2
<1>10. \A x \in shared : /\ flags[<<s, x>>] \in {"rw", "cow", "ro"}
                         /\ CoW(flags[<<s, x>>]) \in {"cow", "ro"}
                         /\ CoW(flags[<<s, x>>]) = "ro" <=> flags[<<s, x>>] = "ro"
  <2> SUFFICES ASSUME NEW x \in shared
               PROVE  flags[<<s, x>>] \in {"rw", "cow", "ro"}
    BY Zenon DEF CoW
  <2>1. flags[<<s, x>>] \in Flags /\ flags[<<s, x>>] # "table"
    BY <1>1, <1>2, Zenon DEF PagingInv, TypeOK, EntriesWellFormed, Refs
  <2> QED
    BY <1>5, <2>1, Zenon DEF Flags, Present
<1>11. /\ \A u \in Spaces, x \in Slots :
             Present(<<u, x>>)' <=> Present(<<u, x>>) \/ (u = t /\ x \in D)
       /\ \A x \in Slots : Present(<<t, x>>)' <=> x \in D
  <2>1. ASSUME NEW u \in Spaces, NEW x \in Slots
        PROVE  Present(<<u, x>>)' <=> Present(<<u, x>>) \/ (u = t /\ x \in D)
    <3>1. CASE u \in {s, t} /\ x \in shared
      BY Zenon, <1>5, <1>9, <1>10, <3>1 DEF Present
    <3>2. CASE u = t /\ x \in need
      BY <1>9, <3>2, Zenon DEF Present
    <3>3. CASE ~(u = t /\ x \in D) /\ ~(u = s /\ x \in shared)
      BY <1>9, <3>3, Zenon DEF Present
    <3> QED
      BY <3>1, <3>2, <3>3, Zenon
  <2> QED
    BY <1>1, <2>1, Zenon
<1>12. /\ memory_bitmap' \in [Frames -> Nat]
       /\ first_usable' \in 0 .. usable_page_count
       /\ pte' \in [Refs -> Frames]
       /\ \A u \in Spaces, x \in Slots :
             ~(u = t /\ x \in D) => pte'[<<u, x>>] = pte[<<u, x>>]
       /\ \A x \in need : pte'[<<t, x>>] = g[x]
       /\ \A x \in shared : pte'[<<t, x>>] = pte[<<s, x>>]
       /\ RefcountExact' /\ WritableIsExclusive' /\ NoFreeFrameBelowHint'
  <2>1. \A x \in shared : <<s, x>> \in Refs /\ pte[<<s, x>>] \in Frames
    BY <1>1, <1>2, <1>9, Zenon DEF PagingInv, TypeOK
  <2>2. PICK C, H, N : C = D /\ H = h /\ N = need
    BY Zenon
  <2>3. N \in SUBSET Slots /\ C \in SUBSET Slots /\ N \subseteq C /\ C \ N \subseteq shared
        /\ N \cap shared = {}
    BY <1>2, <2>2, Zenon
  <2>4. /\ H \in [C -> Frames]
        /\ \A x \in N : H[x] = g[x]
        /\ \A x \in C \ N : H[x] = pte[<<s, x>>]
    BY Zenon, <1>8, <2>1, <2>2
  <2>5. Install(t, H) /\ AdvanceHint(N, g) /\ g \in FirstFit(N)
    BY <1>3, <2>2, Zenon
  <2>6. \A x \in C \ N : memory_bitmap[H[x]] # 0
    <3> SUFFICES ASSUME NEW x \in C \ N
                 PROVE  memory_bitmap[pte[<<s, x>>]] # 0
      BY Zenon, <2>4
    <3>1. <<s, x>> \in Refs /\ Present(<<s, x>>) /\ pte[<<s, x>>] \in Frames
      BY <1>5, <2>1, <2>3, Zenon
    <3> QED
      BY <3>1, FreeFrameUnused, Zenon DEF PagingInv
  <2>7. \A r \in Refs : Present(r)' <=> Present(r) \/ (r[1] = t /\ r[2] \in C)
    <3> SUFFICES ASSUME NEW r \in Refs
                 PROVE  Present(r)' <=> Present(r) \/ (r[1] = t /\ r[2] \in C)
      BY Zenon
    <3>1. PICK u \in Spaces, x \in Slots : r = <<u, x>>
      BY DEF Refs
    <3> QED
      BY <1>11, <2>2, <3>1, Zenon DEF Present
  <2>8. \A r \in Refs : flags'[r] \in {"rw", "table"} =>
           \/ r[1] = t /\ r[2] \in N
           \/ /\ flags[r] \in {"rw", "table"}
              /\ \A x \in C \ N : pte[r] # H[x]
    <3> SUFFICES ASSUME NEW r \in Refs, flags'[r] \in {"rw", "table"},
                        ~(r[1] = t /\ r[2] \in N)
                 PROVE  /\ flags[r] \in {"rw", "table"}
                        /\ \A x \in C \ N : pte[r] # H[x]
      BY Zenon
    <3>1. PICK u \in Spaces, y \in Slots : r = <<u, y>>
      BY DEF Refs
    <3>2. ~(u \in {s, t} /\ y \in shared)
      BY Zenon, <1>9, <1>10, <3>1
    <3>3. flags[r] \in {"rw", "table"}
      BY <1>9, <2>2, <3>1, <3>2, Zenon
    <3>4. \A q \in Refs : Present(q) /\ pte[q] = pte[r] => q = r
      BY <3>3, Zenon DEF PagingInv, WritableIsExclusive
    <3>5. ASSUME NEW x \in C \ N, pte[r] = H[x]
          PROVE  FALSE
      <4>1. <<s, x>> \in Refs /\ Present(<<s, x>>) /\ pte[<<s, x>>] = pte[r]
            /\ x \in shared
        BY <1>5, <2>1, <2>3, <2>4, <3>5, Zenon
      <4>2. <<s, x>> = <<u, y>>
        BY <3>1, <3>4, <4>1, Zenon
      <4> QED
        BY <3>2, <4>1, <4>2, Zenon
    <3> QED
      BY <3>3, <3>5, Zenon
  <2>9. /\ memory_bitmap' \in [Frames -> Nat]
        /\ first_usable' \in 0 .. usable_page_count
        /\ pte' \in [Refs -> Frames]
        /\ \A r \in Refs : ~(r[1] = t /\ r[2] \in C) => pte'[r] = pte[r]
        /\ \A x \in C : pte'[<<t, x>>] = H[x]
        /\ RefcountExact' /\ WritableIsExclusive' /\ NoFreeFrameBelowHint'
    <3>1. \A x \in C : ~Present(<<t, x>>)
      BY <1>1, <2>3, Zenon
    <3> HIDE DEF D, h
    <3> QED
      BY <1>1, <2>3, <2>4, <2>5, <2>6, <2>7, <2>8, <3>1, InstallStep
  <2>10. \A u \in Spaces, x \in Slots : 
            ~(u = t /\ x \in D) => pte'[<<u, x>>] = pte[<<u, x>>]
    BY <1>9, <2>2, <2>9, Zenon
  <2>11. /\ \A x \in need : x \in N /\ x \in C
         /\ \A x \in shared : x \in C \ N
    BY <2>2, <2>3, Zenon
  <2> QED
    BY <2>4, <2>9, <2>10, <2>11, Zenon
<1> HIDE DEF s, h
<1>13. TypeOK'
  <2>1. flags' \in [Refs -> Flags]
    <3>1. \A x \in shared : CoW(flags[<<s, x>>]) \in Flags
      BY <1>10, Zenon DEF Flags
    <3> QED
      BY <1>4, <3>1, Zenon DEF PagingInv, TypeOK, Flags, s
  <2>2. mem' \in [Frames -> Values]
    BY <1>3, ValueAssumption, Zenon DEF PagingInv, TypeOK
  <2>3. tlb' \subseteq Places \X Frames \X BOOLEAN
    BY <1>4, Zenon DEF PagingInv, TypeOK, Invalidate
  <2> QED
    BY <1>4, <1>12, <2>1, <2>2, <2>3, Zenon DEF PagingInv, TypeOK
<1>14. EntriesWellFormed'
  <2>1. \A u \in Spaces : Alive(u)' <=> Alive(u) \/ u = t
    BY <1>1, <1>2, <1>9 DEF Alive
  <2>2. Alive(pml4_physical)'
    BY <1>1, <1>4, <2>1, Zenon DEF s, Alive
  <2>3. ASSUME NEW u \in Spaces, NEW x \in Slots
        PROVE  /\ x \notin Pages => flags'[<<u, x>>] \in {"none", "table"}
               /\ x \in Pages => flags'[<<u, x>>] # "table"
               /\ Present(<<u, x>>)' =>
                     /\ x \in Pages => x \in PagesOf(u)
                     /\ x = Root => u # Kernel
                     /\ u # Kernel => Alive(u)'
                     /\ flags'[<<u, x>>] = "ro" <=> pte'[<<u, x>>] = vvar_paddr
    <3>1. \A z \in Slots : Present(<<s, z>>) =>
             flags[<<s, z>>] = "ro" <=> pte[<<s, z>>] = vvar_paddr
      BY Zenon, <1>1 DEF PagingInv, EntriesWellFormed
    <3>2. CASE u = t /\ x \in need
      <4>1. g[x] # vvar_paddr
        BY <1>8, <3>2, FrameAssumption, Zenon
      <4> QED
        BY Zenon, <1>1, <1>2, <1>9, <1>12, <2>1, <3>2, <4>1
    <3>3. CASE u \in {s, t} /\ x \in shared
      <4>1. /\ pte'[<<u, x>>] = pte[<<s, x>>]
            /\ flags'[<<u, x>>] = CoW(flags[<<s, x>>])
        BY <1>1, <1>2, <1>9, <1>12, <3>3
      <4>2. flags'[<<u, x>>] = "ro" <=> pte'[<<u, x>>] = vvar_paddr
        BY Zenon, <1>5, <1>10, <3>1, <3>3, <4>1
      <4> QED
        BY Zenon, <1>1, <1>2, <1>7, <1>10, <2>1, <3>3, <4>1, <4>2 DEF PagesOf
    <3>4. CASE ~(u = t /\ x \in D) /\ ~(u = s /\ x \in shared)
      <4>1. /\ pte'[<<u, x>>] = pte[<<u, x>>] /\ flags'[<<u, x>>] = flags[<<u, x>>]
            /\ Present(<<u, x>>)' <=> Present(<<u, x>>)
        BY <1>9, <1>12, <3>4, Zenon DEF Present
      <4> QED
        BY Zenon, <2>1, <4>1 DEF PagingInv, EntriesWellFormed
    <3> QED
      BY Zenon, <3>2, <3>3, <3>4
  <2> QED
    BY <2>2, <2>3, Zenon DEF EntriesWellFormed, PagesOf
<1>15. ZeroPageIsZero'
  <2>1. \A x \in need : g[x] # zero_page
    BY <1>8, FrameAssumption, Zenon
  <2> QED
    BY <1>3, <2>1, FrameAssumption, Zenon DEF PagingInv, ZeroPageIsZero
<1>16. TlbCoherent'
  <2> SUFFICES ASSUME NEW e \in tlb'
               PROVE  /\ e[1][1] \in Active
                      /\ Present(e[1])' /\ e[2] = pte'[e[1]]
                      /\ e[3] = (flags'[e[1]] = "rw")
    BY Zenon, <1>4 DEF TlbCoherent, Active
  <2>1. e \in tlb /\ e[1] \notin Entries(s, shared)
    BY <1>4, Zenon DEF Invalidate, s
  <2>2. /\ e[1][1] \in Active /\ e[1] \in Places
        /\ Present(e[1]) /\ e[2] = pte[e[1]] /\ e[3] = (flags[e[1]] = "rw")
    BY <2>1, Zenon DEF PagingInv, TlbCoherent, TypeOK
  <2>3. PICK u \in Spaces, p \in Slots : e[1] = <<u, p>>
    BY <2>2 DEF Places, Spaces, Slots, Pages
  <2>4. u # t /\ ~(u = s /\ p \in shared)
    BY Zenon, <1>1, <2>1, <2>2, <2>3 DEF Active, Entries, s
  <2> QED
    BY <1>9, <1>11, <1>12, <2>2, <2>3, <2>4
<1>17. TablesHoldPages'
  <2> SUFFICES ASSUME NEW u \in Spaces, NEW x \in Tables
               PROVE  Present(<<u, x>>)' <=>
                        \E p \in PagesOf(u) : TableOf[p] = x /\ Present(<<u, p>>)'
    BY Zenon DEF TablesHoldPages, PagesOf
  <2>1. x \in Slots /\ x \notin Pages
        /\ \A v \in Spaces : \A p \in PagesOf(v) : p \in Slots /\ p \in Pages
    BY SlotAssumption, Zenon DEF Slots, Pages, PagesOf
  <2>2. \A v \in Spaces :
           Present(<<v, x>>) <=>
              \E p \in PagesOf(v) : TableOf[p] = x /\ Present(<<v, p>>)
    BY Zenon DEF PagingInv, TablesHoldPages
  <2>3. CASE u # t
    BY <1>11, <2>1, <2>2, <2>3, Zenon
  <2>4. CASE u = t
    <3>1. \A z \in Slots : Present(<<t, z>>)' <=> Present(<<s, z>>)
      BY <1>5, <1>6, <1>11, Zenon
    <3>2. PagesOf(t) = PagesOf(s)
      BY <1>1, Zenon DEF PagesOf
    <3> QED
      BY Zenon, <1>1, <2>1, <2>2, <2>4, <3>1, <3>2
  <2> QED
    BY <2>3, <2>4, Zenon
<1> QED
  BY <1>12, <1>13, <1>14, <1>15, <1>16, <1>17 DEF PagingInv


\* A copy-on-write fault preserves the invariant.
LEMMA CowHandlerStep ==
    ASSUME PagingInv, NEW r \in Places, cow_handler(r)
    PROVE  PagingInv'
<1> DEFINE f == pte[r]
<1>1. PICK s \in Spaces, p \in Pages : r = <<s, p>>
  BY DEF Places, Spaces, Pages
<1>2. /\ r \in Refs /\ p \in Slots /\ {r[2]} \in SUBSET Slots /\ f \in Frames
      /\ flags[r] = "cow" /\ Present(r) /\ f # vvar_paddr
  BY Zenon, <1>1 DEF Refs, Slots, cow_handler, Present, PagingInv, TypeOK,
              EntriesWellFormed
<1>3. PICK n \in Frames :
         /\ n \notin Reserved
         /\ pte' = [pte EXCEPT ![r] = n]
         /\ \A q \in Refs : Present(q) /\ pte[q] = n => q = r
         /\ mem' \in [Frames -> Values]
         /\ memory_bitmap' \in [Frames -> Nat]
         /\ first_usable' \in 0 .. usable_page_count
         /\ RefcountExact' /\ NoFreeFrameBelowHint'
  <2>0. flags' = [flags EXCEPT ![r] = "rw"]
    BY Zenon DEF cow_handler
  <2>1. \A q \in Refs : Present(q)' <=> Present(q)
    BY <1>2, <2>0, Zenon DEF Present, PagingInv, TypeOK
  <2>2. CASE Shared(f)
    <3>1. PICK g \in FirstFit({r[2]}) :
             /\ AdvanceHint({r[2]}, g)
             /\ memory_bitmap' = [memory_bitmap EXCEPT
                                     ![f] = @ - 1, ![g[r[2]]] = 1]
             /\ mem' = [mem EXCEPT ![g[r[2]]] = mem[f]]
             /\ pte' = [pte EXCEPT ![r] = g[r[2]]]
      BY Zenon, <2>2 DEF cow_handler
    <3> DEFINE n == g[r[2]]
    <3>2. /\ n \in Frames /\ n \notin Reserved /\ memory_bitmap[n] = 0
          /\ \A q \in Refs : Present(q) => pte[q] # n
      BY <1>2, FirstFitFresh DEF PagingInv
    <3>3. memory_bitmap[f] > 1 /\ memory_bitmap[f] \in Nat /\ n # f
      BY <1>2, <2>2, <3>2, Zenon DEF Shared, PagingInv, TypeOK
    <3> HIDE DEF n
    <3>4. /\ memory_bitmap' = [memory_bitmap EXCEPT ![f] = @ - 1, ![n] = 1]
          /\ mem' = [mem EXCEPT ![n] = mem[f]]
          /\ pte' = [pte EXCEPT ![r] = n]
      BY <3>1, Zenon DEF n
    <3> HIDE DEF f
    <3>5. /\ \A h \in Frames \ {f, n} : memory_bitmap'[h] = memory_bitmap[h]
          /\ memory_bitmap'[f] = memory_bitmap[f] - 1
          /\ memory_bitmap'[n] = 1
      BY <1>2, <3>2, <3>3, <3>4, Zenon DEF PagingInv, TypeOK
    <3>6. memory_bitmap' \in [Frames -> Nat] /\ mem' \in [Frames -> Values]
      BY <1>2, <3>2, <3>3, <3>4 DEF PagingInv, TypeOK
    <3>7. /\ first_usable' \in 0 .. usable_page_count
          /\ NoFreeFrameBelowHint'
      <4>1. \A h \in Frames : memory_bitmap'[h] = 0 =>
               memory_bitmap[h] = 0 /\ \A x \in {r[2]} : g[x] # h
        BY <3>3, <3>5 DEF n
      <4> QED
        BY Zenon, <1>2, <3>1, <4>1, AdvanceHintSound
           DEF PagingInv, NoFreeFrameBelowHint
    <3>8. RefcountExact'
      <4> SUFFICES ASSUME NEW h \in Frames
                   PROVE  memory_bitmap'[h] = Cardinality(Users(h)')
                                              + IF h \in Reserved THEN 1 ELSE 0
        BY Zenon DEF RefcountExact
      <4>1. /\ \A q \in Refs : q # r => pte'[q] = pte[q]
            /\ pte'[r] = n
        BY <1>2, <3>4, Zenon DEF PagingInv, TypeOK
      <4>2. CASE h = n
        <5>1. Users(h)' = {r}
          BY <1>2, <2>1, <3>2, <4>1, <4>2, Zenon DEF Users
        <5>2. Cardinality({r}) = 1
          BY Zenon, FS_Singleton
        <5> QED
          BY <3>2, <3>5, <4>2, <5>1, <5>2
      <4>3. CASE h = f
        <5>1. Users(h)' = Users(h) \ {r} /\ r \in Users(h)
          BY <1>2, <2>1, <3>3, <4>1, <4>3, Zenon DEF Users, f
        <5>2. IsFiniteSet(Users(h)) /\ Cardinality(Users(h)) \in Nat
          BY UsersFinite, Zenon
        <5>3. Cardinality(Users(h)') = Cardinality(Users(h)) - 1
          BY Zenon, <5>1, <5>2, FS_RemoveElement
        <5>4. memory_bitmap[h] = Cardinality(Users(h))
                                 + IF h \in Reserved THEN 1 ELSE 0
          BY Zenon DEF PagingInv, RefcountExact
        <5> QED
          BY <3>5, <4>3, <5>2, <5>3, <5>4
      <4>4. CASE h \notin {f, n}
        <5>1. Users(h)' = Users(h)
          BY <1>2, <2>1, <4>1, <4>4, Zenon DEF Users, f
        <5> QED
          BY <3>5, <4>4, <5>1, Zenon DEF PagingInv, RefcountExact
      <4> QED
        BY <4>2, <4>3, <4>4, Zenon
    <3> QED
      BY Zenon, <3>2, <3>4, <3>6, <3>7, <3>8
  <2>3. CASE ~Shared(f)
    <3>1. /\ memory_bitmap' = memory_bitmap /\ first_usable' = first_usable
          /\ mem' = mem /\ pte' = pte
      BY <2>3, Zenon DEF cow_handler
    <3>2. IsFiniteSet(Users(f)) /\ Cardinality(Users(f)) \in Nat /\ r \in Users(f)
      BY Zenon, <1>2, UsersFinite DEF Users
    <3>3. Cardinality(Users(f)) # 0
      BY <3>2, FS_EmptySet, Zenon
    <3>4. Cardinality(Users(f)) = 1 /\ f \notin Reserved
      BY <1>2, <2>3, <3>2, <3>3 DEF Shared, PagingInv, TypeOK, RefcountExact
    <3>5. Users(f) = {r}
      BY <3>2, <3>4, FS_Singleton
    <3>6. \A q \in Refs : Present(q) /\ pte[q] = f => q = r
      BY <3>5, Zenon DEF Users
    <3>7. pte' = [pte EXCEPT ![r] = f]
      BY <1>2, <3>1, Zenon DEF PagingInv, TypeOK
    <3>8. RefcountExact'
      BY <2>1, <3>1, Zenon DEF PagingInv, RefcountExact, Users
    <3>9. /\ NoFreeFrameBelowHint' /\ memory_bitmap' \in [Frames -> Nat]
          /\ first_usable' \in 0 .. usable_page_count
          /\ mem' \in [Frames -> Values]
      BY <3>1, Zenon DEF PagingInv, NoFreeFrameBelowHint, TypeOK
    <3> QED
      BY Zenon, <1>2, <3>4, <3>6, <3>7, <3>8, <3>9
  <2> QED
    BY <2>2, <2>3, Zenon
<1>4. /\ flags' = [flags EXCEPT ![r] = "rw"]
      /\ Invalidate({r})
      /\ pml4_physical' = pml4_physical
  BY Zenon DEF cow_handler
<1> HIDE DEF f
<1>5. /\ \A q \in Refs : Present(q)' <=> Present(q)
      /\ \A q \in Refs : q # r => pte'[q] = pte[q] /\ flags'[q] = flags[q]
      /\ pte'[r] = n /\ flags'[r] = "rw"
  BY <1>2, <1>3, <1>4, Zenon DEF Present, PagingInv, TypeOK
<1>6. TypeOK'
  <2>1. pte' \in [Refs -> Frames] /\ flags' \in [Refs -> Flags]
    BY Zenon, <1>3, <1>4 DEF PagingInv, TypeOK, Flags
  <2>2. tlb' \subseteq Places \X Frames \X BOOLEAN
    BY <1>4, Zenon DEF PagingInv, TypeOK, Invalidate
  <2> QED
    BY <1>3, <1>4, <2>1, <2>2, Zenon DEF PagingInv, TypeOK
<1>7. EntriesWellFormed'
  <2>1. \A u \in Spaces : Alive(u)' <=> Alive(u)
    BY <1>1, <1>5, SlotAssumption, Zenon DEF Alive, Refs, Slots
  <2>2. Alive(pml4_physical)'
    <3>1. pml4_physical \in Spaces /\ Alive(pml4_physical)
      BY Zenon DEF PagingInv, TypeOK, EntriesWellFormed, Spaces
    <3> QED
      BY <1>4, <2>1, <3>1, Zenon DEF Alive
  <2>3. ASSUME NEW u \in Spaces, NEW x \in Slots
        PROVE  /\ x \notin Pages => flags'[<<u, x>>] \in {"none", "table"}
               /\ x \in Pages => flags'[<<u, x>>] # "table"
               /\ Present(<<u, x>>)' =>
                     /\ x \in Pages => x \in PagesOf(u)
                     /\ x = Root => u # Kernel
                     /\ u # Kernel => Alive(u)'
                     /\ flags'[<<u, x>>] = "ro" <=> pte'[<<u, x>>] = vvar_paddr
    <3>1. <<u, x>> \in Refs
      BY Zenon DEF Refs
    <3>2. Present(<<u, x>>) =>
             /\ x \in Pages => x \in PagesOf(u)
             /\ x = Root => u # Kernel
             /\ u # Kernel => Alive(u)'
      BY Zenon, <2>1 DEF PagingInv, EntriesWellFormed
    <3>3. CASE <<u, x>> = r
      <4>1. n # vvar_paddr
        BY <1>3, FrameAssumption, Zenon
      <4>2. x \in Pages
        BY <1>1, <3>3
      <4> QED
        BY <1>2, <1>5, <3>2, <3>3, <4>1, <4>2, Zenon
    <3>4. CASE <<u, x>> # r
      BY Zenon, <1>5, <3>1, <3>2, <3>4 DEF PagingInv, EntriesWellFormed
    <3> QED
      BY <3>3, <3>4, Zenon
  <2> QED
    BY <2>2, <2>3, Zenon DEF EntriesWellFormed, PagesOf
<1>8. WritableIsExclusive'
  <2> SUFFICES ASSUME NEW q \in Refs, flags'[q] \in {"rw", "table"}
               PROVE  /\ pte'[q] \notin Reserved
                      /\ \A o \in Refs : Present(o)' /\ pte'[o] = pte'[q] => o = q
    BY Zenon DEF WritableIsExclusive
  <2>1. CASE q = r
    BY <1>3, <1>5, <2>1, Zenon
  <2>2. CASE q # r
    <3>1. flags[q] \in {"rw", "table"} /\ pte'[q] = pte[q] /\ Present(q)
      BY <1>5, <2>2, Zenon DEF Present
    <3>2. /\ pte[q] \notin Reserved
          /\ \A o \in Refs : Present(o) /\ pte[o] = pte[q] => o = q
      BY <3>1, Zenon DEF PagingInv, WritableIsExclusive
    <3> QED
      BY <1>3, <1>5, <2>2, <3>1, <3>2
  <2> QED
    BY Zenon, <2>1, <2>2
<1>9. TlbCoherent'
  <2> SUFFICES ASSUME NEW e \in tlb'
               PROVE  /\ e[1][1] \in Active
                      /\ Present(e[1])' /\ e[2] = pte'[e[1]]
                      /\ e[3] = (flags'[e[1]] = "rw")
    BY <1>4, Zenon DEF TlbCoherent, Active
  <2>1. e \in tlb /\ e[1] # r /\ e[1] \in Places
    BY <1>4, Zenon DEF Invalidate, PagingInv, TypeOK
  <2>2. e[1] \in Refs
    BY <2>1, Zenon DEF Places, Refs, Spaces, Slots, Pages
  <2>3. /\ e[1][1] \in Active
        /\ Present(e[1]) /\ e[2] = pte[e[1]] /\ e[3] = (flags[e[1]] = "rw")
    BY <2>1, Zenon DEF PagingInv, TlbCoherent
  <2> QED
    BY <1>5, <2>1, <2>2, <2>3, Zenon
<1>10. TablesHoldPages'
  <2>1. \A u \in Spaces, x \in Slots : Present(<<u, x>>)' <=> Present(<<u, x>>)
    BY <1>5, Zenon DEF Refs
  <2> QED
    BY Zenon, <2>1 DEF PagingInv, TablesHoldPages, PagesOf, Slots, Pages
<1>11. ZeroPageIsZero'
  <2>1. CASE Shared(f)
    <3>1. PICK g \in FirstFit({r[2]}) : mem' = [mem EXCEPT ![g[r[2]]] = mem[f]]
      BY Zenon, <2>1 DEF cow_handler, f
    <3>2. g[r[2]] # zero_page
      BY <1>2, FirstFitFresh, FrameAssumption DEF PagingInv
    <3> QED
      BY <3>1, <3>2, FrameAssumption, Zenon DEF PagingInv, TypeOK, ZeroPageIsZero
  <2>2. CASE ~Shared(f)
    BY <2>2, Zenon DEF cow_handler, PagingInv, ZeroPageIsZero, f
  <2> QED
    BY <2>1, <2>2, Zenon
<1> QED
  BY <1>3, <1>6, <1>7, <1>8, <1>9, <1>10, <1>11 DEF PagingInv

\* A switch of address space preserves the invariant.
LEMMA ChangePml4Step ==
    ASSUME PagingInv, NEW t \in Procs, change_pml4(t)
    PROVE  PagingInv'
<1>1. /\ memory_bitmap' = memory_bitmap /\ first_usable' = first_usable
      /\ pte' = pte /\ flags' = flags /\ mem' = mem
      /\ pml4_physical' = t /\ tlb' = {} /\ Alive(t)
  BY Zenon DEF change_pml4
<1>2. TypeOK'
  BY <1>1, Zenon DEF PagingInv, TypeOK
<1>3. EntriesWellFormed'
  <2>1. \A u \in Spaces : Alive(u)' <=> Alive(u)
    BY <1>1, Zenon DEF Alive
  <2>2. \A u \in Spaces, x \in Slots : Present(<<u, x>>)' <=> Present(<<u, x>>)
    BY <1>1, Zenon DEF Present
  <2>3. Alive(pml4_physical)'
    BY Zenon, <1>1 DEF Alive, PagingInv, EntriesWellFormed
  <2> QED
    BY <1>1, <2>1, <2>2, <2>3, Zenon DEF PagingInv, EntriesWellFormed, PagesOf
<1>4. RefcountExact' /\ WritableIsExclusive' /\ NoFreeFrameBelowHint'
  BY Zenon, <1>1 DEF PagingInv, RefcountExact, WritableIsExclusive,
              NoFreeFrameBelowHint, Users, Present
<1>5. TlbCoherent'
  BY <1>1, Zenon DEF TlbCoherent
<1>6. TablesHoldPages'
  <2>1. \A u, x : Present(<<u, x>>)' <=> Present(<<u, x>>)
    BY <1>1, Zenon DEF Present
  <2> QED
    BY Zenon, <2>1 DEF PagingInv, TablesHoldPages, PagesOf
<1>7. ZeroPageIsZero'
  BY <1>1, Zenon DEF PagingInv, ZeroPageIsZero
<1> QED
  BY <1>2, <1>3, <1>4, <1>5, <1>6, <1>7, Zenon DEF PagingInv

\* Only mem changes: stores and the clock preserve the invariant.
LEMMA MemoryStep ==
    ASSUME PagingInv, mem' \in [Frames -> Values], ZeroPageIsZero',
           UNCHANGED <<memory_bitmap, first_usable, pte, flags, pml4_physical>>,
           TlbCoherent', tlb' \subseteq Places \X Frames \X BOOLEAN
    PROVE  PagingInv'
<1>1. /\ memory_bitmap' = memory_bitmap /\ first_usable' = first_usable
      /\ pte' = pte /\ flags' = flags /\ pml4_physical' = pml4_physical
  BY Zenon
<1>2. TypeOK'
  BY <1>1, Zenon DEF PagingInv, TypeOK
<1>3. EntriesWellFormed'
  <2>1. \A u \in Spaces : Alive(u)' <=> Alive(u)
    BY <1>1, Zenon DEF Alive
  <2>2. \A u \in Spaces, x \in Slots : Present(<<u, x>>)' <=> Present(<<u, x>>)
    BY <1>1, Zenon DEF Present
  <2>3. Alive(pml4_physical)'
    BY Zenon, <1>1 DEF Alive, PagingInv, EntriesWellFormed
  <2> QED
    BY <1>1, <2>1, <2>2, <2>3 DEF PagingInv, EntriesWellFormed, PagesOf
<1>4. RefcountExact' /\ WritableIsExclusive' /\ NoFreeFrameBelowHint'
  BY <1>1 DEF PagingInv, RefcountExact, WritableIsExclusive,
              NoFreeFrameBelowHint, Users, Present
<1>5. TablesHoldPages'
  <2>1. \A u, x : Present(<<u, x>>)' <=> Present(<<u, x>>)
    BY <1>1, Zenon DEF Present
  <2> QED
    BY Zenon, <2>1 DEF PagingInv, TablesHoldPages, PagesOf
<1> QED
  BY <1>2, <1>3, <1>4, <1>5, Zenon DEF PagingInv

\* A page walk caches what the tables say.
LEMMA WalkStep ==
    ASSUME PagingInv, NEW r \in Places, walk(r)
    PROVE  PagingInv'
<1>1. /\ UNCHANGED <<memory_bitmap, first_usable, pte, flags, pml4_physical, mem>>
      /\ r[1] \in Active /\ Present(r)
      /\ tlb' = tlb \cup {<<r, pte[r], flags[r] = "rw">>}
  BY Zenon DEF walk
<1>2. r \in Refs /\ pte[r] \in Frames
  BY Zenon DEF Places, Refs, Spaces, Slots, Pages, PagingInv, TypeOK
<1>3. tlb' \subseteq Places \X Frames \X BOOLEAN
  <2> DEFINE b == flags[r] = "rw"
  <2>1. b \in BOOLEAN /\ tlb' = tlb \cup {<<r, pte[r], b>>}
    BY <1>1, Zenon
  <2> HIDE DEF b
  <2> QED
    BY <1>2, <2>1 DEF PagingInv, TypeOK
<1>4. TlbCoherent'
  <2> SUFFICES ASSUME NEW e \in tlb'
               PROVE  /\ e[1][1] \in Active /\ Present(e[1])
                      /\ e[2] = pte[e[1]] /\ e[3] = (flags[e[1]] = "rw")
    BY <1>1, Zenon DEF TlbCoherent, Active, Present
  <2>1. CASE e \in tlb
    BY <2>1, Zenon DEF PagingInv, TlbCoherent
  <2>2. CASE e = <<r, pte[r], flags[r] = "rw">>
    BY <1>1, <2>2, Zenon
  <2> QED
    BY <1>1, <2>1, <2>2, Zenon
<1> QED
  BY <1>1, <1>3, <1>4, MemoryStep, Zenon DEF PagingInv, TypeOK, ZeroPageIsZero

\* A store through a cached translation.
LEMMA StoreStep ==
    ASSUME PagingInv, NEW e \in tlb, NEW v \in Values, store(e, v)
    PROVE  PagingInv'
<1>1. /\ UNCHANGED <<memory_bitmap, first_usable, pte, flags, pml4_physical>>
      /\ tlb' = tlb /\ mem' = [mem EXCEPT ![e[2]] = v]
  BY Zenon DEF store
<1>2. mem' \in [Frames -> Values]
  BY <1>1, Zenon DEF PagingInv, TypeOK
<1>3. TlbCoherent' /\ tlb' \subseteq Places \X Frames \X BOOLEAN
  BY <1>1, Zenon DEF PagingInv, TypeOK, TlbCoherent, Active, Present
<1>4. ZeroPageIsZero'
  <2>1. e[3] /\ e[1] \in Places /\ e[2] = pte[e[1]] /\ e[3] = (flags[e[1]] = "rw")
    BY Zenon DEF store, PagingInv, TypeOK, TlbCoherent
  <2>2. e[1] \in Refs /\ flags[e[1]] = "rw"
    BY Zenon, <2>1 DEF Places, Refs, Spaces, Slots, Pages
  <2>3. e[2] # zero_page
    BY <2>1, <2>2, FrameAssumption DEF PagingInv, WritableIsExclusive
  <2> QED
    BY <1>1, <2>3, FrameAssumption, Zenon DEF PagingInv, TypeOK, ZeroPageIsZero
<1> QED
  BY <1>1, <1>2, <1>3, <1>4, MemoryStep, Zenon

\* The clock interrupt.
LEMMA PitTickStep ==
    ASSUME PagingInv, NEW v \in Values, pit_tick(v)
    PROVE  PagingInv'
<1>1. /\ UNCHANGED <<memory_bitmap, first_usable, pte, flags, pml4_physical>>
      /\ tlb' = tlb /\ mem' = [mem EXCEPT ![vvar_paddr] = v]
  BY Zenon DEF pit_tick
<1>2. mem' \in [Frames -> Values]
  BY Zenon, <1>1 DEF PagingInv, TypeOK
<1>3. TlbCoherent' /\ tlb' \subseteq Places \X Frames \X BOOLEAN
  BY <1>1, Zenon DEF PagingInv, TypeOK, TlbCoherent, Active, Present
<1>4. ZeroPageIsZero'
  BY <1>1, FrameAssumption, Zenon DEF PagingInv, TypeOK, ZeroPageIsZero
<1> QED
  BY <1>1, <1>2, <1>3, <1>4, MemoryStep, Zenon

\* The state init_paging and run_init leave satisfies the invariant.
LEMMA InitEstablishes == Init => PagingInv
<1> SUFFICES ASSUME Init PROVE PagingInv
  BY Zenon
<1>1. PICK s \in Procs, root \in Frames \ Reserved :
         /\ \A f \in Frames \ Reserved : root <= f
         /\ memory_bitmap = [f \in Frames |->
                                IF f \in Reserved \cup {root} THEN 1 ELSE 0]
         /\ first_usable = root + 1
         /\ pte = [r \in Refs |-> IF r = <<s, Root>> THEN root ELSE 0]
         /\ flags = [r \in Refs |-> IF r = <<s, Root>> THEN "table" ELSE "none"]
         /\ pml4_physical = s
  BY Zenon DEF Init
<1>2. tlb = {} /\ mem = [f \in Frames |-> Zero]
  BY Zenon DEF Init
<1>3. /\ s \in Spaces /\ s # Kernel /\ <<s, Root>> \in Refs /\ 0 \in Frames
      /\ \A r \in Refs : Present(r) <=> r = <<s, Root>>
      /\ flags[<<s, Root>>] = "table" /\ pte[<<s, Root>>] = root
  BY <1>1, SpaceAssumption, FrameAssumption
     DEF Spaces, Refs, Slots, Present, Frames
<1>4. TypeOK
  <2>1. first_usable \in 0 .. usable_page_count
    BY <1>1, FrameAssumption DEF Frames
  <2> QED
    BY <1>1, <1>2, <1>3, <2>1, ValueAssumption, Zenon DEF TypeOK, Flags
<1>5. EntriesWellFormed
  <2>1. \A u \in Spaces, x \in Slots :
           /\ <<u, x>> \in Refs
           /\ Present(<<u, x>>) <=> u = s /\ x = Root
    BY <1>3 DEF Refs
  <2>2. root # vvar_paddr /\ Root \notin Pages
    BY FrameAssumption, SlotAssumption, Zenon
  <2> QED
    BY <1>1, <1>3, <2>1, <2>2, Zenon DEF EntriesWellFormed, Alive, Present
<1>6. RefcountExact
  <2> SUFFICES ASSUME NEW f \in Frames
               PROVE  memory_bitmap[f] = Cardinality(Users(f))
                                         + IF f \in Reserved THEN 1 ELSE 0
    BY Zenon DEF RefcountExact
  <2>1. CASE f = root
    <3>1. Users(f) = {<<s, Root>>}
      BY <1>3, <2>1, Zenon DEF Users
    <3>2. Cardinality({<<s, Root>>}) = 1
      BY Zenon, FS_Singleton
    <3> QED
      BY <1>1, <2>1, <3>1, <3>2
  <2>2. CASE f # root
    <3>1. Users(f) = {}
      BY <1>3, <2>2, Zenon DEF Users
    <3>2. Cardinality({}) = 0
      BY FS_EmptySet, Zenon
    <3> QED
      BY <1>1, <2>2, <3>1, <3>2
  <2> QED
    BY <2>1, <2>2, Zenon
<1>7. WritableIsExclusive
  BY <1>1, <1>3, Zenon DEF WritableIsExclusive, Present
<1>8. TlbCoherent
  BY <1>2, Zenon DEF TlbCoherent
<1>9. TablesHoldPages
  <2>1. \A u \in Spaces, x \in Tables \cup Pages : ~Present(<<u, x>>)
    BY <1>3, SlotAssumption DEF Refs, Slots
  <2> QED
    BY Zenon, <2>1 DEF TablesHoldPages, PagesOf, Pages
<1>10. NoFreeFrameBelowHint
  <2> SUFFICES ASSUME NEW f \in Frames, memory_bitmap[f] = 0
               PROVE  root + 1 <= f
    BY <1>1, Zenon DEF NoFreeFrameBelowHint
  <2>1. f \notin Reserved /\ f # root
    BY <1>1
  <2> QED
    BY <1>1, <2>1 DEF Frames
<1>11. ZeroPageIsZero
  BY <1>2, FrameAssumption, Zenon DEF ZeroPageIsZero
<1> QED
  BY <1>4, <1>5, <1>6, <1>7, <1>8, <1>9, <1>10, <1>11, Zenon DEF PagingInv

\* Every step of paging.c preserves the invariant.
LEMMA NextPreserves ==
    ASSUME PagingInv, [Next]_vars
    PROVE  PagingInv'
<1>1. pml4_physical \in Active /\ Kernel \in Active /\ pml4_physical # Kernel
  BY SpaceAssumption, Zenon DEF Active, PagingInv, TypeOK
<1>2. /\ \A s \in Active : \A R \in Regions(s) : R \in SUBSET PagesOf(s)
      /\ PagesOf(pml4_physical) = UserPages /\ PagesOf(Kernel) = KernelPages
  BY <1>1, Zenon DEF Regions, PagesOf
<1>3. ASSUME NEW R \in Regions(pml4_physical), NEW v \in Values,
             alloc_region(pml4_physical, R, v)
      PROVE  PagingInv'
  BY <1>1, <1>2, <1>3, AllocRegionStep, Zenon
<1>4. ASSUME NEW R \in Regions(pml4_physical), alloc_zero_region(pml4_physical, R)
      PROVE  PagingInv'
  BY <1>1, <1>2, <1>4, MapSharedStep, FrameAssumption, Zenon DEF alloc_zero_region
<1>5. ASSUME NEW R \in Regions(pml4_physical), free_region(pml4_physical, R)
      PROVE  PagingInv'
  BY <1>1, <1>2, <1>5, FreeRegionStep, Zenon
<1>6. ASSUME NEW R \in Regions(Kernel),
             alloc_region(Kernel, R, Zero) \/ free_region(Kernel, R)
      PROVE  PagingInv'
  BY <1>1, <1>2, <1>6, AllocRegionStep, FreeRegionStep, ValueAssumption, Zenon
<1>7. ASSUME NEW p \in UserPages, alloc_mmio_region(pml4_physical, p)
      PROVE  PagingInv'
  <2>1. {p} \in SUBSET PagesOf(pml4_physical)
    BY <1>2, Zenon
  <2> QED
    BY <1>1, <1>7, <2>1, MapSharedStep, Zenon DEF alloc_mmio_region
<1>8. ASSUME NEW t \in Procs,
             \/ clone_base(t) \/ clone_page_tables(t)
             \/ free_page_tables(t) \/ change_pml4(t)
      PROVE  PagingInv'
  BY <1>8, CloneBaseStep, ClonePageTablesStep, FreePageTablesStep, ChangePml4Step, Zenon
<1>9. ASSUME NEW r \in Places, cow_handler(r) \/ walk(r)
      PROVE  PagingInv'
  BY <1>9, CowHandlerStep, WalkStep, Zenon
<1>10. ASSUME NEW e \in tlb, NEW v \in Values, store(e, v)
       PROVE  PagingInv'
  BY <1>10, StoreStep, Zenon
<1>11. ASSUME NEW v \in Values, pit_tick(v)
       PROVE  PagingInv'
  BY <1>11, PitTickStep, Zenon
<1>12. CASE UNCHANGED vars
  <2>1. /\ UNCHANGED <<memory_bitmap, first_usable, pte, flags, pml4_physical>>
        /\ tlb' = tlb /\ mem' = mem
    BY <1>12, Zenon DEF vars
  <2>2. TlbCoherent' /\ tlb' \subseteq Places \X Frames \X BOOLEAN
        /\ mem' \in [Frames -> Values]
    BY <2>1, Zenon DEF PagingInv, TypeOK, TlbCoherent, Active, Present
  <2>3. ZeroPageIsZero'
    BY <2>1, Zenon DEF PagingInv, ZeroPageIsZero
  <2> QED
    BY <2>1, <2>2, <2>3, MemoryStep, Zenon
<1> QED
  BY <1>3, <1>4, <1>5, <1>6, <1>7, <1>8, <1>9, <1>10, <1>11, <1>12, Zenon DEF Next

\* The inductive invariant holds in every reachable state of paging.c.
THEOREM PagingInvariant == Spec => []PagingInv
BY InitEstablishes, NextPreserves, PTL DEF Spec

\* The counts of memory_bitmap are exact (what free_page and free_page_tables
\* rely on to free a frame exactly once).
THEOREM RefcountsAreExact == Spec => []RefcountExact
<1>1. PagingInv => RefcountExact
  BY Zenon DEF PagingInv
<1> QED
  BY <1>1, PagingInvariant, PTL

\* No page is writable while it is shared (what clone_page_tables and
\* cow_handler are for), and the processor's cache never says otherwise.
THEOREM NoSharedWritablePage == Spec => [](WritableIsExclusive /\ TlbCoherent)
<1>1. PagingInv => WritableIsExclusive /\ TlbCoherent
  BY Zenon DEF PagingInv
<1> QED
  BY <1>1, PagingInvariant, PTL

\* The frame every untouched stack page reads from stays zero, whatever the
\* processes write.
THEOREM ZeroPageStaysZero == Spec => []ZeroPageIsZero
<1>1. PagingInv => ZeroPageIsZero
  BY Zenon DEF PagingInv
<1> QED
  BY <1>1, PagingInvariant, PTL

\* TlbCoherent: every entry that changes is flushed, or belongs to a space
\* that no processor uses, so the cache holds no translation that is gone.
THEOREM TranslationsAreCurrent == Spec => []TlbCoherent
<1>1. PagingInv => TlbCoherent
  BY Zenon DEF PagingInv
<1> QED BY <1>1, PagingInvariant, PTL

\* NoFreeFrameBelowHint: get_available_address, which starts at first_usable,
\* misses no free frame.
THEOREM HintMissesNothing == Spec => []NoFreeFrameBelowHint
<1>1. PagingInv => NoFreeFrameBelowHint
  BY Zenon DEF PagingInv
<1> QED BY <1>1, PagingInvariant, PTL

\* TablesHoldPages: no table is freed while an entry below it is present, and
\* none is kept when the last one is gone.
THEOREM TablesGoWithTheirPages == Spec => []TablesHoldPages
<1>1. PagingInv => TablesHoldPages
  BY Zenon DEF PagingInv
<1> QED BY <1>1, PagingInvariant, PTL

----------------------------------------------------------------------------
(* The refinement of AddressSpaces.                                        *)

\* What place r holds, as the processor sees it.
ImageOf(r) == IF flags[r] = "none" THEN Unmapped
              ELSE IF flags[r] = "ro" THEN Vvar
              ELSE mem[pte[r]]

\* The abstract state, as the instance of AddressSpaces defines it.
absImage == [r \in Places |-> IF flags[r] = "none" THEN Unmapped
                              ELSE IF flags[r] = "ro" THEN Vvar
                              ELSE mem[pte[r]]]
absAlive == {s \in Procs : Alive(s)}
absClock == mem[vvar_paddr]

\* A place is an entry of the page tables, of a page.
LEMMA PlaceIsEntry ==
    ASSUME NEW r \in Places
    PROVE  /\ r \in Refs /\ r = <<r[1], r[2]>>
           /\ r[1] \in Spaces /\ r[2] \in Pages /\ r[2] \in PagesOf(r[1])
           /\ r[2] # Root /\ r[2] \notin Tables
<1>1. \/ r[1] \in Procs /\ r[2] \in UserPages /\ r = <<r[1], r[2]>>
      \/ r[1] = Kernel /\ r[2] \in KernelPages /\ r = <<r[1], r[2]>>
  BY DEF Places
<1> QED
  BY <1>1, SlotAssumption, SpaceAssumption, Zenon DEF Refs, Spaces, Slots, Pages, PagesOf

\* Two images are equal when they agree on every place.
LEMMA ImageUnchanged ==
    ASSUME \A r \in Places : ImageOf(r)' = ImageOf(r)
    PROVE  absImage' = absImage
BY Zenon DEF absImage, ImageOf

\* The invariant's part that the mapping needs: what is mapped holds a value.
LEMMA MappedHoldsValue ==
    ASSUME PagingInv, NEW r \in Places, flags[r] \in {"rw", "cow"}
    PROVE  ImageOf(r) \in Values /\ ImageOf(r) = mem[pte[r]] /\ pte[r] # vvar_paddr
<1>1. r \in Refs /\ r = <<r[1], r[2]>> /\ r[1] \in Spaces /\ r[2] \in Slots
  BY PlaceIsEntry, Zenon DEF Slots
<1>2. pte[r] \in Frames /\ mem[pte[r]] \in Values
  BY <1>1, Zenon DEF PagingInv, TypeOK
<1>3. flags[r] = "ro" <=> pte[r] = vvar_paddr
  BY <1>1, Zenon DEF PagingInv, EntriesWellFormed, Present
<1> QED
  BY <1>2, <1>3, Zenon DEF ImageOf

\* A copy-on-write fault is invisible: it copies what the page held.
LEMMA CowHandlerInvisible ==
    ASSUME PagingInv, NEW r \in Places, cow_handler(r)
    PROVE  UNCHANGED <<absImage, absAlive, pml4_physical, absClock>>
<1>1. r \in Refs /\ flags[r] = "cow" /\ flags' = [flags EXCEPT ![r] = "rw"]
      /\ pml4_physical' = pml4_physical /\ {r[2]} \in SUBSET Slots /\ r[2] # Root
  BY PlaceIsEntry, Zenon DEF cow_handler, Slots
<1>2. PICK n \in Frames :
         /\ n # vvar_paddr
         /\ pte' = [pte EXCEPT ![r] = n]
         /\ mem' = [mem EXCEPT ![n] = mem[pte[r]]]
         /\ \A q \in Refs : Present(q) /\ pte[q] = n => q = r
  <2>1. pte[r] # vvar_paddr /\ pte[r] \in Frames
    BY <1>1, MappedHoldsValue, Zenon DEF PagingInv, TypeOK
  <2>2. CASE Shared(pte[r])
    <3>1. PICK g \in FirstFit({r[2]}) :
             /\ mem' = [mem EXCEPT ![g[r[2]]] = mem[pte[r]]]
             /\ pte' = [pte EXCEPT ![r] = g[r[2]]]
      BY Zenon, <2>2 DEF cow_handler
    <3>2. /\ g[r[2]] \in Frames /\ g[r[2]] \notin Reserved
          /\ \A q \in Refs : Present(q) => pte[q] # g[r[2]]
      BY <1>1, FirstFitFresh DEF PagingInv
    <3> QED
      BY Zenon, <3>1, <3>2, FrameAssumption
  <2>3. CASE ~Shared(pte[r])
    <3>1. mem' = mem /\ pte' = pte
      BY <2>3, Zenon DEF cow_handler
    <3>2. IsFiniteSet(Users(pte[r])) /\ Cardinality(Users(pte[r])) \in Nat
          /\ r \in Users(pte[r])
      BY <1>1, UsersFinite, Zenon DEF Users, Present
    <3>3. Cardinality(Users(pte[r])) # 0
      BY <3>2, FS_EmptySet, Zenon
    <3>4. Cardinality(Users(pte[r])) = 1
      BY <2>1, <2>3, <3>2, <3>3 DEF Shared, PagingInv, TypeOK, RefcountExact
    <3>5. Users(pte[r]) = {r}
      BY <3>2, <3>4, FS_Singleton
    <3>6. \A q \in Refs : Present(q) /\ pte[q] = pte[r] => q = r
      BY <3>5, Zenon DEF Users
    <3>7. pte' = [pte EXCEPT ![r] = pte[r]] /\ mem' = [mem EXCEPT ![pte[r]] = mem[pte[r]]]
      BY <1>1, <2>1, <3>1, Zenon DEF PagingInv, TypeOK
    <3> QED
      BY Zenon, <2>1, <3>6, <3>7
  <2> QED
    BY <2>2, <2>3, Zenon
<1>3. absImage' = absImage
  <2> SUFFICES ASSUME NEW q \in Places
               PROVE  ImageOf(q)' = ImageOf(q)
    BY ImageUnchanged, Zenon
  <2>1. q \in Refs
    BY PlaceIsEntry, Zenon
  <2>2. CASE q = r
    BY <1>1, <1>2, <2>2, Zenon DEF ImageOf, PagingInv, TypeOK
  <2>3. CASE q # r
    <3>1. flags'[q] = flags[q] /\ pte'[q] = pte[q]
      BY <1>1, <1>2, <2>1, <2>3 DEF PagingInv, TypeOK
    <3>2. flags[q] # "none" => mem'[pte[q]] = mem[pte[q]]
      BY <1>2, <2>1, <2>3, Zenon DEF PagingInv, TypeOK, Present
    <3> QED
      BY <3>1, <3>2, Zenon DEF ImageOf
  <2> QED
    BY <2>2, <2>3, Zenon
<1>4. absAlive' = absAlive
  <2>1. \A u \in Procs : flags'[<<u, Root>>] = flags[<<u, Root>>]
    <3>1. \A u \in Procs : <<u, Root>> # r /\ <<u, Root>> \in Refs
      BY <1>1 DEF Refs, Spaces, Slots
    <3> QED
      BY <1>1, <3>1, Zenon DEF PagingInv, TypeOK
  <2> QED
    BY <2>1, Zenon DEF absAlive, Alive
<1>5. absClock' = absClock
  BY <1>2, FrameAssumption, Zenon DEF absClock, PagingInv, TypeOK
<1> QED
  BY <1>1, <1>3, <1>4, <1>5, Zenon

\* alloc_region makes the region read what its caller fills it with.
LEMMA AllocRegionMaps ==
    ASSUME PagingInv, NEW s \in Active, NEW R \in SUBSET PagesOf(s),
           NEW v \in Values, alloc_region(s, R, v)
    PROVE  Abstract!MapSpec(s, R, v)
<1> DEFINE need == NewTables(s, R) \cup R
<1>1. s \in Spaces /\ R \in SUBSET Pages /\ R \in SUBSET Slots
  BY Zenon DEF Active, PagingInv, TypeOK, Spaces, PagesOf, Pages, Slots
<1>2. /\ need \in SUBSET Slots /\ R \subseteq need
      /\ \A p \in Pages : p \in need => p \in R
      /\ Root \notin need
  BY <1>1, SlotAssumption DEF NewTables, TablesFor, Slots, Pages
<1>a. PICK g \in FirstFit(need) :
         /\ Install(s, g)
         /\ mem' = [f \in Frames |->
                       IF \E p \in R : g[p] = f THEN v
                       ELSE IF \E t \in need : g[t] = f THEN Zero
                       ELSE mem[f]]
  BY Zenon DEF alloc_region
<1>3. /\ pte' = [r \in Refs |-> IF r[1] = s /\ r[2] \in need
                               THEN g[r[2]] ELSE pte[r]]
      /\ mem' = [f \in Frames |->
                    IF \E p \in R : g[p] = f THEN v
                    ELSE IF \E t \in need : g[t] = f THEN Zero
                    ELSE mem[f]]
  <2>1. DOMAIN g = need
    BY Zenon DEF FirstFit
  <2> HIDE DEF need
  <2> QED
    BY <1>a, <2>1, Zenon DEF Install
<1>4. /\ flags' = [r \in Refs |->
                     IF r[1] = s /\ r[2] \in R THEN "rw"
                     ELSE IF r[1] = s /\ r[2] \in need THEN "table"
                     ELSE flags[r]]
      /\ pml4_physical' = pml4_physical
      /\ \A p \in R : ~Present(<<s, p>>)
  BY Zenon DEF alloc_region, Mark
<1> HIDE DEF need
<1>5. /\ g \in [need -> Frames]
      /\ \A x \in need : /\ g[x] \notin Reserved
                         /\ \A r \in Refs : Present(r) => pte[r] # g[x]
  BY <1>2, <1>3, FirstFitFresh DEF PagingInv
<1>6. \A p \in R : <<s, p>> \in Places
  <2>1. s = Kernel \/ s \in Procs
    BY <1>1, Zenon DEF Spaces
  <2> QED
    BY <2>1, SpaceAssumption, Zenon DEF PagesOf, Places
<1>7. ASSUME NEW r \in Places
      PROVE  ImageOf(r)' = IF r[1] = s /\ r[2] \in R THEN v ELSE ImageOf(r)
  <2>1. r \in Refs /\ r[2] \in Pages
    BY PlaceIsEntry, Zenon
  <2>2. CASE r[1] = s /\ r[2] \in R
    <3>1. flags'[r] = "rw" /\ pte'[r] = g[r[2]] /\ g[r[2]] \in Frames
      BY <1>2, <1>3, <1>4, <1>5, <2>1, <2>2, Zenon
    <3>2. mem'[g[r[2]]] = v
      BY <1>3, <2>2, <3>1, Zenon
    <3> QED
      BY <2>2, <3>1, <3>2, Zenon DEF ImageOf
  <2>3. CASE ~(r[1] = s /\ r[2] \in R)
    <3>1. flags'[r] = flags[r] /\ pte'[r] = pte[r]
      BY <1>2, <1>3, <1>4, <2>1, <2>3, Zenon
    <3>2. Present(r) => mem'[pte[r]] = mem[pte[r]]
      BY <1>2, <1>3, <1>5, <2>1 DEF PagingInv, TypeOK
    <3> QED
      BY <2>3, <3>1, <3>2, Zenon DEF ImageOf, Present
  <2> QED
    BY <2>2, <2>3, Zenon
<1>8. \A p \in R : ImageOf(<<s, p>>) = Unmapped
  BY <1>4, Zenon DEF ImageOf, Present
<1>9. absAlive' = absAlive
  <2>1. \A u \in Procs : flags'[<<u, Root>>] = flags[<<u, Root>>]
    BY <1>1, <1>2, <1>4, SlotAssumption, Zenon DEF Refs, Spaces, Slots
  <2> QED
    BY <2>1, Zenon DEF absAlive, Alive
<1>10. absClock' = absClock
  <2>1. \A x \in need : g[x] # vvar_paddr
    BY <1>5, FrameAssumption, Zenon
  <2> QED
    BY <1>2, <1>3, <2>1, FrameAssumption, Zenon DEF absClock
<1> QED
  BY <1>4, <1>6, <1>7, <1>8, <1>9, <1>10
     DEF Abstract!MapSpec, Abstract!Places, Places, ImageOf, absAlive, absClock

\* alloc_zero_region and alloc_mmio_region make the region read what the
\* frame holds, or show the clock.
LEMMA MapSharedMaps ==
    ASSUME PagingInv, NEW s \in Active, NEW R \in SUBSET PagesOf(s),
           NEW frame \in Reserved, NEW flag \in {"cow", "ro"},
           MapShared(s, R, frame, flag)
    PROVE  \E v \in Values \cup {Vvar} : Abstract!MapSpec(s, R, v)
<1> DEFINE need == NewTables(s, R)
<1>1. s \in Spaces /\ R \in SUBSET Pages /\ R \in SUBSET Slots /\ frame \in Frames
  BY FrameAssumption, Zenon
     DEF Active, PagingInv, TypeOK, Spaces, PagesOf, Pages, Slots
<1>2. /\ need \in SUBSET Slots /\ need \cap Pages = {} /\ Root \notin need
      /\ Root \notin R
  BY <1>1, SlotAssumption DEF NewTables, TablesFor, Slots, Pages
<1>a. PICK g \in FirstFit(need) :
         /\ Install(s, [x \in need \cup R |-> IF x \in need THEN g[x] ELSE frame])
         /\ mem' = [f \in Frames |->
                       IF \E t \in need : g[t] = f THEN Zero ELSE mem[f]]
  BY Zenon DEF MapShared
<1>3. /\ pte' = [r \in Refs |->
                    IF r[1] = s /\ r[2] \in need THEN g[r[2]]
                    ELSE IF r[1] = s /\ r[2] \in R THEN frame
                    ELSE pte[r]]
      /\ mem' = [f \in Frames |->
                    IF \E t \in need : g[t] = f THEN Zero ELSE mem[f]]
  <2> HIDE DEF need
  <2> QED
    BY <1>a, Zenon DEF Install
<1>4. /\ flags' = [r \in Refs |->
                     IF r[1] = s /\ r[2] \in R THEN flag
                     ELSE IF r[1] = s /\ r[2] \in need THEN "table"
                     ELSE flags[r]]
      /\ pml4_physical' = pml4_physical
      /\ \A p \in R : ~Present(<<s, p>>)
  BY Zenon DEF MapShared, Mark
<1> HIDE DEF need
<1>5. /\ g \in [need -> Frames]
      /\ \A x \in need : /\ g[x] \notin Reserved
                         /\ \A r \in Refs : Present(r) => pte[r] # g[x]
  BY <1>2, <1>3, FirstFitFresh DEF PagingInv
<1>6. \A p \in R : <<s, p>> \in Places
  <2>1. s = Kernel \/ s \in Procs
    BY <1>1, Zenon DEF Spaces
  <2> QED
    BY <2>1, SpaceAssumption, Zenon DEF PagesOf, Places
<1>7. ASSUME NEW r \in Places
      PROVE  ImageOf(r)' = IF r[1] = s /\ r[2] \in R
                           THEN (IF flag = "ro" THEN Vvar ELSE mem[frame])
                           ELSE ImageOf(r)
  <2>1. r \in Refs /\ r[2] \in Pages /\ r[2] \notin need
    BY <1>2, PlaceIsEntry, Zenon
  <2>2. CASE r[1] = s /\ r[2] \in R
    <3>1. flags'[r] = flag /\ pte'[r] = frame
      BY <1>3, <1>4, <2>1, <2>2, Zenon
    <3>2. mem'[frame] = mem[frame]
      BY <1>1, <1>3, <1>5, Zenon
    <3> QED
      BY <2>2, <3>1, <3>2, Zenon DEF ImageOf
  <2>3. CASE ~(r[1] = s /\ r[2] \in R)
    <3>1. flags'[r] = flags[r] /\ pte'[r] = pte[r]
      BY <1>3, <1>4, <2>1, <2>3, Zenon
    <3>2. Present(r) => mem'[pte[r]] = mem[pte[r]]
      BY <1>3, <1>5, <2>1, Zenon DEF PagingInv, TypeOK
    <3> QED
      BY <2>3, <3>1, <3>2, Zenon DEF ImageOf, Present
  <2> QED
    BY <2>2, <2>3, Zenon
<1>8. \A p \in R : ImageOf(<<s, p>>) = Unmapped
  BY <1>4, Zenon DEF ImageOf, Present
<1>9. absAlive' = absAlive
  <2>1. \A u \in Procs : flags'[<<u, Root>>] = flags[<<u, Root>>]
    BY <1>1, <1>2, <1>4, SlotAssumption, Zenon DEF Refs, Spaces, Slots
  <2> QED
    BY <2>1, Zenon DEF absAlive, Alive
<1>10. absClock' = absClock
  <2>1. \A x \in need : g[x] # vvar_paddr
    BY <1>5, FrameAssumption, Zenon
  <2> QED
    BY <1>3, <2>1, FrameAssumption, Zenon DEF absClock
<1>11. PICK v \in Values \cup {Vvar} : v = IF flag = "ro" THEN Vvar ELSE mem[frame]
  BY <1>1, Zenon DEF PagingInv, TypeOK
<1>12. \A r \in Places : ImageOf(r)' = IF r[1] = s /\ r[2] \in R THEN v ELSE ImageOf(r)
  BY <1>7, <1>11, ZenonT(30)
<1>13. Abstract!MapSpec(s, R, v)
  BY <1>4, <1>6, <1>8, <1>9, <1>10, <1>12
     DEF Abstract!MapSpec, Abstract!Places, Places, ImageOf, absAlive, absClock
<1> QED
  BY <1>13, Zenon

\* Entries that Clear does not drop keep what they show.
LEMMA ClearKeepsOthers ==
    ASSUME PagingInv, NEW X \in SUBSET Refs, \A r \in X : Present(r), Clear(X),
           mem' = mem, NEW r \in Places
    PROVE  ImageOf(r)' = IF r \in X THEN Unmapped ELSE ImageOf(r)
<1>1. r \in Refs
  BY PlaceIsEntry, Zenon
<1>2. /\ flags' = [q \in Refs |-> IF q \in X THEN "none" ELSE flags[q]]
      /\ pte' = [q \in Refs |-> IF q \in X THEN 0 ELSE pte[q]]
  BY Zenon DEF Clear
<1> QED
  BY <1>1, <1>2, Zenon DEF ImageOf

\* free_region unmaps the region.
LEMMA FreeRegionUnmaps ==
    ASSUME PagingInv, NEW s \in Active, NEW R \in SUBSET PagesOf(s),
           free_region(s, R)
    PROVE  Abstract!UnmapSpec(s, R)
<1> DEFINE gone == {p \in R : Present(<<s, p>>)}
           empty == TablesEmptied(s, gone)
           X == Entries(s, gone \cup empty)
<1>1. s \in Spaces /\ gone \in SUBSET PagesOf(s) /\ gone \in SUBSET Pages
  BY Zenon DEF Active, PagingInv, TypeOK, Spaces, PagesOf, Pages
<1>2. /\ empty \in SUBSET Tables
      /\ \A t \in empty : Present(<<s, t>>)
  <2>1. \A t \in empty : \E p \in gone : t = TableOf[p]
    BY Zenon DEF TablesEmptied, TablesFor
  <2>2. \A p \in gone : TableOf[p] \in Tables /\ Present(<<s, p>>)
    BY <1>1, SlotAssumption, Zenon DEF Pages
  <2> QED
    BY Zenon, <1>1, <2>1, <2>2 DEF PagingInv, TablesHoldPages
<1>3. X \in SUBSET Refs /\ \A r \in X : Present(r)
  <2>1. \A x \in gone \cup empty : x \in Slots /\ Present(<<s, x>>)
    BY <1>1, <1>2, Zenon DEF Slots
  <2> HIDE DEF gone, empty
  <2> QED
    BY <1>1, <2>1 DEF Entries, Refs
<1>4. Clear(X) /\ pml4_physical' = pml4_physical /\ mem' = mem
  BY Zenon DEF free_region
<1>5. ASSUME NEW r \in Places
      PROVE  ImageOf(r)' = IF r[1] = s /\ r[2] \in R THEN Unmapped ELSE ImageOf(r)
  <2>1. r = <<r[1], r[2]>> /\ r[2] \notin Tables /\ r \in Refs
    BY PlaceIsEntry, Zenon
  <2>2. r \in X <=> r[1] = s /\ r[2] \in R /\ Present(r)
    <3>1. r \in X <=> r[1] = s /\ r[2] \in gone \cup empty
      <4> HIDE DEF gone, empty
      <4> QED
        BY <2>1 DEF Entries
    <3>2. r[1] = s => (r[2] \in gone <=> r[2] \in R /\ Present(r))
      BY <2>1, Zenon DEF Present
    <3>3. r[2] \notin empty
      BY <1>2, <2>1, Zenon
    <3> HIDE DEF X, gone, empty
    <3> QED
      BY <3>1, <3>2, <3>3, Zenon
  <2>3. ~Present(r) => ImageOf(r) = Unmapped
    BY Zenon DEF ImageOf, Present
  <2>4. ImageOf(r)' = IF r \in X THEN Unmapped ELSE ImageOf(r)
    BY <1>3, <1>4, ClearKeepsOthers, Zenon
  <2> HIDE DEF X
  <2> QED
    BY <2>2, <2>3, <2>4, Zenon
<1>6. absAlive' = absAlive
  <2>1. Root \notin gone \cup empty
    BY <1>1, <1>2, SlotAssumption, Zenon
  <2>2. \A u \in Procs : <<u, Root>> \in Refs /\ <<u, Root>> \notin X
    BY Zenon, <2>1 DEF Refs, Spaces, Slots, Entries
  <2>3. \A u \in Procs : flags'[<<u, Root>>] = flags[<<u, Root>>]
    BY <1>4, <2>2, Zenon DEF Clear
  <2> QED
    BY <2>3, Zenon DEF absAlive, Alive
<1> HIDE DEF X, gone, empty
<1> QED
  BY <1>4, <1>5, <1>6, SMTT(30) DEF Abstract!UnmapSpec, Abstract!Places, Places, ImageOf,
                          absAlive

\* clone_page_tables of the base tables creates an empty address space.
LEMMA CloneBaseCreates ==
    ASSUME PagingInv, NEW t \in Procs, clone_base(t)
    PROVE  Abstract!CreateSpec(t)
<1>1. ~Alive(t) /\ {Root} \in SUBSET Slots /\ <<t, Root>> \in Refs
  BY Zenon DEF clone_base, Slots, Refs, Spaces
<1>a. PICK g \in FirstFit({Root}) :
         Install(t, g) /\ mem' = [mem EXCEPT ![g[Root]] = Zero]
  BY Zenon DEF clone_base
<1>2. /\ \A r \in Refs : r # <<t, Root>> => pte'[r] = pte[r]
      /\ mem' = [mem EXCEPT ![g[Root]] = Zero]
  <2>1. DOMAIN g = {Root}
    BY Zenon DEF FirstFit
  <2>2. \A r \in Refs : r[1] = t /\ r[2] \in {Root} => r = <<t, Root>>
    BY RefIsPair, Zenon
  <2> QED
    BY <1>a, <2>1, <2>2, Zenon DEF Install
<1>3. /\ flags' = [flags EXCEPT ![<<t, Root>>] = "table"]
      /\ pml4_physical' = pml4_physical
  BY Zenon DEF clone_base
<1>4. /\ g[Root] \in Frames /\ g[Root] \notin Reserved
      /\ \A r \in Refs : Present(r) => pte[r] # g[Root]
  BY <1>1, FirstFitFresh DEF PagingInv
<1>5. absImage' = absImage
  <2> SUFFICES ASSUME NEW r \in Places PROVE ImageOf(r)' = ImageOf(r)
    BY ImageUnchanged, Zenon
  <2>1. r \in Refs /\ r # <<t, Root>>
    BY PlaceIsEntry
  <2>2. flags'[r] = flags[r] /\ pte'[r] = pte[r]
    BY <1>2, <1>3, <2>1, Zenon DEF PagingInv, TypeOK
  <2>3. Present(r) => mem'[pte[r]] = mem[pte[r]]
    BY <1>2, <1>4, <2>1, Zenon DEF PagingInv, TypeOK
  <2> QED
    BY <2>2, <2>3, Zenon DEF ImageOf, Present
<1>6. absAlive' = absAlive \cup {t} /\ t \notin absAlive
  <2>1. \A u \in Procs : flags'[<<u, Root>>] =
                            IF u = t THEN "table" ELSE flags[<<u, Root>>]
    BY <1>3, Zenon DEF PagingInv, TypeOK, Refs, Spaces, Slots
  <2> QED
    BY <1>1, <2>1, Zenon DEF absAlive, Alive
<1>7. absClock' = absClock
  BY <1>2, <1>4, FrameAssumption, SMTT(30) DEF absClock, PagingInv, TypeOK
<1> QED
  BY <1>3, <1>5, <1>6, <1>7, Zenon DEF Abstract!CreateSpec, absImage, absAlive, absClock

\* fork: the child's image is a copy of the parent's.
LEMMA ClonePageTablesForks ==
    ASSUME PagingInv, NEW t \in Procs, clone_page_tables(t)
    PROVE  Abstract!ForkSpec(t)
<1> DEFINE s == pml4_physical
           need == {x \in {Root} \cup Tables : Present(<<s, x>>)}
           shared == {p \in UserPages : Present(<<s, p>>)}
<1>1. /\ t \in Spaces /\ s \in Procs /\ s \in Spaces /\ t # s /\ s # Kernel
      /\ t # Kernel /\ Alive(s) /\ ~Alive(t)
      /\ \A x \in Slots : ~Present(<<t, x>>)
  BY SpaceAssumption, DeadSpaceEmpty, Zenon
     DEF clone_page_tables, Spaces, PagingInv, TypeOK, EntriesWellFormed
<1>2. /\ need \in SUBSET Slots /\ need \cap Pages = {} /\ Root \in need
      /\ Root \in Slots /\ shared \in SUBSET UserPages /\ Root \notin shared
      /\ \A p \in UserPages : Present(<<s, p>>) <=> p \in shared
  BY <1>1, SlotAssumption, Zenon DEF Slots, Pages, Alive, Present
<1>a. PICK g \in FirstFit(need) :
         /\ Install(t, [x \in need \cup shared |->
                           IF x \in need THEN g[x] ELSE pte[<<s, x>>]])
         /\ mem' = [f \in Frames |->
                       IF \E x \in need : g[x] = f THEN Zero ELSE mem[f]]
  BY Zenon DEF clone_page_tables
<1>3. /\ pte' = [r \in Refs |->
                    IF r[1] = t /\ r[2] \in need THEN g[r[2]]
                    ELSE IF r[1] = t /\ r[2] \in shared
                    THEN pte[<<s, r[2]>>] ELSE pte[r]]
      /\ mem' = [f \in Frames |->
                    IF \E x \in need : g[x] = f THEN Zero ELSE mem[f]]
  <2> HIDE DEF need, shared
  <2> QED
    BY <1>a, Zenon DEF Install
<1>4. /\ flags' = [r \in Refs |->
                     IF r[1] = t /\ r[2] \in need THEN "table"
                     ELSE IF r[1] \in {s, t} /\ r[2] \in shared
                     THEN CoW(flags[<<s, r[2]>>]) ELSE flags[r]]
      /\ pml4_physical' = pml4_physical
  BY ZenonT(30) DEF clone_page_tables
<1> HIDE DEF need, shared
<1>5. /\ g \in [need -> Frames]
      /\ \A x \in need : /\ g[x] \notin Reserved
                         /\ \A r \in Refs : Present(r) => pte[r] # g[x]
  BY <1>2, <1>3, FirstFitFresh DEF PagingInv
<1>6. \A r \in Refs : Present(r) => mem'[pte[r]] = mem[pte[r]]
  BY <1>3, <1>5, Zenon DEF PagingInv, TypeOK
<1> HIDE DEF s
<1>7. ASSUME NEW r \in Places
      PROVE  ImageOf(r)' = IF r[1] = t THEN ImageOf(<<s, r[2]>>) ELSE ImageOf(r)
  <2>1. /\ r \in Refs /\ r = <<r[1], r[2]>> /\ r[2] \notin need
        /\ r[1] # Kernel => r[2] \in UserPages /\ <<s, r[2]>> \in Refs
        /\ r[1] \in Spaces /\ r[2] \in Slots
    BY <1>1, <1>2, PlaceIsEntry, Zenon DEF PagesOf, Refs, Slots, Pages
  <2>2. CASE r[1] \in {s, t} /\ r[2] \in shared
    <3>1. flags'[r] = CoW(flags[<<s, r[2]>>]) /\ pte'[r] = pte[<<s, r[2]>>]
      BY <1>1, <1>3, <1>4, <2>1, <2>2 DEF s
    <3>2. Present(<<s, r[2]>>) /\ r[1] # Kernel
      BY <1>1, <1>2, <2>2, Zenon
    <3>3. mem'[pte[<<s, r[2]>>]] = mem[pte[<<s, r[2]>>]]
      BY <1>6, <2>1, <3>2, Zenon
    <3>4. ImageOf(r)' = ImageOf(<<s, r[2]>>)
      BY <3>1, <3>2, <3>3, Zenon DEF ImageOf, CoW, Present
    <3> QED
      BY <2>1, <2>2, <3>4, Zenon
  <2>3. CASE r[1] = t /\ r[2] \notin shared
    <3>1. flags'[r] = flags[r] /\ r[1] # Kernel
      BY <1>1, <1>4, <2>1, <2>3
    <3>2. ~Present(r) /\ ~Present(<<s, r[2]>>)
      BY <1>1, <1>2, <2>1, <2>3
    <3> QED
      BY <2>3, <3>1, <3>2, Zenon DEF ImageOf, Present
  <2>4. CASE r[1] # t /\ ~(r[1] = s /\ r[2] \in shared)
    <3>1. flags'[r] = flags[r] /\ pte'[r] = pte[r]
      BY <1>3, <1>4, <2>1, <2>4 DEF s
    <3> QED
      BY <1>6, <2>1, <2>4, <3>1 DEF ImageOf, Present
  <2> QED
    BY <2>2, <2>3, <2>4, Zenon
<1>8. absAlive' = absAlive \cup {t} /\ t \notin absAlive
  <2>1. \A u \in Procs : flags'[<<u, Root>>] =
                            IF u = t THEN "table" ELSE flags[<<u, Root>>]
    BY <1>2, <1>4, Zenon DEF Refs, Spaces, Slots
  <2> QED
    BY <1>1, <2>1, Zenon DEF absAlive, Alive
<1>9. absClock' = absClock
  <2>1. \A x \in need : g[x] # vvar_paddr
    BY <1>5, FrameAssumption, Zenon
  <2> QED
    BY <1>3, <2>1, FrameAssumption, Zenon DEF absClock
<1>10. \A r \in Places : r[1] = t => <<s, r[2]>> \in Places
  BY <1>1, Zenon DEF Places
<1> QED
  BY <1>4, <1>7, <1>8, <1>9, <1>10
     DEF Abstract!ForkSpec, Abstract!Places, Places, ImageOf, absAlive, absClock, s

\* free_page_tables destroys the image of a task that is gone.
LEMMA FreePageTablesDestroys ==
    ASSUME PagingInv, NEW t \in Procs, free_page_tables(t)
    PROVE  Abstract!DestroySpec(t)
<1> DEFINE X == {r \in Entries(t, Slots) : Present(r)}
<1>1. /\ t \in Spaces /\ t # pml4_physical /\ Alive(t)
      /\ Clear(X) /\ pml4_physical' = pml4_physical /\ mem' = mem
  BY Zenon DEF free_page_tables, Spaces
<1>2. X \in SUBSET Refs /\ \A r \in X : Present(r)
  BY <1>1 DEF Entries, Refs
<1>3. \A r \in Refs : r \in X <=> r[1] = t /\ Present(r)
  BY RefIsPair DEF Entries
<1> HIDE DEF X
<1>4. ASSUME NEW r \in Places
      PROVE  ImageOf(r)' = IF r[1] = t THEN Unmapped ELSE ImageOf(r)
  <2>1. ImageOf(r)' = IF r \in X THEN Unmapped ELSE ImageOf(r)
    BY <1>1, <1>2, ClearKeepsOthers, Zenon
  <2>2. ~Present(r) => ImageOf(r) = Unmapped
    BY Zenon DEF ImageOf, Present
  <2> QED
    BY <1>3, <2>1, <2>2, PlaceIsEntry, Zenon
<1>5. absAlive' = absAlive \ {t} /\ t \in absAlive
  <2>1. \A u \in Procs : <<u, Root>> \in Refs /\ (<<u, Root>> \in X => u = t)
    BY <1>3 DEF Refs, Spaces, Slots
  <2>2. <<t, Root>> \in X
    BY <1>1, <1>3, <2>1, Zenon DEF Alive, Present
  <2>3. \A u \in Procs : flags'[<<u, Root>>] =
                            IF u = t THEN "none" ELSE flags[<<u, Root>>]
    BY <1>1, <2>1, <2>2, Zenon DEF Clear
  <2> QED
    BY <1>1, <2>3, Zenon DEF absAlive, Alive
<1> QED
  BY <1>1, <1>4, <1>5, Zenon
     DEF Abstract!DestroySpec, Abstract!Places, Places, ImageOf, absAlive

\* A store changes the one page the processor translated.
LEMMA StoreWrites ==
    ASSUME PagingInv, NEW e \in tlb, NEW v \in Values, store(e, v)
    PROVE  /\ e[1] \in Places /\ e[1][1] \in Active
           /\ Abstract!WriteSpec(e[1], v)
<1> DEFINE r == e[1]
<1>1. r \in Places /\ e[2] \in Frames
  BY Zenon DEF PagingInv, TypeOK
<1>2. /\ r[1] \in Active /\ Present(r) /\ e[2] = pte[r] /\ flags[r] = "rw"
  BY Zenon DEF store, PagingInv, TlbCoherent
<1>3. r \in Refs
  BY <1>1, PlaceIsEntry, Zenon
<1>4. /\ mem' = [mem EXCEPT ![pte[r]] = v] /\ flags' = flags /\ pte' = pte
      /\ pml4_physical' = pml4_physical
  BY <1>2, Zenon DEF store
<1> HIDE DEF r
<1>5. /\ pte[r] \notin Reserved /\ pte[r] \in Frames
      /\ \A q \in Refs : Present(q) /\ pte[q] = pte[r] => q = r
  BY <1>2, <1>3, Zenon DEF PagingInv, WritableIsExclusive, TypeOK
<1>6. ASSUME NEW q \in Places
      PROVE  ImageOf(q)' = IF q = r THEN v ELSE ImageOf(q)
  <2>1. q \in Refs /\ pte[q] \in Frames
    BY PlaceIsEntry, Zenon DEF PagingInv, TypeOK
  <2>2. CASE q = r
    BY <1>2, <1>4, <1>5, <2>2, Zenon DEF ImageOf, PagingInv, TypeOK
  <2>3. CASE q # r
    <3>1. Present(q) => mem'[pte[q]] = mem[pte[q]]
      BY <1>4, <1>5, <2>1, <2>3, Zenon DEF PagingInv, TypeOK
    <3> QED
      BY <1>4, <2>3, <3>1, Zenon DEF ImageOf, Present
  <2> QED
    BY <2>2, <2>3, Zenon
<1>7. absAlive' = absAlive /\ absClock' = absClock
  BY <1>4, <1>5, FrameAssumption, Zenon DEF absAlive, absClock, Alive, PagingInv, TypeOK
<1>8. ImageOf(r) \in Values
  BY <1>1, <1>2, MappedHoldsValue, Zenon
<1>9. absImage' = [absImage EXCEPT ![r] = v] /\ absImage[r] \in Values
  BY Zenon, <1>1, <1>6, <1>8 DEF absImage, ImageOf
<1>10. Abstract!WriteSpec(r, v)
  BY <1>4, <1>7, <1>9, Zenon DEF Abstract!WriteSpec, absImage, absAlive, absClock
<1> QED
  BY <1>1, <1>2, <1>10, Zenon DEF r

\* The clock interrupt changes the clock and no image.
LEMMA PitTickTicks ==
    ASSUME PagingInv, NEW v \in Values, pit_tick(v)
    PROVE  Abstract!TickSpec(v)
<1>1. /\ mem' = [mem EXCEPT ![vvar_paddr] = v] /\ flags' = flags /\ pte' = pte
      /\ pml4_physical' = pml4_physical /\ vvar_paddr \in Frames
  BY FrameAssumption, Zenon DEF pit_tick
<1>2. absImage' = absImage
  <2> SUFFICES ASSUME NEW r \in Places PROVE ImageOf(r)' = ImageOf(r)
    BY ImageUnchanged, Zenon
  <2>1. /\ r \in Refs /\ r = <<r[1], r[2]>> /\ r[1] \in Spaces /\ r[2] \in Slots
    BY PlaceIsEntry, Zenon DEF Slots
  <2>2. Present(r) => (flags[r] = "ro" <=> pte[r] = vvar_paddr)
    BY <2>1 DEF PagingInv, EntriesWellFormed
  <2> QED
    BY <1>1, <2>1, <2>2, Zenon DEF ImageOf, Present, PagingInv, TypeOK
<1>3. absAlive' = absAlive /\ absClock' = v
  BY <1>1, Zenon DEF absAlive, absClock, Alive, PagingInv, TypeOK
<1> QED
  BY <1>1, <1>2, <1>3, Zenon DEF Abstract!TickSpec, absImage, absAlive, absClock

\* The initial state maps to an initial state of AddressSpaces.
LEMMA InitRefines == Init => Abstract!InitSpec
<1> SUFFICES ASSUME Init PROVE Abstract!InitSpec
  OBVIOUS
<1>1. PICK s \in Procs :
         /\ flags = [r \in Refs |-> IF r = <<s, Root>> THEN "table" ELSE "none"]
         /\ pml4_physical = s
  BY Zenon DEF Init
<1>2. mem[vvar_paddr] = Zero
  BY FrameAssumption, Zenon DEF Init
<1>3. absAlive = {s}
  BY <1>1, Zenon DEF absAlive, Alive, Refs, Spaces, Slots
<1>4. \A r \in Places : ImageOf(r) = Unmapped
  BY <1>1, PlaceIsEntry DEF ImageOf
<1> QED
  BY <1>1, <1>2, <1>3, <1>4, Zenon
     DEF Abstract!InitSpec, Abstract!Places, Places, ImageOf, absAlive

\* Every step of Paging is a step of AddressSpaces or invisible.
LEMMA NextRefines ==
    ASSUME PagingInv, [Next]_vars
    PROVE  [Abstract!NextSpec]_(Abstract!specVars)
<1>1. pml4_physical \in Active /\ Kernel \in Active /\ pml4_physical # Kernel
  BY SpaceAssumption DEF Active, PagingInv, TypeOK
<1>2. /\ \A s \in Active : \A R \in Regions(s) : R \in SUBSET PagesOf(s)
      /\ PagesOf(pml4_physical) = UserPages /\ PagesOf(Kernel) = KernelPages
  BY <1>1 DEF Regions, PagesOf
<1>3. ASSUME NEW R \in Regions(pml4_physical), NEW v \in Values,
             alloc_region(pml4_physical, R, v)
      PROVE  Abstract!NextSpec
  BY <1>1, <1>2, <1>3, AllocRegionMaps, Zenon DEF Abstract!NextSpec
<1>4. ASSUME NEW R \in Regions(pml4_physical), alloc_zero_region(pml4_physical, R)
      PROVE  Abstract!NextSpec
  BY <1>1, <1>2, <1>4, MapSharedMaps, FrameAssumption
     DEF alloc_zero_region, Abstract!NextSpec
<1>5. ASSUME NEW R \in Regions(pml4_physical), free_region(pml4_physical, R)
      PROVE  Abstract!NextSpec
  BY <1>1, <1>2, <1>5, FreeRegionUnmaps, Zenon DEF Abstract!NextSpec
<1>6. ASSUME NEW R \in Regions(Kernel),
             alloc_region(Kernel, R, Zero) \/ free_region(Kernel, R)
      PROVE  Abstract!NextSpec
  BY Zenon, <1>1, <1>2, <1>6, AllocRegionMaps, FreeRegionUnmaps, ValueAssumption
     DEF Abstract!NextSpec
<1>7. ASSUME NEW p \in UserPages, alloc_mmio_region(pml4_physical, p)
      PROVE  Abstract!NextSpec
  <2>1. {p} \in SUBSET PagesOf(pml4_physical) /\ {p} \in SUBSET UserPages
    BY <1>2, Zenon
  <2>2. \E v \in Values \cup {Vvar} : Abstract!MapSpec(pml4_physical, {p}, v)
    BY <1>1, <1>7, <2>1, MapSharedMaps, FrameAssumption, Zenon DEF alloc_mmio_region
  <2> QED
    BY <2>1, <2>2, Zenon DEF Abstract!NextSpec
<1>8. ASSUME NEW t \in Procs,
             clone_base(t) \/ clone_page_tables(t) \/ free_page_tables(t)
      PROVE  Abstract!NextSpec
  BY <1>8, CloneBaseCreates, ClonePageTablesForks, FreePageTablesDestroys, Zenon
     DEF Abstract!NextSpec
<1>9. ASSUME NEW t \in Procs, change_pml4(t)
      PROVE  Abstract!NextSpec
  <2>1. /\ Alive(t) /\ pml4_physical' = t
        /\ flags' = flags /\ pte' = pte /\ mem' = mem
    BY <1>9, Zenon DEF change_pml4
  <2>2. Abstract!SwitchSpec(t)
    BY <2>1, Zenon DEF Abstract!SwitchSpec, Alive
  <2> QED
    BY <2>2, Zenon DEF Abstract!NextSpec
<1>10. ASSUME NEW r \in Places, cow_handler(r)
       PROVE  UNCHANGED Abstract!specVars
  BY <1>10, CowHandlerInvisible, Zenon
     DEF Abstract!specVars, absImage, absAlive, absClock
<1>11. ASSUME NEW r \in Places, walk(r)
       PROVE  UNCHANGED Abstract!specVars
  BY <1>11, Zenon DEF walk, Abstract!specVars, Alive
<1>12. ASSUME NEW e \in tlb, NEW v \in Values, store(e, v)
       PROVE  Abstract!NextSpec
  <2>1. /\ e[1] \in Abstract!Places /\ e[1][1] \in {pml4_physical, Kernel}
        /\ Abstract!WriteSpec(e[1], v)
    BY <1>12, StoreWrites, Zenon DEF Active, Places, Abstract!Places
  <2> QED
    BY <2>1, Zenon DEF Abstract!NextSpec
<1>13. ASSUME NEW v \in Values, pit_tick(v)
       PROVE  Abstract!NextSpec
  BY <1>13, PitTickTicks, Zenon DEF Abstract!NextSpec
<1>14. CASE UNCHANGED vars
  BY <1>14, Zenon DEF vars, Abstract!specVars, Alive
<1> QED
  BY <1>3, <1>4, <1>5, <1>6, <1>7, <1>8, <1>9, <1>10, <1>11, <1>12, <1>13, <1>14, Zenon
     DEF Next

\* paging.c implements private memory: forks copy, a store is seen by the
\* process that made it and by no other, and only the clock is common.
THEOREM PagingImplementsPrivateMemory == Spec => PrivateMemory
BY InitRefines, NextRefines, PagingInvariant, PTL
   DEF Spec, PrivateMemory, Abstract!AddressSpacesSpec
=============================================================================
