---------------------------- MODULE KernelProofs ----------------------------
(***************************************************************************)
(* What smaller parts of the kernel keep for any number of processes,      *)
(* pages and signals: sessions, a program's break and its signals.  Each   *)
(* part has its inductive invariant, and why the property alone is not     *)
(* inductive.                                                              *)
(***************************************************************************)
EXTENDS Signals, Sessions, Break, Induction, SequenceTheorems, FiniteSetTheorems

----------------------------------------------------------------------------
(* Sessions.  GroupInOneSession alone is not inductive: a process that     *)
(* founds a group takes its own number, and nobody may be in a group of    *)
(* that number yet.  LeaderIsMember and NamesAreOld say so, for a process  *)
(* that lives and for one that is being born.                              *)

\* A birth keeps the invariant when the group and the session are the new
\* process's own, or the group is one that exists in the session.
LEMMA BornKeepsInv ==
    ASSUME SessionInv, NEW p \in alive, NEW g \in Pids, NEW s \in Pids, Born(p, g, s),
           \/ g = last_pid + 1 /\ s \in {last_pid + 1, sid[p]}
           \/ \E i \in alive : pgid[i] = g /\ sid[i] = s
    PROVE  SessionInv'
<1> DEFINE n == last_pid + 1
<1>1. /\ n \in Pids /\ last_pid \in Nat
      /\ alive \subseteq Pids \ {n} /\ p \in Pids
  <2>1. MaxPid \in Nat /\ last_pid \in Nat /\ last_pid < MaxPid
    BY MaxPidAssumption DEF SessionInv, SessionTypeOK, Pids, Born
  <2>2. \A t \in alive : t \in Nat /\ 1 <= t /\ t <= last_pid
    BY <2>1 DEF SessionInv, SessionTypeOK
  <2> QED BY <2>1, <2>2 DEF Pids
<1>2. /\ alive' = alive \cup {n} /\ last_pid' = n
      /\ pgid'[n] = g /\ sid'[n] = s
      /\ \A t \in Pids \ {n} : pgid'[t] = pgid[t] /\ sid'[t] = sid[t]
      /\ pgid' \in [Pids -> Pids] /\ sid' \in [Pids -> Pids]
      /\ parent' \in [Pids -> Pids]
  BY <1>1, Zenon DEF SessionInv, SessionTypeOK, Born
<1>3. \A t \in alive : t \in Pids \ {n} /\ pgid[t] # n /\ sid[t] # n
  <2>1. \A t \in alive : pgid[t] <= last_pid /\ sid[t] <= last_pid
    BY Zenon DEF SessionInv, NamesAreOld
  <2> QED BY <1>1, <2>1
<1>4. SessionTypeOK'
  BY <1>1, <1>2 DEF SessionInv, SessionTypeOK, Pids
<1>5. NamesAreOld'
  <2>1. g <= n /\ s <= n
    BY <1>1 DEF SessionInv, SessionTypeOK, NamesAreOld, Pids
  <2>2. \A t \in alive : /\ pgid[t] \in Nat /\ sid[t] \in Nat
                          /\ pgid[t] <= last_pid /\ sid[t] <= last_pid
    BY <1>1 DEF SessionInv, SessionTypeOK, NamesAreOld, Pids
  <2>3. \A t \in alive : pgid[t] <= n /\ sid[t] <= n
    BY <1>1, <2>2
  <2> QED BY <1>1, <1>2, <2>1, <2>3, Zenon DEF NamesAreOld
<1>6. GroupInOneSession'
  <2>1. \A t \in alive : pgid[t] = g => sid[t] = s
    BY <1>3, Zenon DEF SessionInv, GroupInOneSession
  <2> QED BY <1>2, <1>3, <2>1 DEF SessionInv, GroupInOneSession
<1>7. LeaderIsMember'
  <2>1. g = n \/ (g \in alive => pgid[g] = g)
    BY Zenon DEF SessionInv, LeaderIsMember
  <2> QED BY <1>2, <1>3, <2>1 DEF SessionInv, LeaderIsMember
<1>8. SessionLeaderIsMember'
  <2>1. s = n => g = n
    BY <1>3, Zenon
  <2>2. s \in alive => sid[s] = s /\ pgid[s] = s
    BY <1>1, Zenon DEF SessionInv, SessionLeaderIsMember
  <2> QED BY <1>2, <1>3, <2>1, <2>2, SMTT(30) DEF SessionInv, SessionLeaderIsMember
<1> QED BY <1>4, <1>5, <1>6, <1>7, <1>8, Zenon DEF SessionInv

\* setpgid puts a process that leads no group into its own or into one that
\* exists in its session.
LEMMA SetpgidKeepsInv ==
    ASSUME SessionInv, NEW p \in Pids, NEW t \in Pids, NEW g \in Pids, setpgid(p, t, g)
    PROVE  SessionInv'
<1>1. /\ t \in alive /\ (pgid[t] = t => g = t)
      /\ g = t \/ \E i \in alive : pgid[i] = g /\ sid[i] = sid[t]
  BY Zenon DEF setpgid, LeaderStays, GroupInSession
<1>2. /\ pgid' \in [Pids -> Pids] /\ pgid'[t] = g
      /\ \A x \in Pids \ {t} : pgid'[x] = pgid[x]
      /\ UNCHANGED <<alive, parent, sid, last_pid>>
  BY Zenon DEF setpgid, SessionInv, SessionTypeOK
<1>3. alive \subseteq Pids /\ last_pid \in Nat
  BY MaxPidAssumption DEF SessionInv, SessionTypeOK, Pids
<1>4. \A x \in alive : pgid[x] = g => sid[x] = sid[t]
  BY <1>1 DEF SessionInv, GroupInOneSession, LeaderIsMember
<1>5. SessionTypeOK' /\ NamesAreOld'
  <2>1. g <= last_pid
    BY <1>1, <1>3, SMTT(30) DEF SessionInv, SessionTypeOK, NamesAreOld, Pids
  <2> QED BY <1>2, <1>3, <2>1, Zenon DEF SessionInv, SessionTypeOK, NamesAreOld
<1>6. GroupInOneSession'
  BY <1>2, <1>3, <1>4, SMTT(30) DEF SessionInv, GroupInOneSession
<1>7. LeaderIsMember'
  <2>1. g # t => \A x \in alive : pgid[x] # t
    BY <1>1, Zenon DEF SessionInv, LeaderIsMember
  <2> QED BY <1>1, <1>2, <1>3, <2>1, SMTT(30) DEF SessionInv, LeaderIsMember
<1>8. SessionLeaderIsMember'
  BY <1>1, <1>2, <1>3, Zenon DEF SessionInv, SessionLeaderIsMember
<1> QED BY <1>5, <1>6, <1>7, <1>8, Zenon DEF SessionInv

\* setsid is for a process that leads no group, so nobody is in a group or a
\* session of its number.
LEMMA SetsidKeepsInv ==
    ASSUME SessionInv, NEW p \in Pids, setsid(p)
    PROVE  SessionInv'
<1>1. p \in alive /\ pgid[p] # p /\ UNCHANGED <<alive, parent, last_pid>>
  BY Zenon DEF setsid
<1>2. /\ pgid' \in [Pids -> Pids] /\ sid' \in [Pids -> Pids]
      /\ pgid'[p] = p /\ sid'[p] = p
      /\ \A x \in Pids \ {p} : pgid'[x] = pgid[x] /\ sid'[x] = sid[x]
  BY Zenon DEF setsid, SessionInv, SessionTypeOK
<1>3. alive \subseteq Pids /\ last_pid \in Nat /\ p <= last_pid
  BY <1>1, MaxPidAssumption DEF SessionInv, SessionTypeOK, Pids
<1>4. \A x \in alive : pgid[x] # p /\ sid[x] # p
  BY <1>1, Zenon DEF SessionInv, LeaderIsMember, SessionLeaderIsMember
<1>5. SessionTypeOK' /\ NamesAreOld'
  BY <1>1, <1>2, <1>3, Zenon DEF SessionInv, SessionTypeOK, NamesAreOld
<1>6. GroupInOneSession' /\ LeaderIsMember' /\ SessionLeaderIsMember'
  BY <1>1, <1>2, <1>3, <1>4, SMTT(30)
  DEF SessionInv, GroupInOneSession, LeaderIsMember, SessionLeaderIsMember
<1> QED BY <1>5, <1>6, Zenon DEF SessionInv

\* The invariant of setpgid, setsid, fork and spawn holds in every state, for
\* every number of processes.
THEOREM SessionsInvariant == SessionSpec => []SessionInv
<1>1. SessionInit => SessionInv
  BY MaxPidAssumption
  DEF SessionInit, SessionInv, SessionTypeOK, NamesAreOld, GroupInOneSession, LeaderIsMember,
      SessionLeaderIsMember, Pids
<1>2. SessionInv /\ [SessionNext]_session_vars => SessionInv'
  <2> SUFFICES ASSUME SessionInv, [SessionNext]_session_vars PROVE SessionInv'
    BY Zenon
  <2>1. CASE UNCHANGED session_vars
    BY <2>1, Zenon DEF session_vars, SessionInv, SessionTypeOK, NamesAreOld, GroupInOneSession,
                LeaderIsMember, SessionLeaderIsMember
  <2>2. ASSUME NEW p \in Pids, fork(p) PROVE SessionInv'
    <3>1. p \in alive /\ pgid[p] \in Pids /\ sid[p] \in Pids
      BY <2>2, Zenon DEF fork, SessionInv, SessionTypeOK
    <3> QED BY <2>2, <3>1, BornKeepsInv, Zenon DEF fork
  <2>3. ASSUME NEW p \in Pids, spawn_setsid(p) PROVE SessionInv'
    <3>1. p \in alive /\ last_pid + 1 \in Pids
      BY <2>3, MaxPidAssumption DEF spawn_setsid, Born, SessionInv, SessionTypeOK, Pids
    <3> QED BY <2>3, <3>1, BornKeepsInv, Zenon DEF spawn_setsid
  <2>4. ASSUME NEW p \in Pids, NEW g \in Pids, spawn_setpgid(p, g) PROVE SessionInv'
    <3>1. p \in alive /\ sid[p] \in Pids
      BY <2>4, Zenon DEF spawn_setpgid, SessionInv, SessionTypeOK
    <3> QED BY <2>4, <3>1, BornKeepsInv, Zenon DEF spawn_setpgid, GroupInSession
  <2>5. ASSUME NEW p \in Pids, reap(p) PROVE SessionInv'
    <3>1. /\ alive' \subseteq alive /\ UNCHANGED <<pgid, sid, last_pid>>
          /\ parent' \in [Pids -> Pids]
      <4>1. 1 \in Pids
        BY MaxPidAssumption DEF Pids
      <4> QED BY <2>5, <4>1, Zenon DEF reap, SessionInv, SessionTypeOK
    <3> QED BY <3>1, Zenon DEF SessionInv, SessionTypeOK, NamesAreOld, GroupInOneSession,
                        LeaderIsMember, SessionLeaderIsMember
  <2> QED BY <2>1, <2>2, <2>3, <2>4, <2>5, SetpgidKeepsInv, SetsidKeepsInv, ZenonT(30) DEF SessionNext
<1> QED BY <1>1, <1>2, PTL DEF SessionSpec

\* A process group lies in one session.
THEOREM GroupsLieInOneSession == SessionSpec => []GroupInOneSession
<1>1. SessionInv => GroupInOneSession
  BY Zenon DEF SessionInv
<1> QED BY <1>1, SessionsInvariant, PTL

----------------------------------------------------------------------------
(* The break.  That the heap ends at the break is not enough: a page that  *)
(* is mapped again must not hold what it held before, so the invariant says *)
(* which pages are dirty, and the heap must not have met the stack.        *)

\* The inductive invariant: the heap has not grown into the stack, and only
\* mapped pages hold anything.
BreakInv ==
    /\ brk \in Nat /\ initial_brk <= brk /\ page_align_up(brk) <= StackPage
    /\ user_mapped = 0 .. page_align_up(brk) - 1 \cup {StackPage}
    /\ dirty \subseteq user_mapped

\* What BreakAssumption says of the constants, one by one.
LEMMA BreakConstants ==
    /\ PAGE_SIZE \in Nat /\ PAGE_SIZE >= 1 /\ USER_MAX \in Nat /\ UINTPTR_MAX \in Nat
    /\ initial_brk \in Nat /\ StackPage \in Nat
    /\ initial_brk % PAGE_SIZE = 0 /\ initial_brk < StackPage * PAGE_SIZE
    /\ StackPage * PAGE_SIZE <= USER_MAX /\ USER_MAX + PAGE_SIZE <= UINTPTR_MAX
BY BreakAssumption

\* Multiplying keeps an order, for sizes that are not known.
LEMMA Times ==
    ASSUME NEW a \in Int, NEW b \in Int, NEW c \in Nat, a <= b
    PROVE  a * c <= b * c /\ a * c \in Int /\ b * c \in Int
OBVIOUS

\* The pages below addr are those that start below it.
LEMMA PagesBelow ==
    ASSUME NEW addr \in Nat
    PROVE  /\ page_align_up(addr) \in Nat
           /\ \A p \in Nat : p < page_align_up(addr) <=> p * PAGE_SIZE < addr
<1> DEFINE q == page_align_up(addr)
           r == (addr + PAGE_SIZE - 1) % PAGE_SIZE
           N == addr + PAGE_SIZE - 1
<1>1. N \in Nat /\ PAGE_SIZE \in Nat /\ PAGE_SIZE >= 1
  BY BreakConstants
<1>2. q \in Nat /\ r \in Nat /\ r < PAGE_SIZE /\ N = q * PAGE_SIZE + r
  BY <1>1 DEF page_align_up
<1> HIDE DEF q, r
<1>3. ASSUME NEW p \in Nat, p < q
      PROVE  p * PAGE_SIZE < addr
  <2>1. (p + 1) * PAGE_SIZE <= q * PAGE_SIZE
    BY <1>1, <1>2, <1>3, Times, SMTT(30)
  <2>2. (p + 1) * PAGE_SIZE = p * PAGE_SIZE + PAGE_SIZE
    BY <1>1
  <2>3. p * PAGE_SIZE \in Int /\ q * PAGE_SIZE \in Int
    BY <1>1, <1>2
  <2> QED
    BY <1>1, <1>2, <2>1, <2>2, <2>3, SMTT(30)
<1>4. ASSUME NEW p \in Nat, ~(p < q)
      PROVE  ~(p * PAGE_SIZE < addr)
  <2>1. q * PAGE_SIZE <= p * PAGE_SIZE
    BY <1>1, <1>2, <1>4, Times, SMTT(30)
  <2>2. p * PAGE_SIZE \in Int /\ q * PAGE_SIZE \in Int
    BY <1>1, <1>2
  <2> QED
    BY <1>1, <1>2, <2>1, <2>2, SMTT(30)
<1> QED
  BY <1>2, <1>3, <1>4, Zenon DEF q

\* load_elf leaves the break at a page boundary, below the stack.
LEMMA BreakInitHolds == BreakInit => BreakInv
<1> SUFFICES ASSUME BreakInit PROVE BreakInv
  BY Zenon
<1> DEFINE k == initial_brk \div PAGE_SIZE
           q == page_align_up(initial_brk)
<1>1. k \in Nat /\ initial_brk = k * PAGE_SIZE
  BY BreakConstants
<1>2. q \in Nat /\ \A p \in Nat : p < q <=> p * PAGE_SIZE < initial_brk
  BY BreakConstants, PagesBelow, Zenon
<1> HIDE DEF k, q
<1>3. \A p \in Nat : p < k <=> p * PAGE_SIZE < k * PAGE_SIZE
  BY <1>1, BreakConstants, SMTT(30)
<1>4. \A p \in Nat : p < q <=> p < k
  BY <1>1, <1>2, <1>3, Zenon
<1>5. q = k
  BY <1>1, <1>2, <1>4
<1>6. k < StackPage
  BY <1>1, <1>3, BreakConstants
<1> QED
  BY <1>1, <1>2, <1>5, <1>6, BreakConstants, SMTT(30) DEF BreakInit, BreakInv, k, q

\* set_brk keeps the invariant and gives the process cleared pages only.
LEMMA MoveKeeps ==
    ASSUME BreakInv, NEW addr \in Nat, ~Refused(addr), Move(addr)
    PROVE  BreakInv' /\ (user_mapped' \ user_mapped) \cap dirty' = {}
<1> DEFINE old == page_align_up(brk)
           new == page_align_up(addr)
<1>1. old \in Nat /\ new \in Nat /\ initial_brk <= addr
  BY PagesBelow, BreakConstants DEF BreakInv, Refused
<1>2. /\ old <= StackPage /\ user_mapped = 0 .. old - 1 \cup {StackPage}
      /\ dirty \subseteq user_mapped /\ StackPage \in Nat
  BY BreakConstants, Zenon DEF BreakInv
<1>3. \/ /\ new > old /\ old .. new - 1 \cap user_mapped = {}
         /\ user_mapped' = user_mapped \cup old .. new - 1
         /\ dirty' = dirty /\ brk' = addr
      \/ UNCHANGED <<brk, user_mapped, dirty>>
      \/ /\ new <= old /\ brk' = addr
         /\ user_mapped' = user_mapped \ (new .. old - 1)
         /\ dirty' = dirty \ (new .. old - 1)
  BY Zenon DEF Move, Cleared
<1> HIDE DEF old, new
<1>4. CASE /\ new > old /\ old .. new - 1 \cap user_mapped = {}
           /\ user_mapped' = user_mapped \cup old .. new - 1
           /\ dirty' = dirty /\ brk' = addr
  <2>1. StackPage \notin old .. new - 1
    BY <1>2, <1>4, Zenon
  <2>2. new <= StackPage
    BY <1>1, <1>2, <2>1
  <2>3. user_mapped' = 0 .. new - 1 \cup {StackPage}
    BY <1>1, <1>2, <1>4
  <2>4. dirty' \subseteq user_mapped'
    BY <1>2, <1>4, Zenon
  <2> QED
    BY <1>1, <1>2, <1>4, <2>2, <2>3, <2>4, Zenon DEF BreakInv, new, page_align_up
<1>5. CASE UNCHANGED <<brk, user_mapped, dirty>>
  BY <1>5, Zenon DEF BreakInv, page_align_up
<1>6. CASE /\ new <= old /\ brk' = addr
           /\ user_mapped' = user_mapped \ (new .. old - 1)
           /\ dirty' = dirty \ (new .. old - 1)
  <2>1. new <= StackPage /\ user_mapped' = 0 .. new - 1 \cup {StackPage}
    BY <1>1, <1>2, <1>6, SMTT(30)
  <2>2. dirty' \subseteq user_mapped' /\ user_mapped' \subseteq user_mapped
    BY <1>2, <1>6, Zenon
  <2> QED
    BY <1>1, <1>6, <2>1, <2>2, Zenon DEF BreakInv, new, page_align_up
<1> QED
  BY <1>3, <1>4, <1>5, <1>6, Zenon

\* No call and no store breaks the invariant, or leaves an old page mapped anew.
LEMMA BreakStep ==
    ASSUME BreakInv, BreakNext
    PROVE  BreakInv' /\ (user_mapped' \ user_mapped) \cap dirty' = {}
<1>1. ASSUME NEW addr \in Words, set_brk(addr)
      PROVE  BreakInv' /\ (user_mapped' \ user_mapped) \cap dirty' = {}
  BY <1>1, MoveKeeps, BreakConstants, SMTT(30) DEF set_brk, Words
<1>2. ASSUME NEW increment \in Increments, sbrk(increment)
      PROVE  BreakInv' /\ (user_mapped' \ user_mapped) \cap dirty' = {}
  <2>1. PICK addr \in Int : set_brk(addr)
    BY <1>2, BreakConstants, SMTT(30) DEF sbrk, Increments, BreakInv
  <2>2. addr \in Nat
    BY <2>1, BreakConstants DEF set_brk, Refused
  <2> QED
    BY <2>1, <2>2, MoveKeeps, ZenonT(30) DEF set_brk
<1>3. ASSUME NEW p \in user_mapped, store(p)
      PROVE  BreakInv' /\ (user_mapped' \ user_mapped) \cap dirty' = {}
  BY <1>3, Zenon DEF store, BreakInv, page_align_up
<1> QED
  BY <1>1, <1>2, <1>3, Zenon DEF BreakNext

\* The heap is what the break says, and no unmapped page holds anything.
THEOREM BreakInvariant == BreakSpec => []BreakInv
<1>1. BreakInv /\ UNCHANGED break_vars => BreakInv'
  BY Zenon DEF BreakInv, break_vars, page_align_up
<1>2. BreakInv /\ [BreakNext]_break_vars => BreakInv'
  BY <1>1, BreakStep, Zenon
<1> QED
  BY <1>2, BreakInitHolds, PTL DEF BreakSpec

\* HeapEndsAtBreak: page_align_up counts exactly the pages below the break.
THEOREM HeapsEndAtBreak == BreakSpec => []HeapEndsAtBreak
<1>1. BreakInv => HeapEndsAtBreak
  <2> SUFFICES ASSUME BreakInv, NEW p \in Nat
               PROVE  p \in user_mapped <=> p = StackPage \/ p * PAGE_SIZE < brk
    BY BreakConstants DEF HeapEndsAtBreak, UserPages
  <2>1. /\ page_align_up(brk) \in Nat
        /\ p < page_align_up(brk) <=> p * PAGE_SIZE < brk
    BY PagesBelow, Zenon DEF BreakInv
  <2> QED
    BY <2>1 DEF BreakInv
<1> QED
  BY <1>1, BreakInvariant, PTL

\* GrowsByZeroes: no page outside user_mapped is dirty, and alloc_region's
\* pages are cleared.
THEOREM HeapsGrowByZeroes == BreakSpec => GrowsByZeroes
<1>1. BreakInv /\ [BreakNext]_break_vars =>
         [(user_mapped' \ user_mapped) \cap dirty' = {}]_break_vars
  BY BreakStep, Zenon
<1> QED
  BY <1>1, BreakInvariant, PTL DEF BreakSpec, GrowsByZeroes

----------------------------------------------------------------------------
(* Signals.  A program that catches one signal is either in main, or in    *)
(* the handler it entered from main.                                       *)

OneCaught == Cardinality(caught) <= 1

\* Context f with the flag in and the saved context.
GoesBack(in, f, saved) ==
    IF in THEN saved = <<MAIN>> /\ \E x \in Sigs \cup {TRAMPOLINE} : f = <<MAIN, x>>
    ELSE f = <<MAIN>>

\* The inductive invariant.
SignalInv ==
    /\ caught \in Programs
    /\ handler \in [Sigs -> {"SIG_DFL", "SIG_IGN", "handler"}]
    /\ \A s \in Sigs : handler[s] = "handler" => s \in caught
    /\ OneCaught /\ mode # "dead" =>
          /\ pending_signals \in SUBSET Sigs /\ in_signal \in BOOLEAN
          /\ signal_interrupted_iframe \in {<<>>, <<MAIN>>}
          /\ GoesBack(in_signal, iframe, signal_interrupted_iframe)

\* Entering a handler from main.
LEMMA AppendToOne ==
    ASSUME NEW a, NEW b
    PROVE  Append(<<a>>, b) = <<a, b>>
<1> DEFINE s == Append(<<a>>, b)
<1>1. s \in Seq({a, b}) /\ Len(s) = 2 /\ s[1] = a /\ s[2] = b
  OBVIOUS
<1> HIDE DEF s
<1>2. s = <<a, b>>
  BY <1>1
<1> QED
  BY <1>2, Zenon DEF s

\* A program that catches one signal catches no second one.
LEMMA OneIsOne ==
    ASSUME caught \in Programs, OneCaught, NEW s \in caught, NEW t \in caught
    PROVE  s = t
<1>1. caught \subseteq 1 .. 31
  BY SignalsAssumption, Zenon
<1>2. IsFiniteSet(caught)
  <2>1. IsFiniteSet(1 .. 31)
    <3>1. 1 \in Int /\ 31 \in Int
      OBVIOUS
    <3> QED
      BY <3>1, FS_Interval, Zenon
  <2> QED
    BY <1>1, <2>1, FS_Subset, Zenon
<1> SUFFICES ASSUME s # t PROVE FALSE
  BY Zenon
<1>3. IsFiniteSet({s, t}) /\ Cardinality({s, t}) = 2
  <2>1. IsFiniteSet({s}) /\ Cardinality({s}) = 1
    BY FS_Singleton, Zenon
  <2>2. Cardinality({s} \cup {t}) = Cardinality({s}) + 1
    BY <2>1, FS_AddElement, Zenon
  <2>3. {s} \cup {t} = {s, t}
    BY Zenon
  <2> QED
    BY <2>1, <2>2, <2>3, FS_AddElement, SMTT(30)
<1>4. Cardinality({s, t}) <= Cardinality(caught) /\ Cardinality(caught) \in Nat
  BY <1>2, FS_Subset, FS_CardinalityType, Zenon
<1> QED
  BY <1>3, <1>4 DEF OneCaught

\* What deliver_signals works on.
Delivery == [pending : SUBSET Sigs, frame : Seq(Nat), saved : Seq(Nat),
             in : BOOLEAN, dead : BOOLEAN]

\* After n turns for the signals D: nothing was entered, or the one handler was,
\* from main; in a handler D is empty.
Turned(p, n, D) ==
    /\ p \in Delivery /\ p.saved \in {<<>>, <<MAIN>>}
    /\ \/ ~p.in /\ p.frame = <<MAIN>>
       \/ /\ p.in /\ p.saved = <<MAIN>>
          /\ \E s \in caught : s <= n /\ p.frame = <<MAIN, s>>
       \/ p.in /\ D = {} /\ GoesBack(TRUE, p.frame, p.saved)

\* A turn of deliver_signals' loop stays in its types.
LEMMA TurnTyped ==
    ASSUME NEW p \in Delivery, NEW n \in Nat, NEW m
    PROVE  Turn(p, n, m) \in Delivery
<1>1. Append(p.frame, n) \in Seq(Nat)
  BY DEF Delivery
<1>2. Enter(p, n) \in Delivery
  BY <1>1, Zenon DEF Enter, Delivery
<1>3. [p EXCEPT !.pending = @ \ {n}] \in Delivery
  BY Zenon DEF Delivery
<1>4. [p EXCEPT !.pending = @ \ {n}, !.dead = n \in Terminate] \in Delivery
  <2>1. \A b \in BOOLEAN : [p EXCEPT !.pending = @ \ {n}, !.dead = b] \in Delivery
    BY Zenon DEF Delivery
  <2>2. (n \in Terminate) \in BOOLEAN
    OBVIOUS
  <2> QED
    BY <2>1, <2>2, Zenon
<1> QED
  BY <1>2, <1>3, <1>4, Zenon DEF Turn

\* A turn enters the one handler at most once.
LEMMA TurnKeeps ==
    ASSUME caught \in Programs, OneCaught,
           \A s \in Sigs : handler'[s] = "handler" => s \in caught,
           handler' \in [Sigs -> {"SIG_DFL", "SIG_IGN", "handler"}],
           NEW p, NEW n \in 1 .. 31, NEW m, NEW D \in SUBSET Sigs, Turned(p, n - 1, D)
    PROVE  Turned(IF n \notin D THEN p ELSE Turn(p, n, m), n, D)
<1> DEFINE t == IF n \notin D THEN p ELSE Turn(p, n, m)
<1>1. p \in Delivery /\ t \in Delivery /\ caught \subseteq 1 .. 31
  <2>1. n \in Nat
    OBVIOUS
  <2>2. p \in Delivery
    BY Zenon DEF Turned
  <2> QED
    BY <2>1, <2>2, TurnTyped, SignalsAssumption, SMTT(30)
<1>2. \A s \in caught : s <= n - 1 => s <= n
  BY <1>1
<1>3. CASE t.in = p.in /\ t.frame = p.frame /\ t.saved = p.saved
  <2> HIDE DEF t
  <2>1. Turned(t, n, D)
    BY <1>1, <1>2, <1>3 DEF Turned
  <2> QED
    BY <2>1, Zenon DEF t
<1>4. CASE n \in D /\ handler'[n] = "handler" /\ t = Enter(p, n)
  <2>1. n \in caught
    BY <1>4, Zenon
  <2>2. /\ t.in = TRUE /\ t.saved = p.frame /\ t.frame = Append(p.frame, n)
    BY <1>1, <1>4, Zenon DEF Enter, Delivery
  <2>3. ~p.in /\ p.frame = <<MAIN>>
    <3>1. \A s \in caught : s = n
      BY <2>1, OneIsOne, Zenon
    <3>2. ~\E s \in caught : s <= n - 1
      BY <3>1
    <3> QED
      BY <1>4, <3>2, Zenon DEF Turned
  <2>4. t.frame = <<MAIN, n>> /\ t.saved = <<MAIN>>
    <3>1. Append(<<MAIN>>, n) = <<MAIN, n>>
      BY AppendToOne, Zenon
    <3> HIDE DEF t
    <3> QED
      BY <2>2, <2>3, <3>1, Zenon
  <2>5. n <= n
    OBVIOUS
  <2> HIDE DEF t
  <2>6. Turned(t, n, D)
    BY <1>1, <2>1, <2>2, <2>4, <2>5, ZenonT(30) DEF Turned
  <2> QED
    BY <2>6 DEF t
<1>5. \/ t.in = p.in /\ t.frame = p.frame /\ t.saved = p.saved
      \/ n \in D /\ handler'[n] = "handler" /\ t = Enter(p, n)
  <2>1. n \in D => n \in Sigs
    BY Zenon
  <2> QED
    BY <1>1, <2>1, Zenon DEF Turn, Delivery
<1> QED
  BY <1>3, <1>4, <1>5, Zenon

\* deliver_signals on the way back to context f.
LEMMA DeliverKeeps ==
    ASSUME caught \in Programs, OneCaught, UNCHANGED caught,
           \A s \in Sigs : handler'[s] = "handler" => s \in caught,
           handler' \in [Sigs -> {"SIG_DFL", "SIG_IGN", "handler"}],
           NEW q \in SUBSET Sigs, NEW in \in BOOLEAN, NEW f,
           NEW saved \in {<<>>, <<MAIN>>}, NEW m, GoesBack(in, f, saved),
           deliver_signals(q, in, f, saved, m)
    PROVE  SignalInv'
<1> DEFINE K == 31
           start == [pending |-> q, frame |-> f, saved |-> saved, in |-> in, dead |-> FALSE]
           D == IF in THEN {} ELSE Deliverable(q)
           Go(p, s) == IF s \notin D THEN p ELSE Turn(p, s, m)
           F == [x \in Delivery \X Nat |-> Go(x[1], x[2])]
           loop == CHOOSE g : g = [s \in 0 .. K |-> IF s = 0 THEN start
                                                    ELSE IF s \notin D THEN g[s - 1]
                                                    ELSE Turn(g[s - 1], s, m)]
<1>1. Turned(start, 0, D)
  <2>1. MAIN \in Nat /\ TRAMPOLINE \in Nat /\ Sigs \subseteq Nat
    BY SignalsAssumption DEF MAIN, TRAMPOLINE
  <2>2. f \in Seq(Nat) /\ saved \in Seq(Nat)
    <3>1. \A x, y \in Nat : <<>> \in Seq(Nat) /\ <<x>> \in Seq(Nat) /\ <<x, y>> \in Seq(Nat)
      OBVIOUS
    <3> QED
      BY <2>1, <3>1, Zenon DEF GoesBack
  <2>3. start \in Delivery
    BY <2>2, Zenon DEF Delivery
  <2> QED
    BY <2>3, Zenon DEF Turned, GoesBack
<1>2. start \in Delivery
  BY <1>1, Zenon DEF Turned
<1>3. F \in [Delivery \X Nat -> Delivery] /\ \A p \in Delivery, n \in Nat : F[<<p, n>>] = Go(p, n)
  BY TurnTyped, Zenon
<1>0. K \in Nat /\ D \in SUBSET Sigs
  BY Zenon DEF Deliverable
<1> HIDE DEF F, start, K, D
<1>4. PICK g : Iterates(g, Delivery, start, F, K)
  BY <1>0, <1>2, <1>3, Iterate, ZenonT(30)
<1>5. g = [s \in 0 .. K |-> IF s = 0 THEN start ELSE Go(g[s - 1], s)]
  <2>1. ASSUME NEW s \in 1 .. K
        PROVE  g[s] = Go(g[s - 1], s)
    <3>1. g[s - 1] \in Delivery
      BY <1>0, <1>4, SMTT(30) DEF Iterates
    <3>2. s \in Nat /\ s \in 1 .. K
      BY <1>0
    <3>3. F[<<g[s - 1], s>>] = Go(g[s - 1], s)
      BY <1>3, <3>1, <3>2, Zenon
    <3> QED
      BY <1>4, <3>2, <3>3, ZenonT(30) DEF Iterates
  <2> QED
    BY <1>0, <1>4, <2>1, SMTT(30) DEF Iterates
<1>6. loop = [s \in 0 .. K |-> IF s = 0 THEN start ELSE Go(loop[s - 1], s)]
  BY <1>5, Zenon
<1>7. /\ pending_signals' = loop[K].pending /\ in_signal' = loop[K].in
      /\ iframe' = loop[K].frame /\ signal_interrupted_iframe' = loop[K].saved
  BY Zenon DEF deliver_signals, start, K, D
<1> HIDE DEF loop
<1> DEFINE S == {s \in 0 .. K : Turned(loop[s], s, D)}
<1>8. 0 \in S
  BY <1>0, <1>1, <1>6, SMTT(30)
<1>9. ASSUME NEW s \in 0 .. K - 1, s \in S
      PROVE  s + 1 \in S
  <2>1. s + 1 \in 1 .. K /\ (s + 1) - 1 = s
    BY <1>0
  <2>2. loop[s + 1] = Go(loop[s], s + 1)
    BY <1>0, <1>6, <2>1, SMTT(30)
  <2>3. Turned(Go(loop[s], s + 1), s + 1, D)
    BY <1>0, <1>9, <2>1, TurnKeeps, Zenon DEF K, S
  <2> QED
    BY <1>0, <2>1, <2>2, <2>3, SMTT(30)
<1> HIDE DEF S
<1>10. 0 .. K \subseteq S
  BY <1>0, <1>8, <1>9, BoundedInduction, Zenon
<1>11. Turned(loop[K], K, D)
  BY <1>0, <1>10 DEF S
<1>12. /\ pending_signals' \in SUBSET Sigs /\ in_signal' \in BOOLEAN
       /\ signal_interrupted_iframe' \in {<<>>, <<MAIN>>}
       /\ GoesBack(in_signal', iframe', signal_interrupted_iframe')
  <2>1. caught \subseteq Sigs
    BY SignalsAssumption, Zenon
  <2> QED
    BY <1>7, <1>11, <2>1, Zenon DEF Turned, Delivery, GoesBack
<1> QED
  BY <1>12, Zenon DEF SignalInv, GoesBack, MAIN, TRAMPOLINE

\* The frames of main and of a handler.
LEMMA FrameFacts ==
    ASSUME NEW x
    PROVE  /\ Last(<<MAIN>>) = MAIN
           /\ Last(<<MAIN, x>>) = x /\ Front(<<MAIN, x>>) = <<MAIN>>
<1>1. Len(<<MAIN>>) = 1 /\ Len(<<MAIN, x>>) = 2
  BY Zenon
<1>2. SubSeq(<<MAIN, x>>, 1, 1) = <<MAIN>>
  <2> DEFINE s == SubSeq(<<MAIN, x>>, 1, 1)
  <2>1. s \in Seq({MAIN, x}) /\ Len(s) = 1 /\ s[1] = MAIN
    <3>1. <<MAIN, x>> \in Seq({MAIN, x})
      OBVIOUS
    <3> QED
      BY <1>1, <3>1, SubSeqProperties
  <2> HIDE DEF s
  <2>2. s = <<MAIN>>
    BY <2>1
  <2> QED
    BY <2>2, Zenon DEF s
<1> QED
  BY <1>1, <1>2 DEF Last, Front

\* No call, signal or return breaks the invariant.
LEMMA SignalStep == SignalInv /\ [SignalNext]_<<signal_vars, caught>> => SignalInv'
<1> SUFFICES ASSUME SignalInv, [SignalNext]_<<signal_vars, caught>> PROVE SignalInv'
  BY Zenon
<1>1. /\ caught \in Programs /\ handler \in [Sigs -> {"SIG_DFL", "SIG_IGN", "handler"}]
      /\ \A s \in Sigs : handler[s] = "handler" => s \in caught
      /\ caught \subseteq Sigs /\ caught' = caught /\ (OneCaught' <=> OneCaught)
  BY SignalsAssumption, Zenon DEF SignalInv, SignalNext, signal_vars, OneCaught
<1>2. CASE UNCHANGED <<signal_vars, caught>>
  BY <1>2, Zenon DEF SignalInv, signal_vars, OneCaught, GoesBack, MAIN, TRAMPOLINE
<1>3. /\ handler' \in [Sigs -> {"SIG_DFL", "SIG_IGN", "handler"}]
      /\ \A s \in Sigs : handler'[s] = "handler" => s \in caught
  <2>1. CASE UNCHANGED handler
    BY <1>1, <2>1, Zenon
  <2>2. CASE \E s \in caught, h \in {"SIG_DFL", "SIG_IGN", "handler"} :
                handler' = [handler EXCEPT ![s] = h]
    BY <1>1, <2>2, Zenon
  <2>3. UNCHANGED handler \/ \E s \in caught, h \in {"SIG_DFL", "SIG_IGN", "handler"} :
                                handler' = [handler EXCEPT ![s] = h]
    BY Zenon DEF SignalNext, signal_vars, interrupt, block, unblock, handler_return, sigreturn,
           signal_task, raise, sigaction, sigprocmask
  <2> QED
    BY <2>1, <2>2, <2>3, Zenon
<1>4. CASE ~OneCaught
  BY <1>1, <1>3, <1>4, ZenonT(30) DEF SignalInv
<1>5. ASSUME OneCaught, SignalNext
      PROVE  SignalInv'
  <2>1. mode # "dead"
    BY <1>5, Zenon DEF SignalNext, interrupt, block, unblock, handler_return, sigreturn,
           signal_task, raise, sigaction, sigprocmask, Running
  <2>2. /\ pending_signals \in SUBSET Sigs /\ in_signal \in BOOLEAN
        /\ signal_interrupted_iframe \in {<<>>, <<MAIN>>}
        /\ GoesBack(in_signal, iframe, signal_interrupted_iframe)
    BY <1>5, <2>1, Zenon DEF SignalInv
  <2>3. ASSUME NEW q \in SUBSET Sigs, NEW m, Back(q, m)
        PROVE  SignalInv'
    BY <1>1, <1>3, <1>5, <2>2, <2>3, DeliverKeeps, ZenonT(30) DEF Back
  <2>4. CASE interrupt \/ unblock
    BY <2>2, <2>3, <2>4, Zenon DEF interrupt, unblock
  <2>5. ASSUME NEW s \in Sigs, raise(s)
        PROVE  SignalInv'
    <3>1. pending_signals \cup {s} \in SUBSET Sigs
      BY <2>2, <2>5, Zenon
    <3> QED
      BY <2>3, <2>5, <3>1, Zenon DEF raise
  <2>6. CASE \E s \in caught, h \in {"SIG_DFL", "SIG_IGN", "handler"} : sigaction(s, h)
    BY <2>2, <2>3, <2>6, Zenon DEF sigaction
  <2>7. CASE \E set \in SUBSET Sigs : sigprocmask(set)
    BY <2>2, <2>3, <2>7, Zenon DEF sigprocmask
  <2>8. ASSUME NEW s \in Sigs, signal_task(s)
        PROVE  SignalInv'
    <3>1. pending_signals' \in SUBSET Sigs
      BY <2>2, <2>8, Zenon DEF signal_task
    <3>2. UNCHANGED <<in_signal, iframe, signal_interrupted_iframe>>
      BY <2>8, Zenon DEF signal_task
    <3> QED
      BY <1>1, <1>3, <2>2, <3>1, <3>2, ZenonT(30) DEF SignalInv, GoesBack, MAIN, TRAMPOLINE
  <2>9. CASE block
    <3>1. UNCHANGED <<pending_signals, in_signal, iframe, signal_interrupted_iframe>>
      BY <2>9, Zenon DEF block
    <3> QED
      BY <1>1, <1>3, <2>2, <3>1, ZenonT(30) DEF SignalInv, GoesBack, MAIN, TRAMPOLINE
  <2>10. CASE handler_return
    <3>1. /\ UNCHANGED <<pending_signals, in_signal, signal_interrupted_iframe>>
          /\ Last(iframe) # MAIN /\ iframe' = Append(Front(iframe), TRAMPOLINE)
      BY <2>10, Zenon DEF handler_return
    <3>2. iframe # <<MAIN>>
      BY <3>1, FrameFacts, Zenon
    <3>3. in_signal /\ signal_interrupted_iframe = <<MAIN>> /\ \E x : iframe = <<MAIN, x>>
      BY <2>2, <3>2, Zenon DEF GoesBack
    <3>4. iframe' = <<MAIN, TRAMPOLINE>>
      BY <3>1, <3>3, FrameFacts, AppendToOne, SMTT(30)
    <3>5. GoesBack(in_signal, iframe, signal_interrupted_iframe)'
      BY <3>1, <3>3, <3>4, Zenon DEF GoesBack, MAIN, TRAMPOLINE
    <3> QED
      BY <1>1, <1>3, <2>2, <3>1, <3>5, Zenon DEF SignalInv, MAIN
  <2>11. CASE sigreturn
    <3>1. Last(iframe) = TRAMPOLINE
      BY <2>11, Zenon DEF sigreturn
    <3>2. iframe # <<MAIN>>
      <4>1. MAIN # TRAMPOLINE
        BY DEF MAIN, TRAMPOLINE
      <4> QED
        BY <3>1, <4>1, FrameFacts, Zenon
    <3>3. in_signal /\ signal_interrupted_iframe = <<MAIN>>
      BY <2>2, <3>2, Zenon DEF GoesBack
    <3>4. deliver_signals(pending_signals, FALSE, signal_interrupted_iframe,
                          signal_interrupted_iframe, mode)
      BY <2>11, <3>3, Zenon DEF sigreturn
    <3>5. GoesBack(FALSE, signal_interrupted_iframe, signal_interrupted_iframe)
      BY <3>3, Zenon DEF GoesBack
    <3> QED
      BY <1>1, <1>3, <1>5, <2>2, <3>4, <3>5, DeliverKeeps
  <2> QED
    BY <1>5, <2>4, <2>5, <2>6, <2>7, <2>8, <2>9, <2>10, <2>11, SMTT(30) DEF SignalNext
<1> QED
  BY <1>2, <1>4, <1>5, Zenon

\* The invariant of the program that catches one signal.
THEOREM SignalInvariant == SignalSpec => []SignalInv
<1>1. SignalInit => SignalInv
  BY Zenon DEF SignalInit, SignalInv, GoesBack
<1> QED
  BY <1>1, SignalStep, PTL DEF SignalSpec

\* ReturnsToInterrupted: no second handler is entered on the way to the first,
\* whatever is pending, masked and installed meanwhile.
THEOREM HandlersReturn == SignalSpec => []ReturnsToInterrupted
<1>1. SignalInv => ReturnsToInterrupted
  BY FrameFacts, Zenon DEF SignalInv, ReturnsToInterrupted, GoesBack, OneCaught
<1> QED
  BY <1>1, SignalInvariant, PTL

=============================================================================
