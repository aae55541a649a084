----------------------------- MODULE RingProofs -----------------------------
(***************************************************************************)
(* Two rings of bytes, of any length: a pipe's and the terminal's.         *)
(*                                                                         *)
(* A pipe is a bounded queue for calls of any size and any number of       *)
(* processes that share its ends.  The first part is about the ring alone: *)
(* what moving a head does to the bytes between the heads.  PipeInv ties   *)
(* the counts of the ends to who holds them, and every waiting call to the *)
(* end it needs; each step of read, write, fork, close and exit is then a  *)
(* step of ByteStream.  The last part is about the terminal's ring, which  *)
(* the keyboard's interrupt fills while a reader empties it.               *)
(***************************************************************************)
EXTENDS Pipe, Tty, Induction, SequenceTheorems

----------------------------------------------------------------------------
(* The ring.                                                               *)

\* k places after slot h.
At(h, k) == IF h + k < PIPE_SIZE THEN h + k ELSE h + k - PIPE_SIZE

\* How many bytes lie between the heads.
Held(r, w) == IF w >= r THEN w - r ELSE w - r + PIPE_SIZE

LEMMA AtIsModulo ==
    ASSUME NEW h \in Slots, NEW k \in 0 .. PIPE_SIZE
    PROVE  At(h, k) \in Slots /\ (h + k) % PIPE_SIZE = At(h, k)
  BY PipeAssumption DEF Slots, At

LEMMA HeldIsModulo ==
    ASSUME NEW r \in Slots, NEW w \in Slots
    PROVE  /\ Held(r, w) \in Nat /\ Held(r, w) < PIPE_SIZE
           /\ (w - r + PIPE_SIZE) % PIPE_SIZE = Held(r, w)
           /\ (PIPE_SIZE - r + w) % PIPE_SIZE = Held(r, w)
           /\ (r - w - 1 + PIPE_SIZE) % PIPE_SIZE = PIPE_SIZE - 1 - Held(r, w)
  BY PipeAssumption DEF Slots, Held

LEMMA ContentsSeq ==
    ASSUME NEW r \in Slots, NEW w \in Slots, NEW b \in [Slots -> Data]
    PROVE  /\ Contents(r, w, b) \in Seq(Data)
           /\ Len(Contents(r, w, b)) = Held(r, w)
           /\ \A i \in 1 .. Held(r, w) : Contents(r, w, b)[i] = b[At(r, i - 1)]
  <1>1. /\ Held(r, w) \in Nat /\ Held(r, w) < PIPE_SIZE /\ PIPE_SIZE \in Nat
        /\ (w - r + PIPE_SIZE) % PIPE_SIZE = Held(r, w)
    BY HeldIsModulo, PipeAssumption, Zenon
  <1>2. ASSUME NEW i \in 1 .. Held(r, w)
        PROVE  (r + i - 1) % PIPE_SIZE = At(r, i - 1) /\ At(r, i - 1) \in Slots
    <2>1. i - 1 \in 0 .. PIPE_SIZE /\ r + i - 1 = r + (i - 1)
      BY <1>1 DEF Slots
    <2> QED
      BY <2>1, AtIsModulo, Zenon
  <1>3. Contents(r, w, b) = [i \in 1 .. Held(r, w) |-> b[At(r, i - 1)]]
    BY <1>1, <1>2, Zenon DEF Contents
  <1>4. \A i \in 1 .. Held(r, w) : b[At(r, i - 1)] \in Data
    BY <1>2, Zenon
  <1> QED
    BY <1>1, <1>3, <1>4

\* Reading n bytes takes the n oldest ones.
LEMMA ReadTakesOldest ==
    ASSUME NEW r \in Slots, NEW w \in Slots, NEW b \in [Slots -> Data],
           NEW n \in 0 .. Held(r, w)
    PROVE  /\ At(r, n) \in Slots
           /\ Contents(At(r, n), w, b) = SubSeq(Contents(r, w, b), n + 1, Len(Contents(r, w, b)))
           /\ [i \in 1 .. n |-> b[(r + i - 1) % PIPE_SIZE]] = SubSeq(Contents(r, w, b), 1, n)
  <1> DEFINE s == Contents(r, w, b)
             len == Held(r, w)
             q == At(r, n)
             t == Contents(q, w, b)
             d == [i \in 1 .. n |-> b[(r + i - 1) % PIPE_SIZE]]
  <1>1. /\ len \in Nat /\ len < PIPE_SIZE /\ n \in Nat /\ n <= len /\ q \in Slots
        /\ Held(q, w) = len - n /\ PIPE_SIZE \in Nat
    BY HeldIsModulo, PipeAssumption DEF Slots, At, Held
  <1>2. /\ s \in Seq(Data) /\ Len(s) = len
        /\ \A i \in 1 .. len : s[i] = b[At(r, i - 1)] /\ s[i] \in Data
    <2>1. /\ s \in Seq(Data) /\ Len(s) = len
          /\ \A i \in 1 .. len : s[i] = b[At(r, i - 1)]
      BY ContentsSeq, Zenon
    <2> QED
      BY <2>1
  <1>3. /\ t \in Seq(Data) /\ Len(t) = len - n
        /\ \A i \in 1 .. len - n : t[i] = b[At(q, i - 1)]
    <2>1. /\ t \in Seq(Data) /\ Len(t) = Held(q, w)
          /\ \A i \in 1 .. Held(q, w) : t[i] = b[At(q, i - 1)]
      BY <1>1, ContentsSeq, Zenon
    <2> QED
      BY <1>1, <2>1, Zenon
  <1>4. \A i \in 1 .. len - n : At(q, i - 1) = At(r, n + i - 1)
    BY <1>1 DEF At, Slots, Held
  <1> HIDE DEF s, len, q, t
  <1>5. /\ SubSeq(s, n + 1, len) \in Seq(Data)
        /\ Len(SubSeq(s, n + 1, len)) = len - n
        /\ \A i \in 1 .. len - n : SubSeq(s, n + 1, len)[i] = s[n + i]
    <2>1. /\ n + 1 \in Int /\ len \in Int
          /\ \A i \in n + 1 .. len : s[i] \in Data
      BY <1>1, <1>2
    <2>2. /\ SubSeq(s, n + 1, len) \in Seq(Data)
          /\ Len(SubSeq(s, n + 1, len)) = IF n + 1 <= len THEN len - (n + 1) + 1 ELSE 0
          /\ \A i \in 1 .. len - (n + 1) + 1 : SubSeq(s, n + 1, len)[i] = s[n + 1 + i - 1]
      BY <2>1, SubSeqProperties
    <2> QED
      BY <1>1, <2>2
  <1>6. t = SubSeq(s, n + 1, len)
    <2>1. ASSUME NEW i \in 1 .. len - n
          PROVE  t[i] = SubSeq(s, n + 1, len)[i]
      <3>1. n + i \in 1 .. len
        BY <1>1
      <3>2. t[i] = b[At(r, n + i - 1)]
        BY <1>3, <1>4, Zenon
      <3>3. s[n + i] = b[At(r, n + i - 1)]
        BY <1>2, <3>1
      <3> QED
        BY <1>5, <3>2, <3>3, Zenon
    <2> QED
      BY <1>3, <1>5, <2>1, SeqEqual, Zenon
  <1>7. /\ SubSeq(s, 1, n) \in Seq(Data) /\ Len(SubSeq(s, 1, n)) = n
        /\ \A i \in 1 .. n : SubSeq(s, 1, n)[i] = s[i]
    <2>1. 1 \in Int /\ n \in Int /\ \A i \in 1 .. n : s[i] \in Data
      BY <1>1, <1>2
    <2>2. /\ SubSeq(s, 1, n) \in Seq(Data)
          /\ Len(SubSeq(s, 1, n)) = IF 1 <= n THEN n - 1 + 1 ELSE 0
          /\ \A i \in 1 .. n - 1 + 1 : SubSeq(s, 1, n)[i] = s[1 + i - 1]
      BY <2>1, SubSeqProperties
    <2> QED
      BY <1>1, <2>2
  <1>8. d = SubSeq(s, 1, n)
    <2>1. ASSUME NEW i \in 1 .. n
          PROVE  d[i] = s[i] /\ d[i] \in Data
      <3>1. i - 1 \in 0 .. PIPE_SIZE /\ r + i - 1 = r + (i - 1) /\ i \in 1 .. len
        BY <1>1 DEF Slots
      <3>2. (r + i - 1) % PIPE_SIZE = At(r, i - 1)
        BY <3>1, AtIsModulo, Zenon
      <3> QED
        BY <1>2, <3>1, <3>2, Zenon
    <2>2. d \in Seq(Data) /\ Len(d) = n
      BY <1>1, <2>1
    <2> QED
      BY <1>7, <2>1, <2>2, SeqEqual, Zenon
  <1> QED
    BY <1>1, <1>2, <1>6, <1>8, Zenon DEF s, len, q, t

\* The first n members of a sequence.
LEMMA Prefix ==
    ASSUME NEW s \in Seq(Data), NEW n \in 0 .. Len(s)
    PROVE  /\ SubSeq(s, 1, n) \in Seq(Data) /\ Len(SubSeq(s, 1, n)) = n
           /\ \A i \in 1 .. n : SubSeq(s, 1, n)[i] = s[i]
  <1>1. 1 \in Int /\ n \in Int /\ \A i \in 1 .. n : s[i] \in Data
    OBVIOUS
  <1>2. /\ SubSeq(s, 1, n) \in Seq(Data)
        /\ Len(SubSeq(s, 1, n)) = IF 1 <= n THEN n - 1 + 1 ELSE 0
        /\ \A i \in 1 .. n - 1 + 1 : SubSeq(s, 1, n)[i] = s[1 + i - 1]
    BY <1>1, SubSeqProperties
  <1> QED
    BY <1>1, <1>2

\* The members after the first n.
LEMMA Suffix ==
    ASSUME NEW s \in Seq(Data), NEW n \in 0 .. Len(s)
    PROVE  /\ SubSeq(s, n + 1, Len(s)) \in Seq(Data)
           /\ Len(SubSeq(s, n + 1, Len(s))) = Len(s) - n
           /\ n = 0 => SubSeq(s, n + 1, Len(s)) = s
  <1> DEFINE len == Len(s)
  <1>1. n + 1 \in Int /\ len \in Int /\ \A i \in n + 1 .. len : s[i] \in Data
    OBVIOUS
  <1>2. /\ SubSeq(s, n + 1, len) \in Seq(Data)
        /\ Len(SubSeq(s, n + 1, len)) = IF n + 1 <= len THEN len - (n + 1) + 1 ELSE 0
    BY <1>1, SubSeqProperties
  <1>3. n = 0 => SubSeq(s, n + 1, len) = s
    BY SubSeqFull
  <1> QED
    BY <1>1, <1>2, <1>3

\* The ring after n bytes of todo have been copied to it.
Written(w, b, todo, n) ==
    [i \in Slots |-> LET k == (i - w + PIPE_SIZE) % PIPE_SIZE
                     IN  IF k < n THEN todo[k + 1] ELSE b[i]]

\* What the copy does to the heads and to the contents.
Appended(r, w, b, todo, n) ==
    /\ At(w, n) \in Slots /\ Written(w, b, todo, n) \in [Slots -> Data]
    /\ Held(r, At(w, n)) = Held(r, w) + n
    /\ Contents(r, At(w, n), Written(w, b, todo, n))
         = Contents(r, w, b) \o SubSeq(todo, 1, n)

\* Writing n bytes that fit puts them behind the others.
LEMMA WriteAppends ==
    ASSUME NEW r \in Slots, NEW w \in Slots, NEW b \in [Slots -> Data],
           NEW todo \in Seq(Data), NEW n \in 0 .. Len(todo),
           n <= PIPE_SIZE - 1 - Held(r, w)
    PROVE  Appended(r, w, b, todo, n)
  <1> DEFINE c == Written(w, b, todo, n)
             s == Contents(r, w, b)
             len == Held(r, w)
             v == At(w, n)
             t == Contents(r, v, c)
             taken == SubSeq(todo, 1, n)
  <1>1. len \in Nat /\ len < PIPE_SIZE /\ PIPE_SIZE \in Nat /\ n \in Nat
    BY HeldIsModulo, PipeAssumption
  <1>2. v \in Slots /\ Held(r, v) = len + n /\ len + n < PIPE_SIZE
    BY <1>1 DEF At, Held, Slots
  <1>3. ASSUME NEW i \in Slots
        PROVE  c[i] = IF Held(w, i) < n THEN todo[Held(w, i) + 1] ELSE b[i]
    BY HeldIsModulo, Zenon DEF Written
  <1>4. c \in [Slots -> Data]
    <2>1. ASSUME NEW i \in Slots
          PROVE  c[i] \in Data
      <3>1. Held(w, i) \in Nat
        BY HeldIsModulo, Zenon
      <3>2. Held(w, i) < n => Held(w, i) + 1 \in 1 .. Len(todo)
        BY <3>1
      <3>3. Held(w, i) < n => todo[Held(w, i) + 1] \in Data
        BY <3>2
      <3> QED
        BY <1>3, <3>3, Zenon
    <2> QED
      BY <2>1, Zenon DEF Written
  <1>5. /\ s \in Seq(Data) /\ Len(s) = len
        /\ \A i \in 1 .. len : s[i] = b[At(r, i - 1)]
    BY ContentsSeq, Zenon
  <1>6. /\ t \in Seq(Data) /\ Len(t) = len + n
        /\ \A i \in 1 .. len + n : t[i] = c[At(r, i - 1)]
    <2>1. /\ t \in Seq(Data) /\ Len(t) = Held(r, v)
          /\ \A i \in 1 .. Held(r, v) : t[i] = c[At(r, i - 1)]
      BY <1>2, <1>4, ContentsSeq, Zenon
    <2> QED
      BY <1>2, <2>1, Zenon
  <1>7. /\ taken \in Seq(Data) /\ Len(taken) = n
        /\ \A i \in 1 .. n : taken[i] = todo[i]
    BY Prefix, Zenon
  <1>8. ASSUME NEW i \in 1 .. len + n
        PROVE  /\ At(r, i - 1) \in Slots
               /\ i <= len => ~(Held(w, At(r, i - 1)) < n)
               /\ i > len => Held(w, At(r, i - 1)) = i - len - 1
    BY <1>1, <1>2 DEF At, Held, Slots
  <1> HIDE DEF c, s, len, v, t, taken
  <1>9. /\ s \o taken \in Seq(Data) /\ Len(s \o taken) = len + n
        /\ \A i \in 1 .. len + n :
              (s \o taken)[i] = IF i <= len THEN s[i] ELSE taken[i - len]
    BY <1>5, <1>7, ConcatProperties
  <1>10. ASSUME NEW i \in 1 .. len + n
         PROVE  t[i] = (s \o taken)[i]
    <2>1. CASE i <= len
      <3>1. c[At(r, i - 1)] = b[At(r, i - 1)]
        BY <1>3, <1>8, <2>1, Zenon
      <3>2. i \in 1 .. len
        BY <1>1, <2>1
      <3> QED
        BY <1>5, <1>6, <1>9, <2>1, <3>1, <3>2, Zenon
    <2>2. CASE i > len
      <3>1. i - len \in 1 .. n /\ (i - len - 1) + 1 = i - len /\ i - len - 1 < n
        BY <1>1, <2>2
      <3>2. c[At(r, i - 1)] = todo[i - len]
        BY <1>3, <1>8, <2>2, <3>1, Zenon
      <3>3. taken[i - len] = todo[i - len]
        BY <1>7, <3>1, Zenon
      <3>4. ~(i <= len)
        BY <1>1, <2>2
      <3> QED
        BY <1>6, <1>9, <3>2, <3>3, <3>4, Zenon
    <2>3. i <= len \/ i > len
      BY <1>1
    <2> QED
      BY <2>1, <2>2, <2>3, Zenon
  <1>11. t = s \o taken
    BY <1>6, <1>9, <1>10, SeqEqual, Zenon
  <1> QED
    BY <1>2, <1>4, <1>11, Zenon DEF Appended, c, s, len, v, t, taken

----------------------------------------------------------------------------
(* The processes.                                                          *)

Calls == {Idle} \cup [op : {"read"}, size : Sizes]
         \cup [op : {"write"}, todo : Seq(Data), done : Seq(Data), blocking : BOOLEAN]

\* The ring.
RingInv == read_head \in Slots /\ write_head \in Slots /\ buffer \in [Slots -> Data]

\* The ends: a count says whether anybody holds the end.
EndsInv ==
    /\ holds \in [Procs -> SUBSET Ends]
    /\ reader_count = IF Open("r") THEN 1 ELSE 0
    /\ writer_count = IF Open("w") THEN 1 ELSE 0

\* The calls: whoever waits holds the end, and has something left to write.
CallsInv ==
    /\ call \in [Procs -> Calls]
    /\ \A p \in Procs : /\ call[p].op = "read" => "r" \in holds[p]
                        /\ call[p].op = "write" => "w" \in holds[p] /\ call[p].todo # <<>>

PipeInv ==
    /\ RingInv /\ EndsInv /\ CallsInv
    /\ nonblock \in [Ends -> BOOLEAN] /\ pending \in [Procs -> BOOLEAN]

LEMMA CallFacts ==
    ASSUME NEW c \in Calls
    PROVE  /\ c.op \in {"none", "read", "write"}
           /\ c.op = "none" <=> c = Idle
           /\ c.op = "read" => c.size \in Sizes
           /\ c.op = "write" => c.todo \in Seq(Data) /\ c.done \in Seq(Data)
                                /\ c.blocking \in BOOLEAN
  BY DEF Calls, Idle

LEMMA InitHolds == PipeInit => PipeInv /\ Stream!StreamInit
  <1> SUFFICES ASSUME PipeInit
               PROVE  PipeInv /\ Stream!StreamInit
    BY Zenon
  <1>1. RingInv
    BY PipeAssumption DEF PipeInit, RingInv, Slots
  <1>2. EndsInv
    BY Zenon DEF PipeInit, EndsInv, Open
  <1>3. CallsInv
    BY Zenon DEF PipeInit, CallsInv, Calls, Idle
  <1>4. nonblock \in [Ends -> BOOLEAN] /\ pending \in [Procs -> BOOLEAN]
    BY Zenon DEF PipeInit
  <1>5. Contents(read_head, write_head, buffer) = <<>>
    <2>1. Held(read_head, write_head) = 0
      BY DEF PipeInit, Held
    <2>2. /\ Contents(read_head, write_head, buffer) \in Seq(Data)
          /\ Len(Contents(read_head, write_head, buffer)) = 0
      BY <1>1, <2>1, ContentsSeq, Zenon DEF RingInv
    <2> QED
      BY <2>2
  <1>6. Stream!StreamInit
    BY <1>5, Zenon DEF PipeInit, Stream!StreamInit, Stream!Idle, Idle
  <1> QED
    BY <1>1, <1>2, <1>3, <1>4, <1>6, Zenon DEF PipeInv

\* Closing ends: the counts stay right, and no end opens.
LEMMA DropKeeps ==
    ASSUME EndsInv, NEW p \in Procs, NEW E \in SUBSET Ends, E \subseteq holds[p], Drop(p, E)
    PROVE  /\ EndsInv'
           /\ holds' = [holds EXCEPT ![p] = @ \ E]
           /\ \A e \in Ends : Open(e)' => Open(e)
  <1>1. /\ holds' = [holds EXCEPT ![p] = @ \ E]
        /\ holds' \in [Procs -> SUBSET Ends]
    BY Zenon DEF Drop, EndsInv
  <1>2. \A e \in Ends : Open(e)' => Open(e)
    BY <1>1, Zenon DEF EndsInv, Open
  <1> DEFINE last == {e \in E : \A q \in Procs \ {p} : e \notin holds[q]}
  <1>3. \A e \in last : Open(e) /\ ~Open(e)'
    BY <1>1, Zenon DEF EndsInv, Open
  <1>4. \A e \in Ends \ last : Open(e) => Open(e)'
    BY <1>1, Zenon DEF EndsInv, Open
  <1>5. /\ reader_count' = reader_count - IF "r" \in last THEN 1 ELSE 0
        /\ writer_count' = writer_count - IF "w" \in last THEN 1 ELSE 0
    BY Zenon DEF Drop
  <1> HIDE DEF last
  <1>6. reader_count' = IF Open("r")' THEN 1 ELSE 0
    BY <1>2, <1>3, <1>4, <1>5 DEF EndsInv, Ends
  <1>7. writer_count' = IF Open("w")' THEN 1 ELSE 0
    BY <1>2, <1>3, <1>4, <1>5 DEF EndsInv, Ends
  <1> QED
    BY <1>1, <1>2, <1>6, <1>7, Zenon DEF EndsInv

----------------------------------------------------------------------------
(* The ends change hands: every such step is Share.                        *)

LEMMA PipeStep ==
    ASSUME PipeInv, NEW p \in Procs, pipe(p)
    PROVE  PipeInv' /\ Stream!Share
  <1>1. ~Open("r") /\ ~Open("w")
    BY DEF PipeInv, EndsInv, pipe
  <1>2. holds' = [holds EXCEPT ![p] = Ends] /\ holds' \in [Procs -> SUBSET Ends]
    BY Zenon DEF pipe, PipeInv, EndsInv
  <1>3. EndsInv'
    BY <1>2, Zenon DEF pipe, EndsInv, Open, Ends
  <1>4. RingInv'
    BY PipeAssumption DEF pipe, PipeInv, RingInv, Slots
  <1>5. CallsInv'
    BY <1>2, Zenon DEF pipe, PipeInv, CallsInv, EndsInv, Ends
  <1>6. Contents(read_head', write_head', buffer') = <<>>
    <2>1. Held(read_head', write_head') = 0
      BY DEF pipe, Held
    <2>2. /\ Contents(read_head', write_head', buffer') \in Seq(Data)
          /\ Len(Contents(read_head', write_head', buffer')) = 0
      BY <1>4, <2>1, ContentsSeq, Zenon DEF RingInv
    <2> QED
      BY <2>2
  <1>7. Stream!Share
    BY <1>1, <1>2, <1>5, <1>6, Zenon
       DEF pipe, Stream!Share, Stream!Open, Open, CallsInv, Ends
  <1>8. nonblock' \in [Ends -> BOOLEAN] /\ pending' \in [Procs -> BOOLEAN]
    BY Zenon DEF pipe, PipeInv
  <1> QED
    BY <1>3, <1>4, <1>5, <1>7, <1>8, Zenon DEF PipeInv

LEMMA ForkStep ==
    ASSUME PipeInv, NEW p \in Procs, NEW q \in Procs, fork(p, q)
    PROVE  PipeInv' /\ Stream!Share
  <1>1. /\ holds' = [holds EXCEPT ![q] = holds[p]] /\ holds' \in [Procs -> SUBSET Ends]
        /\ holds[q] = {}
    BY Zenon DEF fork, PipeInv, EndsInv
  <1>2. \A e \in Ends : Open(e)' <=> Open(e)
    BY <1>1, Zenon DEF PipeInv, EndsInv, Open
  <1>3. EndsInv'
    BY <1>1, <1>2, Zenon DEF fork, PipeInv, EndsInv, Ends
  <1>4. CallsInv'
    BY <1>1, Zenon DEF fork, PipeInv, CallsInv, EndsInv
  <1>5. RingInv' /\ nonblock' \in [Ends -> BOOLEAN] /\ pending' \in [Procs -> BOOLEAN]
    BY Zenon DEF fork, PipeInv, RingInv, ring
  <1>6. Stream!Share
    BY <1>1, <1>2, <1>4, Zenon DEF fork, ring, Stream!Share, Stream!Open, Open, CallsInv, Ends
  <1> QED
    BY <1>3, <1>4, <1>5, <1>6, Zenon DEF PipeInv

LEMMA CloseStep ==
    ASSUME PipeInv, NEW p \in Procs, NEW e \in Ends, fd_close(p, e)
    PROVE  PipeInv' /\ Stream!Share
  <1>1. /\ EndsInv' /\ holds' = [holds EXCEPT ![p] = @ \ {e}]
        /\ \A x \in Ends : Open(x)' => Open(x)
    BY DropKeeps, Zenon DEF fd_close, PipeInv
  <1>2. call[p].op = "none" /\ call' = call
    BY DEF fd_close, Idle
  <1>3. CallsInv'
    BY <1>1, <1>2, Zenon DEF PipeInv, CallsInv, EndsInv
  <1>4. RingInv' /\ nonblock' \in [Ends -> BOOLEAN] /\ pending' \in [Procs -> BOOLEAN]
    BY Zenon DEF fd_close, PipeInv, RingInv, ring
  <1>5. Stream!Share
    BY <1>1, <1>2, <1>3, Zenon
       DEF fd_close, ring, Stream!Share, Stream!Open, Open, CallsInv, EndsInv, Ends
  <1> QED
    BY <1>1, <1>3, <1>4, <1>5, Zenon DEF PipeInv

LEMMA ExitStep ==
    ASSUME PipeInv, NEW p \in Procs, exit(p)
    PROVE  PipeInv' /\ Stream!Share
  <1>1. /\ EndsInv' /\ holds' = [holds EXCEPT ![p] = @ \ holds[p]]
        /\ \A x \in Ends : Open(x)' => Open(x)
    BY DropKeeps, Zenon DEF exit, PipeInv, EndsInv
  <1>2. /\ call' = [call EXCEPT ![p] = Idle] /\ call'[p] = Idle /\ holds'[p] = {}
        /\ \A q \in Procs \ {p} : call'[q] = call[q] /\ holds'[q] = holds[q]
    BY <1>1, Zenon DEF exit, PipeInv, CallsInv, EndsInv
  <1>3. CallsInv'
    BY <1>2, Zenon DEF PipeInv, CallsInv, Calls, Idle
  <1>4. RingInv' /\ nonblock' \in [Ends -> BOOLEAN] /\ pending' \in [Procs -> BOOLEAN]
    BY Zenon DEF exit, PipeInv, RingInv, ring
  <1>5. Stream!Share
    BY <1>1, <1>2, <1>3, Zenon
       DEF exit, ring, Stream!Share, Stream!Open, Stream!Idle, Idle, Open, CallsInv, EndsInv, Ends
  <1> QED
    BY <1>1, <1>3, <1>4, <1>5, Zenon DEF PipeInv

\* fcntl and kill change nothing that ByteStream sees.
LEMMA QuietStep ==
    ASSUME PipeInv,
           \/ \E p \in Procs : kill(p)
           \/ \E p \in Procs, e \in Ends, b \in BOOLEAN : fcntl(p, e, b)
           \/ UNCHANGED pipe_vars
    PROVE  PipeInv' /\ UNCHANGED Stream!streamVars
  <1>1. UNCHANGED <<read_head, write_head, buffer, reader_count, writer_count, holds, call, result>>
    BY Zenon DEF kill, fcntl, ring, pipe_vars
  <1>2. nonblock' \in [Ends -> BOOLEAN] /\ pending' \in [Procs -> BOOLEAN]
    BY Zenon DEF kill, fcntl, pipe_vars, PipeInv
  <1>3. RingInv' /\ EndsInv' /\ CallsInv'
    BY <1>1, Zenon DEF PipeInv, RingInv, EndsInv, CallsInv, Open
  <1> QED
    BY <1>1, <1>2, <1>3, Zenon DEF PipeInv, Stream!streamVars

----------------------------------------------------------------------------
(* Calls.  A call that returns or waits keeps CallsInv when what it leaves *)
(* in call is fit for the ends its process holds.                          *)

LEMMA CallChanges ==
    ASSUME PipeInv, NEW p \in Procs, NEW c \in Calls,
           c.op = "read" => "r" \in holds[p],
           c.op = "write" => "w" \in holds[p] /\ c.todo # <<>>,
           call' = [call EXCEPT ![p] = c],
           UNCHANGED <<reader_count, writer_count, nonblock, holds>>,
           UNCHANGED pending \/ pending' = [pending EXCEPT ![p] = FALSE]
    PROVE  /\ EndsInv' /\ CallsInv'
           /\ nonblock' \in [Ends -> BOOLEAN] /\ pending' \in [Procs -> BOOLEAN]
  BY Zenon DEF PipeInv, EndsInv, CallsInv, Open

LEMMA IdleIsCall == Idle \in Calls /\ Idle.op = "none"
  BY Zenon DEF Calls, Idle

LEMMA ReadStep ==
    ASSUME PipeInv, NEW p \in Procs, NEW size \in Sizes, "r" \in holds[p],
           pipe_read(p, size)
    PROVE  PipeInv' /\ Stream!Get(p, size)
  <1> DEFINE s == Contents(read_head, write_head, buffer)
             s2 == Contents(read_head', write_head', buffer')
             len == Held(read_head, write_head)
             n == MinOf(size, Readable)
  <1>1. read_head \in Slots /\ write_head \in Slots /\ buffer \in [Slots -> Data]
    BY Zenon DEF PipeInv, RingInv
  <1>2. /\ Readable = len /\ len \in Nat /\ len < PIPE_SIZE /\ size \in Nat
        /\ s \in Seq(Data) /\ Len(s) = len
    <2>1. Readable = len
      BY <1>1, HeldIsModulo, Zenon DEF Readable, Held
    <2>2. len \in Nat /\ len < PIPE_SIZE /\ s \in Seq(Data) /\ Len(s) = len
      BY <1>1, HeldIsModulo, ContentsSeq, Zenon
    <2> QED
      BY <2>1, <2>2, PipeAssumption, Zenon
  <1>3. n \in 0 .. len /\ n \in 0 .. size /\ (n < size => n = len)
    BY <1>2 DEF MinOf
  <1>4. /\ UNCHANGED <<write_head, buffer, reader_count, writer_count, nonblock, holds>>
    BY Zenon DEF pipe_read
  <1>5. Open("w") <=> writer_count # 0
    BY DEF PipeInv, EndsInv
  <1>6. CASE /\ Readable > 0
             /\ read_head' = IF write_head >= read_head THEN read_head + n
                             ELSE (read_head + n) % PIPE_SIZE
             /\ Return(p, "OK", [i \in 1 .. n |-> buffer[(read_head + i - 1) % PIPE_SIZE]])
    <2>1. read_head' = At(read_head, n)
      <3>1. (read_head + n) % PIPE_SIZE = At(read_head, n)
        BY <1>1, <1>2, <1>3, AtIsModulo, PipeAssumption
      <3>2. write_head >= read_head => read_head + n = At(read_head, n)
        BY <1>1, <1>3, PipeAssumption DEF At, Held, Slots
      <3> QED
        BY <1>6, <3>1, <3>2, Zenon
    <2>2. /\ read_head' \in Slots
          /\ s2 = SubSeq(s, n + 1, Len(s))
          /\ [i \in 1 .. n |-> buffer[(read_head + i - 1) % PIPE_SIZE]] = SubSeq(s, 1, n)
      <3>1. /\ At(read_head, n) \in Slots
            /\ Contents(At(read_head, n), write_head, buffer) = SubSeq(s, n + 1, Len(s))
            /\ [i \in 1 .. n |-> buffer[(read_head + i - 1) % PIPE_SIZE]] = SubSeq(s, 1, n)
        <4>1. n \in 0 .. Held(read_head, write_head)
          BY <1>3, Zenon
        <4> HIDE DEF n
        <4> QED
          BY <1>1, <4>1, ReadTakesOldest
      <3> QED
        BY <1>4, <2>1, <3>1, Zenon
    <2>3. RingInv'
      BY <1>1, <1>4, <2>2, Zenon DEF RingInv
    <2>4. /\ call' = [call EXCEPT ![p] = Idle]
          /\ result' = [err |-> "OK", data |-> SubSeq(s, 1, n)]
          /\ pending' = [pending EXCEPT ![p] = FALSE]
      BY <1>6, <2>2, Zenon DEF Return
    <2>5. s # <<>>
      BY <1>2, <1>6
    <2> HIDE DEF s, s2, n
    <2>6. Stream!Get(p, size)
      <3>1. /\ n \in 0 .. size /\ (n < size => n = Len(s)) /\ n <= Len(s)
            /\ s # <<>> /\ s2 = SubSeq(s, n + 1, Len(s))
        BY <1>2, <1>3, <2>2, <2>5
      <3> QED
        BY <1>4, <2>4, <3>1, Zenon DEF Stream!Get, Stream!Answers, Stream!Idle, Idle, s, s2
    <2> QED
      BY <1>4, <2>3, <2>4, <2>6, CallChanges, IdleIsCall, Zenon DEF PipeInv
  <1>7. CASE Readable = 0 /\ UNCHANGED read_head
             /\ \/ writer_count = 0 /\ Return(p, "OK", <<>>)
                \/ writer_count # 0 /\ \E err \in {"EAGAIN", "EINTR"} : Return(p, err, <<>>)
                \/ writer_count # 0 /\ Yield(p, [op |-> "read", size |-> size])
    <2>1. s = <<>> /\ s2 = s /\ SubSeq(s, 1, 0) = <<>> /\ SubSeq(s, 0 + 1, Len(s)) = <<>>
      <3>1. s = <<>>
        BY <1>2, <1>7
      <3>2. SubSeq(s, 1, 0) = <<>> /\ SubSeq(s, 0 + 1, Len(s)) = <<>>
        BY <3>1
      <3> QED
        BY <1>4, <1>7, <3>1, <3>2
    <2>2. RingInv'
      BY <1>1, <1>4, <1>7, Zenon DEF RingInv
    <2>3. CASE writer_count = 0 /\ Return(p, "OK", <<>>)
      <3>1. /\ call' = [call EXCEPT ![p] = Idle]
            /\ result' = [err |-> "OK", data |-> <<>>]
            /\ pending' = [pending EXCEPT ![p] = FALSE]
        BY <2>3, Zenon DEF Return
      <3>2. Stream!Get(p, size)
        <4> HIDE DEF s, s2
        <4>1. /\ 0 \in 0 .. size /\ 0 = Len(s) /\ 0 <= Len(s) /\ ~Open("w")
              /\ s2 = SubSeq(s, 0 + 1, Len(s)) /\ SubSeq(s, 1, 0) = <<>>
          BY <1>2, <1>5, <2>1, <2>3
        <4> QED
          BY <1>4, <3>1, <4>1, Zenon
             DEF Stream!Get, Stream!Answers, Stream!Idle, Stream!Open, Open, Idle, s, s2
      <3> QED
        BY <1>4, <2>2, <3>1, <3>2, CallChanges, IdleIsCall DEF PipeInv
    <2>4. ASSUME writer_count # 0, NEW err \in {"EAGAIN", "EINTR"}, Return(p, err, <<>>)
          PROVE  PipeInv' /\ Stream!Get(p, size)
      <3>1. /\ call' = [call EXCEPT ![p] = Idle]
            /\ result' = [err |-> err, data |-> <<>>]
            /\ pending' = [pending EXCEPT ![p] = FALSE]
        BY <2>4, Zenon DEF Return
      <3>2. Stream!Get(p, size)
        BY <1>4, <1>5, <2>1, <2>4, <3>1
           DEF Stream!Get, Stream!Answers, Stream!Idle, Stream!Open, Open, Idle
      <3> QED
        BY <1>4, <2>2, <3>1, <3>2, CallChanges, IdleIsCall DEF PipeInv
    <2>5. CASE writer_count # 0 /\ Yield(p, [op |-> "read", size |-> size])
      <3> DEFINE c == [op |-> "read", size |-> size]
      <3>1. call' = [call EXCEPT ![p] = c] /\ UNCHANGED <<result, pending>>
        BY <2>5, Zenon DEF Yield
      <3>2. Stream!Get(p, size)
        BY <1>4, <1>5, <2>1, <2>5, <3>1 DEF Stream!Get, Stream!Open, Open
      <3>3. c \in Calls /\ c.op = "read"
        BY Zenon DEF Calls
      <3> HIDE DEF c
      <3> QED
        BY <1>4, <2>2, <3>1, <3>2, <3>3, CallChanges DEF PipeInv
    <2> QED
      BY <1>7, <2>3, <2>4, <2>5
  <1> QED
    BY <1>6, <1>7, Zenon DEF pipe_read

LEMMA WriteStep ==
    ASSUME PipeInv, NEW p \in Procs, NEW todo \in Seq(Data), todo # <<>>,
           NEW done \in Seq(Data), NEW blocking \in BOOLEAN, "w" \in holds[p],
           pipe_write(p, todo, done, blocking)
    PROVE  PipeInv' /\ Stream!Put(p, todo, done)
  <1> DEFINE s == Contents(read_head, write_head, buffer)
             s2 == Contents(read_head', write_head', buffer')
             len == Held(read_head, write_head)
  <1>1. read_head \in Slots /\ write_head \in Slots /\ buffer \in [Slots -> Data]
    BY Zenon DEF PipeInv, RingInv
  <1>2. /\ Available = PIPE_SIZE - 1 - len /\ len \in Nat /\ len <= PIPE_SIZE - 1
        /\ s \in Seq(Data) /\ Len(s) = len /\ PIPE_SIZE \in Nat /\ Len(todo) \in Nat
    <2>1. Available = PIPE_SIZE - 1 - len
      BY <1>1, HeldIsModulo, Zenon DEF Available
    <2>2. len \in Nat /\ len < PIPE_SIZE /\ s \in Seq(Data) /\ Len(s) = len
      BY <1>1, HeldIsModulo, ContentsSeq, Zenon
    <2> QED
      BY <2>1, <2>2, PipeAssumption
  <1>3. UNCHANGED <<reader_count, writer_count, nonblock, holds>>
    BY Zenon DEF pipe_write
  <1>4. Open("r") <=> reader_count # 0
    BY DEF PipeInv, EndsInv
  <1>5. CASE /\ ReadersGone(done)
             /\ Return(p, IF done = <<>> THEN "EPIPE" ELSE "OK", done)
             /\ UNCHANGED ring
    <2> DEFINE err == IF done = <<>> THEN "EPIPE" ELSE "OK"
               taken == SubSeq(todo, 1, 0)
               rest == SubSeq(todo, 0 + 1, Len(todo))
    <2>1. taken = <<>> /\ done \o taken = done /\ s \o taken = s
      <3>1. taken = <<>>
        OBVIOUS
      <3> QED
        BY <1>2, <3>1, ConcatEmptySeq, Zenon
    <2>2. s2 = s /\ RingInv'
      BY <1>1, <1>5, Zenon DEF ring, RingInv
    <2>3. /\ call' = [call EXCEPT ![p] = Idle]
          /\ result' = [err |-> err, data |-> done \o taken]
          /\ pending' = [pending EXCEPT ![p] = FALSE]
      BY <1>5, <2>1, Zenon DEF Return
    <2>4. /\ 0 \in 0 .. Len(todo) /\ ~(0 > 0) /\ Len(s) + 0 <= PIPE_SIZE - 1
          /\ ~Open("r") /\ s2 = s \o taken
          /\ err \in {"OK", "EAGAIN", "EPIPE", "EINTR"}
          /\ err = "OK" => done \o taken # <<>>
          /\ err # "EAGAIN"
          /\ err \in {"EAGAIN", "EPIPE"} => done \o taken = <<>>
      BY <1>2, <1>4, <1>5, <2>1, <2>2 DEF ReadersGone
    <2> HIDE DEF s, s2, err
    <2>5. Stream!Put(p, todo, done)
      BY <1>3, <2>3, <2>4, Zenon
         DEF Stream!Put, Stream!Answers, Stream!Idle, Stream!Open, Open, Idle, s, s2
    <2> QED
      BY <1>3, <2>2, <2>3, <2>5, CallChanges, IdleIsCall DEF PipeInv
  <1>6. CASE ~ReadersGone(done)
    <2> DEFINE n == MinOf(Len(todo), Available)
               taken == SubSeq(todo, 1, n)
               rest == SubSeq(todo, n + 1, Len(todo))
               put == done \o taken
    <2>1. /\ n \in 0 .. Len(todo) /\ n <= PIPE_SIZE - 1 - len
          /\ n < Len(todo) => n = PIPE_SIZE - 1 - len
      BY <1>2 DEF MinOf
    <2>2. /\ write_head' = (write_head + n) % PIPE_SIZE
          /\ buffer' = [i \in Slots |->
                LET k == (i - write_head + PIPE_SIZE) % PIPE_SIZE
                IN  IF k < n THEN todo[k + 1] ELSE buffer[i]]
          /\ UNCHANGED read_head
          /\ \/ rest = <<>> /\ Return(p, "OK", put)
             \/ /\ rest # <<>> /\ ~blocking
                /\ Return(p, IF put = <<>> THEN "EAGAIN" ELSE "OK", put)
             \/ rest # <<>> /\ blocking /\ pending[p] /\ Return(p, "EINTR", put)
             \/ /\ rest # <<>> /\ blocking /\ ~pending[p]
                /\ Yield(p, [op |-> "write", todo |-> rest, done |-> put, blocking |-> blocking])
      BY <1>6, Zenon DEF pipe_write
    <2> HIDE DEF n
    <2>3. write_head' = At(write_head, n)
      <3>1. n \in 0 .. PIPE_SIZE
        BY <1>2, <2>1
      <3> QED
        BY <1>1, <2>2, <3>1, AtIsModulo, Zenon
    <2>4. /\ RingInv' /\ s2 = s \o taken /\ Held(read_head, write_head') = len + n
      <3>1. /\ At(write_head, n) \in Slots /\ buffer' \in [Slots -> Data]
            /\ Held(read_head, At(write_head, n)) = len + n
            /\ Contents(read_head, At(write_head, n), buffer') = s \o taken
        <4>1. buffer' = Written(write_head, buffer, todo, n)
          BY <2>2, Zenon DEF Written
        <4>2. Appended(read_head, write_head, buffer, todo, n)
          BY <1>1, <2>1, WriteAppends, Zenon
        <4> QED
          BY <4>1, <4>2, Zenon DEF Appended
      <3> QED
        BY <1>1, <2>2, <2>3, <3>1, Zenon DEF RingInv
    <2>5. /\ taken \in Seq(Data) /\ Len(taken) = n
          /\ rest \in Seq(Data) /\ Len(rest) = Len(todo) - n
      BY <2>1, Prefix, Suffix, Zenon
    <2>6. put \in Seq(Data) /\ Len(put) = Len(done) + n
      BY <2>5, ConcatProperties, Zenon
    <2>7. Len(s2) = len + n
      BY <1>2, <2>4, <2>5, ConcatProperties
    <2>8. Open("r")
      BY <1>4, <1>6, Zenon DEF ReadersGone
    <2> HIDE DEF s, s2, taken, rest, put
    <2>9. /\ rest # <<>> => Len(s2) = PIPE_SIZE - 1
          /\ rest = <<>> => put # <<>>
      <3>1. rest # <<>> => n < Len(todo)
        BY <2>1, <2>5
      <3>2. rest = <<>> => n = Len(todo) /\ n > 0
        <4>1. Len(todo) # 0
          BY EmptySeq, Zenon
        <4> QED
          BY <1>2, <2>1, <2>5, <4>1
      <3>3. n > 0 => put # <<>>
        BY <2>1, <2>6
      <3> QED
        <4>1. n < Len(todo) => Len(s2) = PIPE_SIZE - 1
          BY <1>2, <2>1, <2>7
        <4> QED
          BY <3>1, <3>2, <3>3, <4>1, Zenon
    <2>10. Len(s) + n <= PIPE_SIZE - 1
      BY <1>2, <2>1
    <2>11. ASSUME NEW err \in {"OK", "EAGAIN", "EINTR"}, Return(p, err, put),
                  err = "OK" => put # <<>>,
                  err = "EAGAIN" => put = <<>> /\ rest # <<>>
           PROVE  PipeInv' /\ Stream!Put(p, todo, done)
      <3>1. /\ call' = [call EXCEPT ![p] = Idle]
            /\ result' = [err |-> err, data |-> put]
            /\ pending' = [pending EXCEPT ![p] = FALSE]
        BY <2>11, Zenon DEF Return
      <3>2. /\ err \in {"OK", "EAGAIN", "EPIPE", "EINTR"} /\ err # "EPIPE"
            /\ err = "EAGAIN" => Len(s2) = PIPE_SIZE - 1
            /\ err \in {"EAGAIN", "EPIPE"} => put = <<>>
        BY <2>9, <2>11, Zenon
      <3>3. Stream!Put(p, todo, done)
        BY <1>3, <2>1, <2>4, <2>8, <2>9, <2>10, <2>11, <3>1, <3>2, Zenon
           DEF Stream!Put, Stream!Answers, Stream!Idle, Stream!Open, Open, Idle,
               s, s2, taken, rest, put
      <3> QED
        BY <1>3, <2>4, <3>1, <3>3, CallChanges, IdleIsCall DEF PipeInv
    <2>12. CASE rest # <<>> /\ Yield(p, [op |-> "write", todo |-> rest, done |-> put,
                                         blocking |-> blocking])
      <3> DEFINE c == [op |-> "write", todo |-> rest, done |-> put, blocking |-> blocking]
      <3>1. call' = [call EXCEPT ![p] = c] /\ UNCHANGED <<result, pending>>
        BY <2>12, Zenon DEF Yield
      <3>2. c \in Calls /\ c.op = "write" /\ c.todo = rest
        BY <2>5, <2>6, Zenon DEF Calls, rest, put
      <3>3. Stream!Put(p, todo, done)
        BY <1>3, <2>1, <2>4, <2>8, <2>9, <2>10, <2>12, <3>1, Zenon
           DEF Stream!Put, Stream!Open, Open, s, s2, taken, rest, put
      <3> HIDE DEF c
      <3> QED
        BY <1>3, <2>4, <2>12, <3>1, <3>2, <3>3, CallChanges DEF PipeInv
    <2> QED
      BY <2>2, <2>9, <2>11, <2>12, Zenon
  <1> QED
    BY <1>5, <1>6, Zenon DEF pipe_write

----------------------------------------------------------------------------
LEMMA BuffersAreSeqs ==
    ASSUME NEW b \in Buffers
    PROVE  b \in Seq(Data)
  BY PipeAssumption DEF Buffers

\* Every step keeps the invariant and is a step of ByteStream, or none.
LEMMA EveryStep ==
    ASSUME PipeInv, [PipeNext]_pipe_vars
    PROVE  PipeInv' /\ [Stream!StreamNext]_(Stream!streamVars)
  <1> DEFINE Goal == PipeInv' /\ [Stream!StreamNext]_(Stream!streamVars)
  <1>1. ASSUME NEW p \in Procs, pipe(p)
        PROVE  Goal
    BY <1>1, PipeStep, Zenon DEF Stream!StreamNext
  <1>2. ASSUME NEW p \in Procs, exit(p)
        PROVE  Goal
    BY <1>2, ExitStep DEF Stream!StreamNext
  <1>3. ASSUME NEW p \in Procs, NEW q \in Procs, fork(p, q)
        PROVE  Goal
    BY <1>3, ForkStep, Zenon DEF Stream!StreamNext
  <1>4. ASSUME NEW p \in Procs, NEW e \in Ends, fd_close(p, e)
        PROVE  Goal
    BY <1>4, CloseStep, Zenon DEF Stream!StreamNext
  <1>5. CASE \/ \E p \in Procs : kill(p)
             \/ \E p \in Procs, e \in Ends, b \in BOOLEAN : fcntl(p, e, b)
             \/ UNCHANGED pipe_vars
    BY <1>5, QuietStep, Zenon
  <1>6. ASSUME NEW p \in Procs, NEW n \in Sizes, read(p, n)
        PROVE  Goal
    <2>1. call[p].op = "none" /\ "r" \in holds[p] /\ pipe_read(p, n)
      BY <1>6 DEF read, Idle
    <2> QED
      BY <2>1, ReadStep, Zenon DEF Stream!StreamNext
  <1>7. ASSUME NEW p \in Procs, NEW b \in Buffers, write(p, b)
        PROVE  Goal
    <2>1. call[p].op = "none" /\ "w" \in holds[p] /\ b \in Seq(Data) /\ b \in Stream!Buffers
      BY <1>7, BuffersAreSeqs DEF write, Idle, Buffers, Stream!Buffers
    <2>2. CASE b # <<>>
      <3>1. pipe_write(p, b, <<>>, nonblock["w"]) /\ nonblock["w"] \in BOOLEAN
            /\ <<>> \in Seq(Data)
        BY <1>7, <2>2 DEF write, PipeInv, Ends
      <3>2. PipeInv' /\ Stream!Put(p, b, <<>>)
        BY <2>1, <2>2, <3>1, WriteStep, Zenon
      <3> QED
        BY <2>1, <3>2, Zenon DEF Stream!StreamNext
    <2>3. CASE b = <<>>
      <3> DEFINE s == Contents(read_head, write_head, buffer)
                 taken == SubSeq(b, 1, 0)
      <3>1. /\ call' = [call EXCEPT ![p] = Idle]
            /\ result' = [err |-> "OK", data |-> <<>>]
            /\ pending' = [pending EXCEPT ![p] = FALSE]
            /\ UNCHANGED <<read_head, write_head, buffer, reader_count, writer_count,
                           nonblock, holds>>
        BY <1>7, <2>3, Zenon DEF write, pipe_write, Return, ring
      <3>2. PipeInv'
        BY <3>1, CallChanges, IdleIsCall, Zenon DEF PipeInv, RingInv
      <3>3. /\ s \in Seq(Data) /\ Len(s) + 0 <= PIPE_SIZE - 1
        <4>1. /\ s \in Seq(Data) /\ Len(s) = Held(read_head, write_head)
              /\ Held(read_head, write_head) \in Nat
              /\ Held(read_head, write_head) < PIPE_SIZE
          BY ContentsSeq, HeldIsModulo, Zenon DEF PipeInv, RingInv
        <4> QED
          BY <4>1, PipeAssumption
      <3>4. /\ 0 \in 0 .. Len(b) /\ ~(0 > 0) /\ taken = <<>>
            /\ SubSeq(b, 0 + 1, Len(b)) = <<>>
        BY <2>3
      <3>5. s \o taken = s /\ <<>> \o taken = <<>>
        BY <3>3, <3>4, ConcatEmptySeq
      <3> HIDE DEF s, taken
      <3>6. Stream!Put(p, b, <<>>)
        BY <2>3, <3>1, <3>3, <3>4, <3>5, Zenon
           DEF Stream!Put, Stream!Answers, Stream!Idle, Idle, s, taken
      <3> QED
        BY <2>1, <3>2, <3>6, Zenon DEF Stream!StreamNext
    <2> QED
      BY <2>2, <2>3, Zenon
  <1>8. ASSUME NEW p \in Procs, resume(p)
        PROVE  Goal
    <2>1. call[p] \in Calls
      BY Zenon DEF PipeInv, CallsInv
    <2>2. CASE call[p].op = "read" /\ pipe_read(p, call[p].size)
      <3>1. "r" \in holds[p] /\ call[p].size \in Sizes
        BY <2>1, <2>2, CallFacts, Zenon DEF PipeInv, CallsInv
      <3> QED
        BY <2>2, <3>1, ReadStep, Zenon DEF Stream!StreamNext
    <2>3. CASE /\ call[p].op = "write"
               /\ pipe_write(p, call[p].todo, call[p].done, call[p].blocking)
      <3>1. /\ "w" \in holds[p] /\ call[p].todo # <<>> /\ call[p].todo \in Seq(Data)
            /\ call[p].done \in Seq(Data) /\ call[p].blocking \in BOOLEAN
        BY <2>1, <2>3, CallFacts, Zenon DEF PipeInv, CallsInv
      <3>2. PipeInv' /\ Stream!Put(p, call[p].todo, call[p].done)
        BY <2>3, <3>1, WriteStep, Zenon
      <3> QED
        BY <2>3, <3>1, <3>2, Zenon DEF Stream!StreamNext
    <2> QED
      BY <1>8, <2>2, <2>3, Zenon DEF resume
  <1> QED
    BY <1>1, <1>2, <1>3, <1>4, <1>5, <1>6, <1>7, <1>8, Zenon DEF PipeNext

\* The counts of the ends are right and every waiting call holds its end, for
\* every length of the ring and any number of processes.
THEOREM PipeInvariant == PipeSpec => []PipeInv
  <1>1. PipeInit => PipeInv
    BY InitHolds, Zenon
  <1>2. PipeInv /\ [PipeNext]_pipe_vars => PipeInv'
    BY EveryStep, Zenon
  <1> QED
    BY <1>1, <1>2, PTL DEF PipeSpec

\* No process is inside a call on a pipe whose own end has been given back.
THEOREM CallsHoldTheirEnds == PipeSpec => []NoCallOnClosedEnd
  <1>1. PipeInv => NoCallOnClosedEnd
    BY Zenon DEF PipeInv, EndsInv, CallsInv, NoCallOnClosedEnd, Open
  <1> QED
    BY <1>1, PipeInvariant, PTL

\* The ring of pipe.c with its two heads implements a bounded queue of bytes:
\* read, write, fork, close, exit and signals are steps of ByteStream, for every
\* length of the ring, every size of calls and any number of processes.
THEOREM PipeImplementsByteStream == PipeSpec => IsByteStream
  <1>1. PipeInit => Stream!StreamInit
    BY InitHolds, Zenon
  <1>2. PipeInv /\ [PipeNext]_pipe_vars => [Stream!StreamNext]_(Stream!streamVars)
    BY EveryStep, Zenon
  <1> QED
    BY <1>1, <1>2, PipeInvariant, PTL DEF PipeSpec, IsByteStream, Stream!ByteStreamSpec

----------------------------------------------------------------------------
(* The terminal's ring.  Byte n is in slot (n - 1) % READ_BUFFER as long   *)
(* as it is waiting, and the heads are the slots of the next byte to store *)
(* and to read, but for the moment before tty_read_head is wrapped.        *)

Slot(n) == n % READ_BUFFER

\* Multiplying keeps an order, for sizes that are not known.
LEMMA Times ==
    ASSUME NEW a \in Int, NEW b \in Int, NEW c \in Nat, a <= b
    PROVE  a * c <= b * c /\ a * c \in Int /\ b * c \in Int
OBVIOUS

\* A slot is a remainder, and the number of rounds before it a quotient.
LEMMA SlotFacts ==
    ASSUME NEW n \in Nat
    PROVE  /\ READ_BUFFER \in Nat /\ READ_BUFFER > 1
           /\ Slot(n) \in BufferSlots /\ n \div READ_BUFFER \in Nat
           /\ n = (n \div READ_BUFFER) * READ_BUFFER + Slot(n)
<1>1. READ_BUFFER \in Nat /\ READ_BUFFER > 1
  BY TtyAssumption, Zenon
<1>2. /\ n % READ_BUFFER \in 0 .. READ_BUFFER - 1 /\ n \div READ_BUFFER \in Nat
      /\ n = (n \div READ_BUFFER) * READ_BUFFER + (n % READ_BUFFER)
  BY <1>1
<1> QED
  BY <1>1, <1>2, Zenon DEF Slot, BufferSlots

\* A number has one quotient and one rest.
LEMMA OneRest ==
    ASSUME NEW q \in Int, NEW r \in BufferSlots, NEW t \in Int, NEW u \in BufferSlots,
           q * READ_BUFFER + r = t * READ_BUFFER + u
    PROVE  q = t /\ r = u
<1> DEFINE N == READ_BUFFER
<1>1. N \in Nat /\ N > 1 /\ r \in Int /\ u \in Int /\ 0 <= r /\ r < N /\ 0 <= u /\ u < N
  BY TtyAssumption DEF BufferSlots
<1> HIDE DEF N
<1>2. ASSUME NEW a \in Int, NEW b \in Int, NEW x \in Int, NEW y \in Int, a < b,
             0 <= y, x < N, a * N + x = b * N + y
      PROVE  FALSE
  <2>1. (a + 1) * N <= b * N
    BY <1>1, <1>2, Times
  <2>2. (a + 1) * N = a * N + N /\ a * N \in Int /\ b * N \in Int
    BY <1>1
  <2> QED
    BY <1>1, <1>2, <2>1, <2>2
<1>3. q * N + r = t * N + u
  BY Zenon DEF N
<1>4. ~(q < t) /\ ~(t < q)
  BY <1>1, <1>2, <1>3, Zenon
<1>5. q = t
  BY <1>4
<1> QED
  BY <1>1, <1>3, <1>5

\* Slots that are less than a turn apart differ.
LEMMA SlotsDiffer ==
    ASSUME NEW m \in Nat, NEW n \in Nat, m < n, n - m < READ_BUFFER
    PROVE  Slot(m) # Slot(n)
<1> SUFFICES ASSUME Slot(m) = Slot(n) PROVE FALSE
  BY Zenon
<1> DEFINE N == READ_BUFFER
           a == m \div N
           b == n \div N
           r == Slot(m)
<1>1. /\ N \in Nat /\ N > 1 /\ a \in Nat /\ b \in Nat /\ r \in Int
      /\ m = a * N + r /\ n = b * N + r
  BY SlotFacts DEF BufferSlots
<1> HIDE DEF N, a, b, r
<1>2. a * N \in Int /\ b * N \in Int /\ a * N < b * N /\ b * N - a * N < N
  BY <1>1 DEF N
<1>3. CASE b <= a
  BY <1>1, <1>2, <1>3, Times
<1>4. CASE a + 1 <= b
  <2>1. (a + 1) * N <= b * N /\ (a + 1) * N = a * N + N
    BY <1>1, <1>4, Times
  <2> QED
    BY <1>1, <1>2, <2>1
<1> QED
  BY <1>1, <1>3, <1>4

\* Going k places on from a slot.
LEMMA SlotPlus ==
    ASSUME NEW n \in Nat, NEW k \in Nat
    PROVE  (Slot(n) + k) % READ_BUFFER = Slot(n + k)
<1> DEFINE N == READ_BUFFER
           q == n \div N
           m == Slot(n) + k
           t == m \div N
           u == (n + k) \div N
<1>1. N \in Nat /\ q \in Nat /\ Slot(n) \in Nat /\ n = q * N + Slot(n)
  BY SlotFacts DEF BufferSlots
<1>2. m \in Nat
  BY <1>1
<1>3. t \in Nat /\ Slot(m) \in BufferSlots /\ m = t * N + Slot(m)
  BY <1>2, SlotFacts, Zenon
<1>4. u \in Nat /\ Slot(n + k) \in BufferSlots /\ n + k = u * N + Slot(n + k)
  BY SlotFacts
<1>5. (q + t) * N + Slot(m) = u * N + Slot(n + k)
  <2>1. (q + t) * N = q * N + t * N /\ q * N \in Int /\ t * N \in Int /\ u * N \in Int
    BY <1>1, <1>3, <1>4
  <2>2. Slot(m) \in Int /\ Slot(n + k) \in Int
    BY <1>3, <1>4, SlotFacts DEF BufferSlots
  <2>3. n + k = q * N + m
    BY <1>1
  <2> HIDE DEF m, t, q, u, N
  <2> QED
    BY <1>2, <1>3, <1>4, <2>1, <2>2, <2>3, SMTT(30)
<1>6. q + t \in Int /\ u \in Int
  BY <1>1, <1>3, <1>4
<1>7. Slot(m) = Slot(n + k)
  <2> HIDE DEF m, t, q, u
  <2> QED
    BY <1>3, <1>4, <1>5, <1>6, OneRest
<1> QED
  BY <1>7, Zenon DEF Slot

Reading == [at : {"out", "start", "loop", "wrap"}, left : Nat]

\* Without an overrun the ring holds what was stored and not read.
RingHolds ==
    /\ Len(got) <= Len(sent) /\ Len(sent) - Len(got) <= READ_BUFFER - 1
    /\ tty_write_head = Slot(Len(sent))
    /\ IF reader.at = "wrap"
       THEN Len(got) > 0 /\ tty_read_head = Slot(Len(got) - 1) + 1
       ELSE tty_read_head = Slot(Len(got))
    /\ \A n \in 1 .. Len(got) : got[n] = sent[n]
    /\ \A n \in Len(got) + 1 .. Len(sent) : read_buffer[Slot(n - 1)] = sent[n]

\* What stands behind the place where characters stop are newlines.
LineHolds ==
    /\ line_buffer \in Seq(Chars) /\ Len(line_buffer) <= LINE_BUFFER
    /\ \A i \in 1 .. Len(line_buffer) : i > LINE_BUFFER - 2 => line_buffer[i] = "nl"
    /\ trampled => Len(line_buffer) = LINE_BUFFER

\* The inductive invariant of the ring.
TtyInv ==
    /\ sent \in Seq(Chars) /\ got \in Seq(Chars) /\ line_buffer \in Seq(Chars)
    /\ read_buffer \in [BufferSlots -> Chars] /\ overrun \in BOOLEAN
    /\ reader \in Reading
    /\ tty_write_head \in BufferSlots
    /\ tty_read_head \in IF reader.at = "wrap" THEN 1 .. READ_BUFFER ELSE BufferSlots
    /\ ~overrun => RingHolds

\* The loop that stores stops after some of the n bytes.
LEMMA StoredSome ==
    ASSUME NEW n \in Nat
    PROVE  Stored(n) \in 0 .. n /\ \A j \in 0 .. Stored(n) - 1 : ~Full(j)
<1> DEFINE S == {k \in 0 .. n : k = n \/ Full(k)}
<1>1. PICK k \in S : \A m \in S : k <= m
  <2>1. S \in SUBSET Nat /\ n \in S
    OBVIOUS
  <2> HIDE DEF S
  <2> QED
    BY <2>1, LeastNat, Zenon
<1>2. \A j \in 0 .. k - 1 : ~Full(j)
  BY <1>1
<1>3. k \in 0 .. n /\ (k = n \/ Full(k))
  BY <1>1, Zenon
<1> QED
  BY <1>2, <1>3, Zenon DEF Stored

\* A turn later it is the same slot.
LEMMA SlotTurn ==
    ASSUME NEW n \in Nat
    PROVE  Slot(n + READ_BUFFER) = Slot(n)
<1> DEFINE N == READ_BUFFER
           q == n \div N
           t == (n + N) \div N
<1>1. N \in Nat /\ q \in Nat /\ Slot(n) \in BufferSlots /\ n = q * N + Slot(n)
  BY SlotFacts, Zenon
<1>2. n + N \in Nat
  BY <1>1
<1>3. t \in Nat /\ Slot(n + N) \in BufferSlots /\ n + N = t * N + Slot(n + N)
  BY <1>2, SlotFacts, Zenon
<1>4. Slot(n) \in Int /\ Slot(n + N) \in Int /\ (q + 1) * N = q * N + N /\ q * N \in Int
  BY <1>1, <1>3 DEF BufferSlots
<1> HIDE DEF N, q, t
<1>5. (q + 1) * N + Slot(n) = t * N + Slot(n + N)
  BY <1>1, <1>3, <1>4
<1>6. q + 1 \in Int /\ t \in Int
  BY <1>1, <1>3
<1> DEFINE a == Slot(n)
           b == Slot(n + N)
<1>7. a \in BufferSlots /\ b \in BufferSlots /\ (q + 1) * N + a = t * N + b
  BY <1>1, <1>3, <1>5, Zenon
<1> HIDE DEF a, b
<1>8. a = b
  BY <1>6, <1>7, OneRest DEF N
<1> QED
  BY <1>8, Zenon DEF a, b, N

\* The test for a full buffer is enough wherever tty_read is, but for the one
\* place where its head has left the buffer.
LEMMA TestIsEnough ==
    ASSUME TtyInv, RingHolds, ~Unwrapped, NEW n \in Nat
    PROVE  Pending + Stored(n) <= READ_BUFFER - 1
<1> DEFINE N == READ_BUFFER
           g == Len(got)
           w == Len(sent)
           k == Stored(n)
           j == N - 1 - (w - g)
<1>1. N \in Nat /\ N > 1 /\ BufferSlots = 0 .. N - 1 /\ g \in Nat /\ w \in Nat
  BY TtyAssumption DEF BufferSlots, TtyInv
<1>2. g <= w /\ w - g <= N - 1 /\ tty_write_head = Slot(w) /\ Pending = w - g
  BY Zenon DEF RingHolds, Pending
<1>3. k \in Nat /\ \A i \in 0 .. k - 1 : ~Full(i)
  <2>1. k \in 0 .. n /\ \A i \in 0 .. k - 1 : ~Full(i)
    BY StoredSome, Zenon
  <2> HIDE DEF k
  <2> QED
    BY <2>1
<1>4. tty_read_head = Slot(g)
  <2>1. CASE reader.at # "wrap"
    BY <2>1, Zenon DEF RingHolds
  <2>2. CASE reader.at = "wrap"
    <3>1. g > 0 /\ tty_read_head = Slot(g - 1) + 1
      BY <2>2, Zenon DEF RingHolds
    <3>2. g - 1 \in Nat /\ (g - 1) + 1 = g
      BY <1>1, <3>1
    <3>3. Slot(g - 1) \in BufferSlots /\ (Slot(g - 1) + 1) % N = Slot((g - 1) + 1)
      BY <3>2, SlotFacts, SlotPlus
    <3>4. tty_read_head \in 0 .. N - 1
      BY <1>1, <3>1, <3>3 DEF Unwrapped
    <3>5. tty_read_head % N = tty_read_head
      BY <1>1, <3>4
    <3> QED
      BY <3>1, <3>2, <3>3, <3>5, Zenon
  <2> QED
    BY <2>1, <2>2, Zenon
<1> SUFFICES ASSUME ~(w - g + k <= N - 1) PROVE FALSE
  BY <1>2, Zenon
<1> HIDE DEF k
<1>5. j \in 0 .. k - 1 /\ j + 1 \in Nat /\ w + (j + 1) = g + N
  BY <1>1, <1>2, <1>3
<1>6. (Slot(w) + (j + 1)) % N = Slot(g)
  <2>1. (Slot(w) + (j + 1)) % N = Slot(w + (j + 1))
    BY <1>1, <1>5, SlotPlus, Zenon
  <2>2. Slot(g + N) = Slot(g)
    BY <1>1, SlotTurn, Zenon
  <2> QED
    BY <1>5, <2>1, <2>2, Zenon
<1>7. tty_write_head + j + 1 = Slot(w) + (j + 1)
  <2>1. Slot(w) \in BufferSlots
    BY <1>1, SlotFacts, Zenon
  <2> HIDE DEF j
  <2> QED
    BY <1>1, <1>2, <1>5, <2>1
<1>8. Full(j)
  BY <1>4, <1>6, <1>7, Zenon DEF Full
<1> QED
  BY <1>3, <1>5, <1>8, Zenon

\* Storing what the loop stores keeps the ring, unless it overran.
LEMMA StoreKeeps ==
    ASSUME TtyInv, NEW s \in Seq(Chars), NEW k \in 0 .. Len(s), Store(s, k),
           k = Stored(Len(s)),
           UNCHANGED <<reader, got>>, line_buffer' \in Seq(Chars)
    PROVE  TtyInv'
<1> DEFINE N == READ_BUFFER
           js(x) == {j \in 1 .. k : (tty_write_head + j - 1) % N = x}
<1>1. N \in Nat /\ N > 1 /\ BufferSlots = 0 .. N - 1 /\ Len(s) \in Nat /\ k \in Nat
  BY TtyAssumption DEF BufferSlots
<1>2. /\ read_buffer' = [x \in BufferSlots |->
            IF js(x) = {} THEN read_buffer[x]
            ELSE s[CHOOSE j \in js(x) : \A i \in js(x) : i <= j]]
      /\ tty_write_head' = (tty_write_head + k) % N
      /\ sent' = sent \o SubSeq(s, 1, k)
      /\ overrun' = (overrun \/ (Unwrapped /\ Pending + k > N - 1))
      /\ tty_read_head' = tty_read_head
  BY Zenon DEF Store
<1>3. /\ SubSeq(s, 1, k) \in Seq(Chars) /\ Len(SubSeq(s, 1, k)) = k
      /\ \A j \in 1 .. k : SubSeq(s, 1, k)[j] = s[j]
  BY <1>1, SubSeqProperties
<1>4. /\ sent' \in Seq(Chars) /\ Len(sent') = Len(sent) + k /\ Len(sent) \in Nat
      /\ \A n \in 1 .. Len(sent) : sent'[n] = sent[n]
      /\ \A j \in 1 .. k : sent'[Len(sent) + j] = s[j]
  BY <1>2, <1>3, ConcatProperties, SMTT(30) DEF TtyInv
<1>5. read_buffer' \in [BufferSlots -> Chars]
  <2> SUFFICES ASSUME NEW x \in BufferSlots, js(x) # {}
               PROVE  s[CHOOSE j \in js(x) : \A i \in js(x) : i <= j] \in Chars
    BY <1>2, Zenon DEF TtyInv
  <2>1. \E j \in js(x) : \A i \in js(x) : i <= j
    <3>1. js(x) \in SUBSET (0 .. k)
      BY <1>1
    <3> HIDE DEF js
    <3> QED
      BY <1>1, <3>1, GreatestNat, Zenon
  <2>2. (CHOOSE j \in js(x) : \A i \in js(x) : i <= j) \in 1 .. Len(s)
    <3>1. js(x) \subseteq 1 .. Len(s)
      BY <1>1
    <3> HIDE DEF js
    <3> QED
      BY <2>1, <3>1, Zenon
  <2> QED
    BY <2>2, ElementOfSeq, Zenon
<1>6. tty_write_head' \in BufferSlots /\ overrun' \in BOOLEAN
  <2>1. tty_write_head \in Nat
    BY <1>1 DEF TtyInv
  <2>2. overrun' \in BOOLEAN
    BY <1>2, Zenon DEF TtyInv
  <2>3. (tty_write_head + k) % N \in BufferSlots
    BY <1>1, <2>1
  <2> QED
    BY <1>2, <2>2, <2>3, Zenon
<1>7. ASSUME ~overrun'
      PROVE  RingHolds'
  <2>1. RingHolds /\ Pending + k <= N - 1
    <3>1. ~overrun /\ ~(Unwrapped /\ Pending + k > N - 1)
      BY <1>2, <1>7, Zenon
    <3>2. Pending \in Int
      BY DEF Pending, TtyInv
    <3>3. RingHolds
      BY <3>1, Zenon DEF TtyInv
    <3>4. CASE Unwrapped
      BY <1>1, <3>1, <3>2, <3>3, <3>4
    <3>5. CASE ~Unwrapped
      BY <1>1, <3>3, <3>5, TestIsEnough, Zenon
    <3> QED
      BY <3>4, <3>5, Zenon
  <2> DEFINE g == Len(got)
             w == Len(sent)
  <2>2. g \in Nat /\ w \in Nat /\ g <= w /\ w - g + k <= N - 1 /\ tty_write_head = Slot(w)
    BY <1>1, <2>1, SMTT(30) DEF TtyInv, RingHolds, Pending
  <2>3. ASSUME NEW j \in 1 .. k
        PROVE  (tty_write_head + j - 1) % N = Slot(w + j - 1)
    <3>1. j - 1 \in Nat /\ w + (j - 1) = w + j - 1
      BY <1>1, <2>2
    <3>2. (Slot(w) + (j - 1)) % N = Slot(w + (j - 1))
      BY <2>2, <3>1, SlotPlus, Zenon
    <3>3. Slot(w) \in Int /\ Slot(w) + (j - 1) = Slot(w) + j - 1
      BY <2>2, <3>1, SlotFacts DEF BufferSlots
    <3> QED
      BY <2>2, <3>1, <3>2, <3>3, Zenon
  <2>4. tty_write_head' = Slot(Len(sent'))
    BY <1>1, <1>2, <1>4, <2>2, SlotPlus, Zenon
  <2>5. ASSUME NEW n \in g + 1 .. w + k
        PROVE  read_buffer'[Slot(n - 1)] = sent'[n]
    <3> DEFINE x == Slot(n - 1)
    <3>0. n - 1 \in Nat
      BY <1>1, <2>2
    <3>1. n - 1 \in Nat /\ x \in BufferSlots
      BY <3>0, SlotFacts, Zenon
    <3>2. ASSUME NEW j \in js(x)
          PROVE  n = w + j
      <4>1. j \in 1 .. k /\ Slot(w + j - 1) = Slot(n - 1) /\ w + j - 1 \in Nat
        BY <1>1, <2>2, <2>3, SMTT(30)
      <4>2. ~(w + j - 1 < n - 1)
        BY <1>1, <2>2, <3>1, <4>1, SlotsDiffer, SMTT(30)
      <4>3. ~(n - 1 < w + j - 1)
        BY <1>1, <2>2, <3>1, <4>1, SlotsDiffer, SMTT(30)
      <4> QED
        BY <1>1, <2>2, <4>1, <4>2, <4>3, SMTT(30)
    <3>3. CASE n <= w
      <4>1. js(x) = {}
        BY <1>1, <2>2, <3>2, <3>3, SMTT(30)
      <4>2. read_buffer'[x] = read_buffer[x]
        BY <1>2, <3>1, <4>1, Zenon
      <4>3. n \in 1 .. w /\ n \in Len(got) + 1 .. Len(sent)
        BY <2>2, <3>3
      <4> QED
        BY <1>4, <2>1, <4>2, <4>3, SMTT(30) DEF RingHolds
    <3>4. CASE n > w
      <4> DEFINE j == n - w
      <4>1. j \in 1 .. k /\ n = w + j /\ w + j - 1 = n - 1
        BY <1>1, <2>2, <3>4
      <4>2. j \in js(x)
        BY <2>3, <4>1, Zenon
      <4>3. js(x) = {j}
        <5>1. ASSUME NEW i \in js(x) PROVE i = j
          <6>1. n = w + i /\ i \in Int
            BY <1>1, <3>2
          <6> QED
            BY <2>2, <4>1, <6>1
        <5> HIDE DEF js
        <5> QED
          BY <4>2, <5>1, Zenon
      <4>4. (CHOOSE l \in js(x) : \A i \in js(x) : i <= l) = j
        <5> HIDE DEF js
        <5>1. \A l : l \in js(x) => l = j
          BY <4>3, Zenon
        <5>2. j <= j
          BY <4>1
        <5> HIDE DEF j
        <5> QED
          BY <4>3, <5>2, Zenon
      <4>5. read_buffer'[x] = s[j]
        BY <1>2, <3>1, <4>2, <4>4, Zenon
      <4> QED
        BY <1>4, <4>1, <4>5, Zenon
    <3> QED
      BY <1>1, <2>2, <3>3, <3>4
  <2>6. g <= w + k /\ w + k - g <= N - 1
    BY <1>1, <2>2
  <2>7. \A n \in 1 .. g : got[n] = sent'[n]
    <3>1. \A n \in 1 .. g : got[n] = sent[n]
      BY <2>1, Zenon DEF RingHolds
    <3>2. \A n \in 1 .. w : sent'[n] = sent[n]
      BY <1>4, Zenon
    <3>3. \A n \in 1 .. g : n \in 1 .. w
      BY <2>2
    <3> QED
      BY <3>1, <3>2, <3>3, Zenon
  <2>8. Len(sent') = w + k /\ got' = got /\ reader' = reader
    BY <1>4, Zenon
  <2>9. IF reader.at = "wrap"
        THEN Len(got) > 0 /\ tty_read_head = Slot(Len(got) - 1) + 1
        ELSE tty_read_head = Slot(Len(got))
    BY <2>1, Zenon DEF RingHolds
  <2>10. (Slot(Len(got) - 1) + 1)' = Slot(Len(got) - 1) + 1 /\ Slot(Len(got))' = Slot(Len(got))
    BY <2>8, Zenon DEF Slot
  <2> HIDE DEF g, w
  <2>11. /\ Len(got) <= Len(sent') /\ Len(sent') - Len(got) <= READ_BUFFER - 1
         /\ \A n \in 1 .. Len(got) : got[n] = sent'[n]
         /\ \A n \in Len(got) + 1 .. Len(sent') : read_buffer'[Slot(n - 1)] = sent'[n]
    BY <2>5, <2>6, <2>7, <2>8 DEF g, w
  <2> QED
    BY <1>2, <2>4, <2>8, <2>9, <2>10, <2>11, Zenon DEF RingHolds, Slot
<1> QED
  BY <1>2, <1>4, <1>5, <1>6, <1>7, Zenon DEF TtyInv

\* A step that leaves the ring and the reader's place in it alone.
LEMMA RingRests ==
    ASSUME TtyInv, UNCHANGED <<tty_ring, got>>, line_buffer' \in Seq(Chars),
           reader' \in Reading, reader.at = "wrap" <=> reader'.at = "wrap"
    PROVE  TtyInv'
<1>1. UNCHANGED <<read_buffer, tty_read_head, tty_write_head, sent, overrun, got>>
  BY Zenon DEF tty_ring
<1> QED
  BY <1>1, Zenon DEF TtyInv, RingHolds, Slot

\* An arriving byte, whatever it is and in whichever mode the terminal is.
LEMMA CharStep ==
    ASSUME TtyInv, NEW b \in Chars, tty_char_recv(b)
    PROVE  TtyInv'
<1> DEFINE c == IF b = "cr" THEN "nl" ELSE b
<1>1. c \in Chars /\ UNCHANGED <<reader, got>>
  BY Zenon DEF Chars, tty_char_recv
<1>2. /\ line_buffer \in Seq(Chars) /\ Append(line_buffer, c) \in Seq(Chars)
      /\ <<c>> \in Seq(Chars) /\ Len(<<c>>) = 1 /\ <<>> \in Seq(Chars)
      /\ reader' \in Reading /\ (reader.at = "wrap" <=> reader'.at = "wrap")
  BY <1>1 DEF TtyInv
<1>3. SubSeq(line_buffer, 1, Len(line_buffer) - 1) \in Seq(Chars)
  <2>1. CASE Len(line_buffer) = 0
    <3>1. line_buffer = <<>>
      BY <1>2, <2>1
    <3>2. SubSeq(line_buffer, 1, Len(line_buffer) - 1) = <<>>
      BY <3>1
    <3> QED
      BY <1>2, <3>2, Zenon
  <2>2. CASE Len(line_buffer) > 0
    BY <1>2, <2>2, SubSeqProperties
  <2> QED
    BY <1>2, <2>1, <2>2
<1>4. ASSUME NEW s \in Seq(Chars), NEW e, Deliver(s, e)
      PROVE  TtyInv'
  <2>1. Stored(Len(s)) \in 0 .. Len(s)
    BY StoredSome
  <2>2. Store(s, Stored(Len(s))) /\ line_buffer' \in Seq(Chars)
    BY <1>2, <1>4, Zenon DEF Deliver
  <2> QED
    BY <1>1, <2>1, <2>2, StoreKeeps, Zenon
<1>5. CASE line_buffer' = SubSeq(line_buffer, 1, Len(line_buffer) - 1) /\ UNCHANGED tty_ring
  BY <1>1, <1>2, <1>3, <1>5, RingRests, Zenon
<1>6. CASE UNCHANGED <<tty_ring, line_buffer>>
  BY <1>1, <1>2, <1>6, RingRests, Zenon
<1>7. CASE line_buffer' = Append(line_buffer, c) /\ UNCHANGED tty_ring
  BY <1>1, <1>2, <1>7, RingRests
<1>8. CASE Store(<<c>>, Stored(1)) /\ UNCHANGED line_buffer
  <2>1. Stored(1) \in 0 .. Len(<<c>>) /\ Stored(1) = Stored(Len(<<c>>))
    BY <1>2, StoredSome, Zenon
  <2> HIDE DEF c
  <2> QED
    BY <1>1, <1>2, <1>8, <2>1, StoreKeeps
<1>9. \/ UNCHANGED <<tty_ring, line_buffer>>
      \/ Deliver(line_buffer, line_buffer = <<>>)
      \/ line_buffer' = SubSeq(line_buffer, 1, Len(line_buffer) - 1) /\ UNCHANGED tty_ring
      \/ Deliver(Append(line_buffer, c), FALSE)
      \/ line_buffer' = Append(line_buffer, c) /\ UNCHANGED tty_ring
      \/ Store(<<c>>, Stored(1)) /\ UNCHANGED line_buffer
  BY Zenon DEF tty_char_recv
<1> QED
  BY <1>2, <1>4, <1>5, <1>6, <1>7, <1>8, <1>9

\* tty_read takes the byte at its head ...
LEMMA ReadByteStep ==
    ASSUME TtyInv, tty_read_byte
    PROVE  TtyInv'
<1> DEFINE N == READ_BUFFER
           g == Len(got)
           w == Len(sent)
<1>1. N \in Nat /\ N > 1 /\ BufferSlots = 0 .. N - 1
  BY TtyAssumption, Zenon DEF BufferSlots
<1>2. /\ reader.at = "loop" /\ reader.left > 0 /\ tty_read_head # tty_write_head
      /\ got' = Append(got, read_buffer[tty_read_head])
      /\ tty_read_head' = tty_read_head + 1
      /\ reader' = [at |-> "wrap", left |-> reader.left - 1]
      /\ UNCHANGED <<read_buffer, tty_write_head, sent, overrun, line_buffer>>
  BY Zenon DEF tty_read_byte, Empty
<1>3. reader' \in Reading /\ reader'.at = "wrap"
  BY <1>2 DEF TtyInv, Reading
<1>4. tty_read_head \in BufferSlots /\ tty_read_head' \in 1 .. N
  BY <1>1, <1>2 DEF TtyInv
<1>5. /\ got' \in Seq(Chars) /\ Len(got') = g + 1 /\ g \in Nat /\ w \in Nat
      /\ \A n \in 1 .. g : got'[n] = got[n]
      /\ got'[g + 1] = read_buffer[tty_read_head]
  <2>1. read_buffer[tty_read_head] \in Chars
    BY <1>4, Zenon DEF TtyInv
  <2> QED
    BY <1>2, <2>1, AppendProperties DEF TtyInv
<1>6. ASSUME ~overrun
      PROVE  RingHolds'
  <2>1. /\ g <= w /\ w - g <= N - 1 /\ tty_write_head = Slot(w) /\ tty_read_head = Slot(g)
        /\ \A n \in 1 .. g : got[n] = sent[n]
        /\ \A n \in g + 1 .. w : read_buffer[Slot(n - 1)] = sent[n]
    BY <1>2, <1>6, Zenon DEF TtyInv, RingHolds
  <2>2. g < w
    BY <1>2, <1>5, <2>1
  <2>3. read_buffer[Slot(g)] = sent[g + 1]
    <3>1. g + 1 \in g + 1 .. w /\ (g + 1) - 1 = g
      BY <1>5, <2>2
    <3> QED
      BY <2>1, <3>1, Zenon
  <2>4. \A n \in 1 .. g + 1 : got'[n] = sent[n]
    BY <1>5, <2>1, <2>3
  <2>5. \A n \in (g + 1) + 1 .. w : read_buffer[Slot(n - 1)] = sent[n]
    BY <1>5, <2>1
  <2>6. g + 1 <= w /\ w - (g + 1) <= N - 1 /\ (g + 1) - 1 = g /\ g + 1 > 0
    BY <1>1, <1>5, <2>1, <2>2
  <2> HIDE DEF g
  <2> QED
    BY <1>2, <1>3, <1>5, <2>1, <2>4, <2>5, <2>6 DEF RingHolds, Slot
<1> QED
  BY <1>1, <1>2, <1>3, <1>4, <1>5, <1>6 DEF TtyInv

\* ... and wraps it.
LEMMA ReadWrapStep ==
    ASSUME TtyInv, tty_read_wrap
    PROVE  TtyInv'
<1> DEFINE N == READ_BUFFER
           g == Len(got)
<1>1. N \in Nat /\ N > 1 /\ BufferSlots = 0 .. N - 1 /\ g \in Nat
  BY TtyAssumption DEF BufferSlots, TtyInv
<1>2. /\ reader.at = "wrap" /\ tty_read_head' = tty_read_head % N
      /\ reader' = [reader EXCEPT !.at = "loop"]
      /\ UNCHANGED <<read_buffer, tty_write_head, sent, overrun, line_buffer, got>>
  BY Zenon DEF tty_read_wrap
<1>3. reader' \in Reading /\ reader'.at = "loop"
  BY <1>2, Zenon DEF TtyInv, Reading
<1>4. tty_read_head' \in BufferSlots
  BY <1>1, <1>2 DEF TtyInv
<1>5. ASSUME ~overrun
      PROVE  RingHolds'
  <2>1. RingHolds /\ g > 0 /\ tty_read_head = Slot(g - 1) + 1
    BY <1>2, <1>5, Zenon DEF TtyInv, RingHolds
  <2>2. tty_read_head' = Slot(g)
    <3>1. g - 1 \in Nat /\ (g - 1) + 1 = g
      BY <1>1, <2>1
    <3>2. (Slot(g - 1) + 1) % N = Slot((g - 1) + 1)
      BY <3>1, SlotPlus, Zenon
    <3> QED
      BY <1>2, <2>1, <3>1, <3>2, Zenon
  <2> QED
    BY <1>2, <1>3, <2>1, <2>2, Zenon DEF RingHolds, Slot
<1> QED
  BY <1>2, <1>3, <1>4, <1>5, Zenon DEF TtyInv

\* No step of the interrupt or of a reader breaks the invariant.
LEMMA TtyStep == TtyInv /\ [TtyNext]_tty_vars => TtyInv'
<1> SUFFICES ASSUME TtyInv, [TtyNext]_tty_vars PROVE TtyInv'
  BY Zenon
<1>1. CASE \E c \in Chars : tty_char_recv(c)
  BY <1>1, CharStep, Zenon
<1>2. line_buffer \in Seq(Chars) /\ reader \in Reading
  BY Zenon DEF TtyInv
<1>3. CASE tty_ioctl \/ UNCHANGED tty_vars
  <2>1. UNCHANGED <<tty_ring, got, line_buffer, reader>>
    BY <1>3, Zenon DEF tty_ioctl, tty_vars
  <2> QED
    BY <1>2, <2>1, RingRests, Zenon
<1>4. CASE \E len \in 1 .. 2 : fd_read(len)
  <2>1. PICK len \in 1 .. 2 : reader = Out /\ reader' = [at |-> "start", left |-> len]
    BY <1>4, Zenon DEF fd_read
  <2>2. reader.at # "wrap" /\ reader'.at # "wrap" /\ reader' \in Reading
    BY <2>1 DEF Out, Reading
  <2>3. UNCHANGED <<tty_ring, got, line_buffer>>
    BY <1>4, Zenon DEF fd_read
  <2> QED
    BY <1>2, <2>2, <2>3, RingRests
<1>5. CASE tty_read_eof \/ tty_read_some \/ tty_read_return
  <2>1. UNCHANGED <<tty_ring, got, line_buffer>>
    BY <1>5, Zenon DEF tty_read_eof, tty_read_some, tty_read_return
  <2>2. reader.at # "wrap" /\ (reader' = Out \/ reader' = [reader EXCEPT !.at = "loop"])
    BY <1>5, Zenon DEF tty_read_eof, tty_read_some, tty_read_return
  <2>3. reader'.at # "wrap" /\ reader' \in Reading
    BY <1>2, <2>2 DEF Out, Reading
  <2> QED
    BY <1>2, <2>1, <2>2, <2>3, RingRests
<1>6. CASE tty_read_byte
  BY <1>6, ReadByteStep, Zenon
<1>7. CASE tty_read_wrap
  BY <1>7, ReadWrapStep
<1> QED
  BY <1>1, <1>3, <1>4, <1>5, <1>6, <1>7 DEF TtyNext, tty_read

\* Nor does one bring a character to where only newlines go.
LEMMA LineStep == LineHolds /\ [TtyNext]_tty_vars => LineHolds'
<1> SUFFICES ASSUME LineHolds, [TtyNext]_tty_vars PROVE LineHolds'
  BY Zenon
<1>1. /\ line_buffer \in Seq(Chars) /\ Len(line_buffer) \in Nat
      /\ LINE_BUFFER \in Nat /\ LINE_BUFFER > 2
  BY TtyAssumption DEF LineHolds
<1>2. CASE line_buffer' = line_buffer /\ (trampled' => trampled \/ Len(line_buffer) = LINE_BUFFER)
  BY <1>2, Zenon DEF LineHolds
<1>3. CASE line_buffer' = <<>> /\ ~trampled'
  BY <1>1, <1>3 DEF LineHolds
<1>4. CASE line_buffer' = SubSeq(line_buffer, 1, Len(line_buffer) - 1) /\ ~trampled'
  <2>1. CASE Len(line_buffer) = 0
    <3>1. line_buffer' = <<>>
      BY <1>1, <1>4, <2>1
    <3> QED
      BY <1>3, <1>4, <3>1, Zenon
  <2>2. CASE Len(line_buffer) > 0
    <3>1. /\ line_buffer' \in Seq(Chars) /\ Len(line_buffer') = Len(line_buffer) - 1
          /\ \A i \in 1 .. Len(line_buffer) - 1 : line_buffer'[i] = line_buffer[i]
      <4>1. PICK n : n = Len(line_buffer) - 1
        BY Zenon
      <4>2. n \in Nat /\ n <= Len(line_buffer) /\ 1 \in 1 .. Len(line_buffer) + 1
        BY <1>1, <2>2, <4>1
      <4>3. /\ SubSeq(line_buffer, 1, n) \in Seq(Chars) /\ Len(SubSeq(line_buffer, 1, n)) = n
            /\ \A i \in 1 .. n : SubSeq(line_buffer, 1, n)[i] = line_buffer[i]
        BY <1>1, <4>2, SubSeqProperties
      <4> QED
        BY <1>4, <4>1, <4>3, Zenon
    <3> QED
      BY <1>1, <1>4, <3>1 DEF LineHolds
  <2> QED
    BY <1>1, <2>1, <2>2
<1>5. ASSUME NEW c \in Chars, line_buffer' = Append(line_buffer, c), ~trampled',
             \/ c = "nl" /\ Len(line_buffer) < LINE_BUFFER
             \/ Len(line_buffer) < LINE_BUFFER - 2
      PROVE  LineHolds'
  <2>1. /\ line_buffer' \in Seq(Chars) /\ Len(line_buffer') = Len(line_buffer) + 1
        /\ \A i \in 1 .. Len(line_buffer) : line_buffer'[i] = line_buffer[i]
        /\ line_buffer'[Len(line_buffer) + 1] = c
    BY <1>1, <1>5, AppendProperties
  <2> QED
    BY <1>1, <1>5, <2>1 DEF LineHolds
<1>6. ASSUME NEW b \in Chars, tty_char_recv(b)
      PROVE  LineHolds'
  <2> DEFINE c == IF b = "cr" THEN "nl" ELSE b
  <2>1. /\ c \in Chars
        /\ trampled' = (canonical /\ c = "nl" /\ Len(line_buffer) = LINE_BUFFER)
    BY <1>6, Zenon DEF Chars, tty_char_recv
  <2>2. \/ UNCHANGED line_buffer
        \/ c # "nl" /\ Deliver(line_buffer, line_buffer = <<>>)
        \/ c # "nl" /\ line_buffer' = SubSeq(line_buffer, 1, Len(line_buffer) - 1)
        \/ c = "nl" /\ Len(line_buffer) < LINE_BUFFER /\ Deliver(Append(line_buffer, c), FALSE)
        \/ c # "nl" /\ Len(line_buffer) < LINE_BUFFER - 2 /\ line_buffer' = Append(line_buffer, c)
    BY <1>6 DEF tty_char_recv
  <2> HIDE DEF c
  <2>3. CASE UNCHANGED line_buffer
    BY <1>2, <2>1, <2>3, Zenon
  <2>4. CASE c # "nl" /\ Deliver(line_buffer, line_buffer = <<>>)
    BY <1>2, <1>3, <2>1, <2>4, Zenon DEF Deliver
  <2>5. CASE c # "nl" /\ line_buffer' = SubSeq(line_buffer, 1, Len(line_buffer) - 1)
    BY <1>4, <2>1, <2>5, Zenon
  <2>6. CASE c = "nl" /\ Len(line_buffer) < LINE_BUFFER /\ Deliver(Append(line_buffer, c), FALSE)
    <3>1. line_buffer' = <<>> \/ line_buffer' = Append(line_buffer, c)
      BY <2>6, Zenon DEF Deliver
    <3>2. Len(line_buffer) # LINE_BUFFER
      BY <1>1, <2>6
    <3>3. ~trampled'
      BY <2>1, <3>2, Zenon
    <3> QED
      BY <1>3, <1>5, <2>1, <2>6, <3>1, <3>3, Zenon
  <2>7. CASE c # "nl" /\ Len(line_buffer) < LINE_BUFFER - 2 /\ line_buffer' = Append(line_buffer, c)
    BY <1>5, <2>1, <2>7, Zenon
  <2> QED
    BY <2>2, <2>3, <2>4, <2>5, <2>6, <2>7, Zenon
<1>7. CASE UNCHANGED <<line_buffer, trampled>>
  BY <1>2, <1>7, Zenon
<1>8. \/ \E b \in Chars : tty_char_recv(b)
      \/ UNCHANGED <<line_buffer, trampled>>
  BY Zenon DEF TtyNext, tty_vars, tty_ioctl, fd_read, tty_read, tty_read_eof, tty_read_some,
               tty_read_byte, tty_read_wrap, tty_read_return
<1> QED
  BY <1>6, <1>7, <1>8, Zenon

\* The ring holds what is waiting, in every reachable state.
THEOREM TtyInvariant == TtySpec => []TtyInv
<1>1. TtyInit => TtyInv
  <2> SUFFICES ASSUME TtyInit PROVE TtyInv
    BY Zenon
  <2>1. READ_BUFFER \in Nat /\ READ_BUFFER > 1
    BY TtyAssumption, Zenon
  <2>2. Slot(0) = 0
    BY <2>1 DEF Slot
  <2>3. /\ sent = <<>> /\ got = <<>> /\ line_buffer = <<>> /\ overrun = FALSE
        /\ reader = Out /\ tty_read_head = 0 /\ tty_write_head = 0
        /\ read_buffer \in [BufferSlots -> Chars]
    BY Zenon DEF TtyInit, Chars
  <2>4. reader \in Reading /\ reader.at # "wrap" /\ 0 \in BufferSlots
    BY <2>1, <2>3 DEF Out, Reading, BufferSlots
  <2>5. Len(sent) = 0 /\ Len(got) = 0
    BY <2>3, Zenon
  <2>6. RingHolds
    BY <2>1, <2>2, <2>3, <2>4, <2>5 DEF RingHolds
  <2> QED
    BY <2>3, <2>4, <2>6 DEF TtyInv
<1> QED
  BY <1>1, TtyStep, PTL DEF TtySpec

\* Characters stop two places before the end of line_buffer.
THEOREM LineInvariant == TtySpec => []LineHolds
<1>1. TtyInit => LineHolds
  <2> SUFFICES ASSUME TtyInit PROVE LineHolds
    BY Zenon
  <2>1. line_buffer = <<>> /\ trampled = FALSE /\ LINE_BUFFER \in Nat
    BY TtyAssumption, Zenon DEF TtyInit
  <2> QED
    BY <2>1 DEF LineHolds
<1> QED
  BY <1>1, LineStep, PTL DEF TtySpec

\* TerminalIsFifo, for buffers of any size: the test for a full read_buffer is
\* enough at every point of tty_read but one, and the place of a waiting byte
\* does not depend on which of the two statements that move the head is next.
THEOREM TerminalsAreFifo == TtySpec => []TerminalIsFifo
<1>1. ASSUME TtyInv, LineHolds
      PROVE  TerminalIsFifo
  <2>0. trampled => \A i \in LINE_BUFFER - 1 .. LINE_BUFFER : line_buffer[i] = "nl"
    <3> SUFFICES ASSUME trampled, NEW i \in LINE_BUFFER - 1 .. LINE_BUFFER
                 PROVE  line_buffer[i] = "nl"
      BY Zenon
    <3>1. LINE_BUFFER \in Nat /\ LINE_BUFFER > 2 /\ Len(line_buffer) = LINE_BUFFER
      BY <1>1, TtyAssumption, Zenon DEF LineHolds
    <3>2. i \in 1 .. Len(line_buffer) /\ i > LINE_BUFFER - 2
      BY <3>1
    <3> QED
      BY <1>1, <3>2, Zenon DEF LineHolds
  <2> SUFFICES ASSUME ~overrun
               PROVE  /\ Pending <= READ_BUFFER - 1
                      /\ got = SubSeq(sent, 1, Len(got))
                      /\ \A i \in 1 .. Pending :
                            read_buffer[(tty_read_head + i - 1) % READ_BUFFER]
                                = sent[Len(got) + i]
    BY <2>0, Zenon DEF TerminalIsFifo
  <2> DEFINE g == Len(got)
             w == Len(sent)
  <2>1. RingHolds /\ g \in Nat /\ w \in Nat /\ sent \in Seq(Chars) /\ got \in Seq(Chars)
    <3>1. RingHolds /\ sent \in Seq(Chars) /\ got \in Seq(Chars)
      BY <1>1, Zenon DEF TtyInv
    <3> QED
      BY <3>1, LenProperties
  <2>2. g <= w /\ Pending = w - g /\ Pending <= READ_BUFFER - 1
    BY <2>1, Zenon DEF RingHolds, Pending
  <2>3. got = SubSeq(sent, 1, g)
    <3>1. /\ SubSeq(sent, 1, g) \in Seq(Chars) /\ Len(SubSeq(sent, 1, g)) = g
          /\ \A n \in 1 .. g : SubSeq(sent, 1, g)[n] = sent[n]
      BY <2>1, <2>2, SubSeqProperties
    <3>2. \A n \in 1 .. g : got[n] = SubSeq(sent, 1, g)[n]
      BY <2>1, <3>1, Zenon DEF RingHolds
    <3> QED
      BY <2>1, <3>1, <3>2, SeqEqual
  <2>4. ASSUME NEW i \in 1 .. Pending
        PROVE  read_buffer[(tty_read_head + i - 1) % READ_BUFFER] = sent[g + i]
    <3>1. /\ i - 1 \in Nat /\ i \in Nat /\ g + i \in g + 1 .. w
          /\ g + (i - 1) = (g + i) - 1 /\ (g - 1) + i = (g + i) - 1
      BY <2>1, <2>2
    <3>2. (tty_read_head + i - 1) % READ_BUFFER = Slot((g + i) - 1)
      <4>1. CASE reader.at = "wrap"
        <5>0. g > 0 /\ g - 1 \in Nat /\ tty_read_head = Slot(g - 1) + 1
          BY <2>1, <4>1 DEF RingHolds
        <5>1. g - 1 \in Nat /\ tty_read_head = Slot(g - 1) + 1 /\ Slot(g - 1) \in Int
          BY <5>0, SlotFacts DEF BufferSlots
        <5>2. tty_read_head + i - 1 = Slot(g - 1) + i
          BY <3>1, <5>1
        <5>3. (Slot(g - 1) + i) % READ_BUFFER = Slot((g - 1) + i)
          BY <3>1, <5>1, SlotPlus, Zenon
        <5> QED
          BY <3>1, <5>2, <5>3, Zenon
      <4>2. CASE reader.at # "wrap"
        <5>1. tty_read_head = Slot(g) /\ Slot(g) \in Int
          BY <2>1, <4>2, SlotFacts DEF RingHolds, BufferSlots
        <5>2. tty_read_head + i - 1 = Slot(g) + (i - 1)
          BY <3>1, <5>1, Zenon
        <5>3. (Slot(g) + (i - 1)) % READ_BUFFER = Slot(g + (i - 1))
          BY <2>1, <3>1, SlotPlus, Zenon
        <5> QED
          BY <3>1, <5>2, <5>3, Zenon
      <4> QED
        BY <4>1, <4>2, Zenon
    <3> QED
      BY <2>1, <3>1, <3>2, Zenon DEF RingHolds
  <2> QED
    BY <2>2, <2>3, <2>4, Zenon
<1> QED
  BY <1>1, TtyInvariant, LineInvariant, PTL
=============================================================================
