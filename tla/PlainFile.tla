----------------------------- MODULE PlainFile -----------------------------
(***************************************************************************)
(* What a program may rely on when it reads and writes a file through a    *)
(* stream: one sequence of bytes, one position, characters pushed back in  *)
(* front of it, and no sign of a buffer.  A seek to before the start fails *)
(* and leaves no position.  told is what the last call said.               *)
(***************************************************************************)
EXTENDS Integers, Sequences, SequencesExt

VARIABLES bytes, position, pushed, told

file_vars == <<bytes, position, pushed, told>>

Nowhere == -1

AtLeastZero(n) == IF n < 0 THEN 0 ELSE n

\* The bytes d put at a position not behind the end.
Overlaid(f, at, d) ==
    [i \in 1 .. Len(f) + AtLeastZero(at + Len(d) - Len(f)) |->
        IF i \in at + 1 .. at + Len(d) THEN d[i - at] ELSE f[i]]

FileInit == bytes \in Seq(Nat) /\ position = 0 /\ pushed = <<>>

\* Closing loses nothing, and opening empties the file for "w" only.
Start ==
    /\ told'.did \in {"open", "close"}
    /\ bytes' = IF told'.data \in {<<"w">>, <<"w+">>} THEN <<>> ELSE bytes
    /\ position' = 0 /\ pushed' = <<>>

\* What is read comes from the front, and an end is told only at the end.
Get ==
    LET ahead == pushed \o SubSeq(bytes, position + 1, Len(bytes))
        d     == told'.data
    IN  /\ told'.did = "get"
        /\ pushed' = SubSeq(pushed, Len(d) + 1, Len(pushed))
        /\ IF position = Nowhere THEN position' = Nowhere
           ELSE /\ IsPrefix(d, ahead)
                /\ told'.end = "eof" => d = ahead
                /\ position' = position + AtLeastZero(Len(d) - Len(pushed))
        /\ UNCHANGED bytes

\* A call that fails has taken some of the bytes; one that succeeds, all of them.
Put ==
    /\ told'.did = "put"
    /\ \E k \in 0 .. Len(told'.data) :
          /\ told'.end = "ok" => k = Len(told'.data)
          /\ k > 0 => pushed = <<>>
          /\ bytes' = Overlaid(bytes, position, SubSeq(told'.data, 1, k))
          /\ position' = position + k
    /\ UNCHANGED pushed

Unget ==
    /\ told'.did = "unget"
    /\ pushed' = IF told'.end = "ok" THEN told'.data \o pushed ELSE pushed
    /\ UNCHANGED <<bytes, position>>

\* Relative to the position a program is told, which counts what is pushed back.
Seek ==
    /\ told'.did = "seek"
    /\ LET base == CASE told'.data[1] = "set" -> 0
                     [] told'.data[1] = "cur" -> position - Len(pushed)
                     [] told'.data[1] = "end" -> Len(bytes)
           lost == told'.data[1] = "cur" /\ position = Nowhere
           to   == base + told'.data[2]
       IN  \/ /\ told'.end = "ok" /\ pushed' = <<>>
              /\ position' # Nowhere /\ (lost \/ position' = to)
           \/ /\ told'.end = "error" /\ UNCHANGED pushed
              /\ UNCHANGED position \/ (position' = Nowhere /\ (lost \/ to < 0))
    /\ UNCHANGED bytes

\* Flushing and the rest change nothing a reader of the file could see.
Other == told'.did = "other" /\ UNCHANGED <<bytes, position, pushed>>

FileSpec == FileInit /\ [][Start \/ Get \/ Put \/ Unget \/ Seek \/ Other]_file_vars
=============================================================================
