-------------------------------- MODULE Tty --------------------------------
(***************************************************************************)
(* The line discipline of a terminal (drivers/tty.c): characters arrive    *)
(* from the keyboard's or the serial port's interrupt, a process reads     *)
(* with interrupts enabled.  What is echoed is left out.                   *)
(***************************************************************************)
EXTENDS Integers, Sequences

CONSTANTS
    READ_BUFFER,   \* 4096: the size of read_buffer
    LINE_BUFFER,   \* 1024: the size of line_buffer
    Raw,           \* whether TCSETS may turn ICANON off
    MaxBytes       \* bytes that enter read_buffer, a bound of the exploration

ASSUME TtyAssumption ==
    /\ {READ_BUFFER, LINE_BUFFER, MaxBytes} \subseteq Nat /\ Raw \in BOOLEAN
    /\ READ_BUFFER > 1 /\ LINE_BUFFER > 2 /\ MaxBytes > 0

Chars == {"a", "nl", "cr", "del", "eot", "intr"}
BufferSlots == 0 .. READ_BUFFER - 1

VARIABLES
    canonical,                              \* c_lflag & ICANON
    read_buffer, tty_read_head, tty_write_head,
    line_buffer, eof,
    reader,      \* the read call: where it is, and how many bytes it still wants
    sent, got,   \* history: bytes stored into and read from read_buffer
    overrun,     \* history: a byte went into a full read_buffer, unseen
    trampled     \* history: a newline was stored behind line_buffer

tty_ring == <<read_buffer, tty_read_head, tty_write_head, sent, overrun>>
tty_vars == <<canonical, tty_ring, line_buffer, eof, reader, got, trampled>>

Out == [at |-> "out", left |-> 0]

TtyInit ==
    /\ canonical = TRUE /\ eof = FALSE
    /\ read_buffer = [x \in BufferSlots |-> "a"] /\ tty_read_head = 0 /\ tty_write_head = 0
    /\ line_buffer = <<>> /\ reader = Out
    /\ sent = <<>> /\ got = <<>> /\ overrun = FALSE /\ trampled = FALSE

Pending == Len(sent) - Len(got)

\* The test for a full buffer, j bytes further on.
Full(j) == (tty_write_head + j + 1) % READ_BUFFER = tty_read_head

\* Of n bytes, how many are stored before the test stops the loop.
Stored(n) == CHOOSE k \in 0 .. n :
                /\ \A j \in 0 .. k - 1 : ~Full(j)
                /\ k = n \/ Full(k)

\* tty_read has counted its head past the end and not wrapped it yet: no value
\* of tty_write_head makes the test true.
Unwrapped == tty_read_head = READ_BUFFER

Store(s, k) ==
    /\ read_buffer' =
        [x \in BufferSlots |->
            LET js == {j \in 1 .. k : (tty_write_head + j - 1) % READ_BUFFER = x}
            IN IF js = {} THEN read_buffer[x] ELSE s[CHOOSE j \in js : \A i \in js : i <= j]]
    /\ tty_write_head' = (tty_write_head + k) % READ_BUFFER
    /\ sent' = sent \o SubSeq(s, 1, k)
    /\ overrun' = (overrun \/ (Unwrapped /\ Pending + k > READ_BUFFER - 1))
    /\ Len(sent) + k <= MaxBytes
    /\ UNCHANGED tty_read_head

\* The line s goes to the reader.  A full buffer stops it half way: the whole
\* of s stays in line_buffer.
Deliver(s, end) ==
    LET k == Stored(Len(s))
    IN /\ Store(s, k)
       /\ line_buffer' = IF k = Len(s) THEN <<>> ELSE s
       /\ eof' = (eof \/ (k = Len(s) /\ end))

\* tty_char_recv.  c is what is left of the byte after ISTRIP; the console has
\* ICRNL set, the shell sets ISIG: SIGINT for the foreground group is kill's.  A
\* newline is stored without a look at line_index: behind line_buffer it lands on
\* line_index itself, and the model ends there.
tty_char_recv(b) ==
    LET c == IF b = "cr" THEN "nl" ELSE b
    IN /\ UNCHANGED <<canonical, reader, got>>
       /\ trampled' = (canonical /\ c = "nl" /\ Len(line_buffer) = LINE_BUFFER)
       /\ \/ /\ c = "intr" /\ UNCHANGED <<tty_ring, line_buffer, eof>>
          \/ /\ c = "eot" /\ canonical
             /\ Deliver(line_buffer, line_buffer = <<>>)
          \/ /\ c = "del" /\ canonical
             /\ line_buffer' = SubSeq(line_buffer, 1, Len(line_buffer) - 1)
             /\ UNCHANGED <<tty_ring, eof>>
          \/ /\ c = "nl" /\ canonical
             /\ \/ /\ Len(line_buffer) < LINE_BUFFER
                   /\ Deliver(Append(line_buffer, c), FALSE)
                \/ /\ Len(line_buffer) = LINE_BUFFER
                   /\ UNCHANGED <<tty_ring, line_buffer, eof>>
          \/ /\ c = "a" /\ canonical
             /\ Len(line_buffer) < LINE_BUFFER - 2
             /\ line_buffer' = Append(line_buffer, c)
             /\ UNCHANGED <<tty_ring, eof>>
          \/ /\ c # "intr" /\ ~canonical
             /\ Store(<<c>>, Stored(1))
             /\ UNCHANGED <<line_buffer, eof>>

\* TCSETS with or without ICANON.
tty_ioctl ==
    /\ Raw
    /\ canonical' = ~canonical
    /\ UNCHANGED <<tty_ring, line_buffer, eof, reader, got, trampled>>

----------------------------------------------------------------------------
\* A process calls read for len bytes.
fd_read(len) ==
    /\ reader = Out
    /\ reader' = [at |-> "start", left |-> len]
    /\ UNCHANGED <<canonical, tty_ring, line_buffer, eof, got, trampled>>

\* Mutant: an empty buffer is -EAGAIN, and the end of the file is seen after.
tty_read_eof_late ==
    /\ reader.at = "start"
    /\ eof /\ tty_read_head # tty_write_head
    /\ eof' = FALSE /\ reader' = Out
    /\ UNCHANGED <<canonical, tty_ring, line_buffer, got, trampled>>

\* The start of tty_read at the end of file.  With nothing to read it returns
\* -EAGAIN and read tries again later.
tty_read_eof ==
    /\ reader.at = "start"
    /\ eof /\ tty_read_head = tty_write_head
    /\ eof' = FALSE /\ reader' = Out
    /\ UNCHANGED <<canonical, tty_ring, line_buffer, got, trampled>>

tty_read_some ==
    /\ reader.at = "start" /\ tty_read_head # tty_write_head
    /\ reader' = [reader EXCEPT !.at = "loop"]
    /\ UNCHANGED <<canonical, tty_ring, line_buffer, eof, got, trampled>>

Empty == tty_read_head = tty_write_head

\* Mutant: the head moves before the byte is taken.
tty_read_next_byte ==
    /\ reader.at = "loop" /\ reader.left > 0 /\ ~Empty
    /\ got' = Append(got, read_buffer[(tty_read_head + 1) % READ_BUFFER])
    /\ tty_read_head' = tty_read_head + 1
    /\ reader' = [at |-> "wrap", left |-> reader.left - 1]
    /\ UNCHANGED <<canonical, read_buffer, tty_write_head, sent, overrun, line_buffer, eof, trampled>>

\* One turn of the loop takes a byte; tty_read_head is wrapped by a statement of
\* its own, and an interrupt may come in between.
tty_read_byte ==
    /\ reader.at = "loop" /\ reader.left > 0 /\ ~Empty
    /\ got' = Append(got, read_buffer[tty_read_head])
    /\ tty_read_head' = tty_read_head + 1
    /\ reader' = [at |-> "wrap", left |-> reader.left - 1]
    /\ UNCHANGED <<canonical, read_buffer, tty_write_head, sent, overrun, line_buffer, eof, trampled>>

tty_read_wrap ==
    /\ reader.at = "wrap"
    /\ tty_read_head' = tty_read_head % READ_BUFFER
    /\ reader' = [reader EXCEPT !.at = "loop"]
    /\ UNCHANGED <<canonical, read_buffer, tty_write_head, sent, overrun, line_buffer, eof, got, trampled>>

tty_read_return ==
    /\ reader.at = "loop" /\ (reader.left = 0 \/ Empty)
    /\ reader' = Out
    /\ UNCHANGED <<canonical, tty_ring, line_buffer, eof, got, trampled>>

tty_read == \/ tty_read_eof \/ tty_read_some
            \/ tty_read_byte \/ tty_read_wrap \/ tty_read_return

TtyNext ==
    /\ ~trampled
    /\ \/ \E c \in Chars : tty_char_recv(c)
       \/ tty_ioctl
       \/ \E len \in 1 .. 2 : fd_read(len)
       \/ tty_read

TtySpec == TtyInit /\ [][TtyNext]_tty_vars

----------------------------------------------------------------------------
\* What the interrupt stores is what the process reads, in that order and
\* nothing twice, wherever the interrupt falls into tty_read, and read_buffer
\* never takes a byte too many: but for the one place between tty_read_head++
\* and its wrap at the end of the buffer, where the test for a full buffer
\* cannot be true.  And line_buffer is left only behind newlines that a full
\* read_buffer refused: no line of characters, however long, gets there.
TerminalIsFifo ==
    /\ ~overrun =>
          /\ Pending <= READ_BUFFER - 1
          /\ got = SubSeq(sent, 1, Len(got))
          /\ \A i \in 1 .. Pending :
                read_buffer[(tty_read_head + i - 1) % READ_BUFFER] = sent[Len(got) + i]
    /\ trampled => \A i \in LINE_BUFFER - 1 .. LINE_BUFFER : line_buffer[i] = "nl"

\* A read that has something to return, bytes or the end of the file, returns,
\* unless read_buffer overran, which makes it look empty with bytes in it, or
\* line_buffer did.
ReadReturns ==
    (reader # Out /\ (eof \/ Pending > 0) /\ ~overrun /\ ~trampled)
        ~> (reader = Out \/ overrun \/ trampled)
=============================================================================
