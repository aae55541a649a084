------------------------------- MODULE Stdio -------------------------------
(***************************************************************************)
(* libc's streams: the buffer a FILE keeps between the program and the     *)
(* read, write and lseek of the kernel (usermode/fd.c), on one regular     *)
(* file.  Reads and writes may fail or move fewer bytes than asked for.    *)
(***************************************************************************)
EXTENDS Integers, Sequences, SequencesExt, FiniteSets, FiniteSetsExt

CONSTANTS
    Modes,      \* modes programs pass to fopen
    BUFSIZ,
    Byte,       \* of which one is Newline
    Newline,
    Texts,      \* what is written or asked for in one call
    Offsets,    \* bound: what fseek and fsetpos are asked for
    MaxFile     \* bound: no file grows longer

ASSUME StdioAssumption ==
    /\ Modes \subseteq {"r", "r+", "w", "w+", "a", "a+"}
    /\ BUFSIZ \in Nat \ {0} /\ MaxFile \in Nat /\ Offsets \subseteq Int
    /\ Byte \subseteq Nat /\ Newline \in Byte /\ Texts \subseteq Seq(Byte)

VARIABLES
    io,     \* the file, its description in the kernel and the stream
    told    \* history: what the last call told the program

stdio_vars == <<io, told>>

Told(did, data, end) == [did |-> did, data |-> data, end |-> end]

\* No stream; partial: the kernel may take a part of a write only; null: buffer
\* is NULL.
Closed(file, partial) ==
    [file |-> file, partial |-> partial, offset |-> 0, open |-> FALSE,
     buffer |-> [i \in 1 .. BUFSIZ |-> Newline], null |-> FALSE, bufidx |-> 0, bufend |-> 0, pos |-> 0,
     ungetbuf |-> <<>>, mode |-> "_IOLBF",
     FREAD |-> FALSE, FWRITE |-> FALSE, FRW |-> FALSE, ERRORFLAG |-> FALSE, EOFFLAG |-> FALSE]

StdioInit ==
    /\ \E partial \in BOOLEAN : io = Closed(<<>>, partial)
    /\ told = Told("other", <<>>, "ok")

----------------------------------------------------------------------------
\* The kernel's offset is unsigned: a negative one stands for one behind the end
\* of every file, where a seek to before the start leaves it.
Astray(w) == w.offset < 0

\* _PDCLIB_fillbuffer: the read fails, as it does with NULL, finds the end, or
\* brings some bytes.
Fills(w) ==
    LET left == Len(w.file) - w.offset
    IN  {[w EXCEPT !.ERRORFLAG = TRUE]} \cup
        IF w.null THEN {}
        ELSE IF left <= 0 \/ Astray(w) THEN {[w EXCEPT !.EOFFLAG = TRUE]}
        ELSE {[w EXCEPT !.buffer = [i \in 1 .. BUFSIZ |-> IF i <= k THEN w.file[w.offset + i] ELSE @[i]],
                        !.offset = @ + k, !.pos = @ + k, !.bufend = k, !.bufidx = 0] :
                 k \in 1 .. Min({BUFSIZ, left})}

\* The file after k bytes of the buffer have been written at the offset.
Stored(w, k) ==
    [i \in 1 .. Max({Len(w.file), w.offset + k}) |->
        IF i \in w.offset + 1 .. w.offset + k THEN w.buffer[i - w.offset] ELSE w.file[i]]

\* memmove of n bytes from the k-th to the front.
Moved(b, k, n) == [i \in DOMAIN b |-> IF i <= n THEN b[i + k] ELSE b[i]]

\* What is left when k bytes of the buffer have been written.
Remains(w, k) == [w EXCEPT !.bufidx = @ - k, !.buffer = Moved(@, k, w.bufidx - k)]

\* _PDCLIB_flushbuffer; there is one try.  Astray, no disk is large enough.
Flushes(w) ==
    {[ok |-> FALSE, w |-> [w EXCEPT !.ERRORFLAG = TRUE]]} \cup
    {LET v == [w EXCEPT !.file = Stored(w, k), !.offset = @ + k, !.pos = @ + k]
     IN  IF k = w.bufidx THEN [ok |-> TRUE, w |-> [v EXCEPT !.bufidx = 0]]
         ELSE [ok |-> FALSE, w |-> [Remains(v, k) EXCEPT !.ERRORFLAG = TRUE]] :
        k \in IF Astray(w) THEN {} ELSE IF w.partial THEN 0 .. w.bufidx ELSE {w.bufidx}}

CanRead(w) == /\ w.bufidx <= w.bufend
              /\ ~w.FWRITE /\ ~w.ERRORFLAG /\ ~w.EOFFLAG
              /\ w.FREAD \/ w.FRW

CanWrite(w) == /\ w.bufidx >= w.bufend /\ w.ungetbuf = <<>>
               /\ ~w.FREAD /\ ~w.ERRORFLAG /\ ~w.EOFFLAG
               /\ w.FWRITE \/ w.FRW

Refused(did, data) ==
    /\ io' = [io EXCEPT !.ERRORFLAG = TRUE]
    /\ told' = Told(did, data, "error")

----------------------------------------------------------------------------
\* _PDCLIB_filemode: "a" sets FAPPEND and FWRITE.
ModeFlags(m) == CASE m = "r" -> {"FREAD"} [] m = "r+" -> {"FREAD", "FRW"}
                  [] m = "w" -> {"FWRITE"} [] m = "w+" -> {"FWRITE", "FRW"}
                  [] m = "a" -> {"FAPPEND", "FWRITE"} [] m = "a+" -> {"FAPPEND", "FWRITE", "FRW"}

\* _PDCLIB_open.  It expects FAPPEND without FWRITE, so no file can be opened to
\* append to it.
OpenFlags(flags) ==
    CASE flags = {"FREAD"} -> {"O_RDONLY"}
      [] flags = {"FREAD", "FRW"} -> {"O_RDWR"}
      [] flags = {"FWRITE"} -> {"O_WRONLY", "O_CREAT", "O_TRUNC"}
      [] flags = {"FWRITE", "FRW"} -> {"O_RDWR", "O_CREAT", "O_TRUNC"}
      [] flags = {"FAPPEND"} -> {"O_WRONLY", "O_APPEND", "O_CREAT"}
      [] flags = {"FAPPEND", "FRW"} -> {"O_RDWR", "O_APPEND", "O_CREAT"}
      [] OTHER -> {}

\* fopen; a file opened for writing starts empty.
fopen(m) ==
    LET flags  == ModeFlags(m)
        osmode == OpenFlags(flags)
    IN  /\ ~io.open
        /\ IF osmode = {} THEN UNCHANGED io /\ told' = Told("other", <<>>, "error")
           ELSE /\ io' = [Closed(IF "O_TRUNC" \in osmode THEN <<>> ELSE io.file, io.partial) EXCEPT
                             !.open = TRUE, !.FREAD = "FREAD" \in flags,
                             !.FWRITE = "FWRITE" \in flags, !.FRW = "FRW" \in flags]
                /\ told' = Told("open", <<m>>, "ok")

\* setvbuf while nothing is buffered, with a size of BUFSIZ.  Without a buffer of
\* the program's the one there is is large enough, and is lost.
setvbuf(mode, buf) ==
    /\ io.open /\ io.bufidx = 0 /\ io.bufend = 0
    /\ io' = [io EXCEPT !.mode = mode,
                        !.null = IF mode = "_IONBF" THEN @ ELSE buf = "NULL"]
    /\ told' = Told("other", <<>>, "ok")

\* _PDCLIB_CHECKBUFFER and _PDCLIB_GETC, until n characters are there or one of
\* them ends the call.
RECURSIVE Reads(_, _, _, _)
Reads(w, n, stop, got) ==
    IF n = Len(got) \/ (got # <<>> /\ Last(got) \in stop)
    THEN {[w |-> w, got |-> got, end |-> "ok"]}
    ELSE IF w.ungetbuf # <<>>
    THEN Reads([w EXCEPT !.ungetbuf = <<>>], n, stop, Append(got, Head(w.ungetbuf)))
    ELSE IF w.bufidx # w.bufend
    THEN Reads([w EXCEPT !.bufidx = @ + 1], n, stop, Append(got, w.buffer[w.bufidx + 1]))
    ELSE UNION {IF v.EOFFLAG THEN {[w |-> v, got |-> got, end |-> "eof"]}
                ELSE IF v.ERRORFLAG THEN {[w |-> v, got |-> got, end |-> "error"]}
                ELSE Reads(v, n, stop, got) : v \in Fills(w)}

\* fgetc for n = 1 and fread, which stop at nothing; fgets stops at a newline.
Input(n, stop) ==
    /\ io.open
    /\ IF CanRead(io)
       THEN \E r \in Reads([io EXCEPT !.FREAD = TRUE], n, stop, <<>>) :
               io' = r.w /\ told' = Told("get", r.got, r.end)
       ELSE Refused("get", <<>>)

fread(n) == Input(n, {})

\* fgets asks for n characters when its array has room for n, and for none when it
\* has room for one.
fgets(n) ==
    IF n = 1 THEN io.open /\ UNCHANGED io /\ told' = Told("get", <<>>, "ok")
    ELSE Input(n, {Newline})

ungetc(c) ==
    /\ io.open
    /\ IF io.ungetbuf = <<>>
       THEN io' = [io EXCEPT !.ungetbuf = <<c>>] /\ told' = Told("unget", <<c>>, "ok")
       ELSE UNCHANGED io /\ told' = Told("unget", <<c>>, "error")

----------------------------------------------------------------------------
\* The loops that store text: a full buffer is flushed, and a line in one of lines.
\* line is the offset behind the last newline this call left in the buffer.
RECURSIVE Stores(_, _, _, _)
Stores(w, text, lines, line) ==
    IF text = <<>> THEN {[ok |-> TRUE, w |-> w, line |-> line]}
    ELSE LET c    == Head(text)
             v    == [w EXCEPT !.buffer[w.bufidx + 1] = c, !.bufidx = @ + 1]
             mark == IF c = Newline THEN v.bufidx ELSE line
         IN  IF v.bufidx = BUFSIZ \/ (lines /\ c = Newline)
             THEN UNION {IF f.ok THEN Stores(f.w, Tail(text), lines, 0)
                         ELSE {[ok |-> FALSE, w |-> f.w, line |-> 0]} : f \in Flushes(v)}
             ELSE Stores(v, Tail(text), lines, mark)

\* The end of fputs (and of fputc) and of fwrite for an unbuffered stream.
Ended(r) == IF r.ok /\ r.w.mode = "_IONBF" THEN Flushes(r.w) ELSE {r}

\* The end of fwrite for a line-buffered stream: the lines are written, what is
\* behind them moves to the front; after a failure everything counts as buffered.
LineOut(r) ==
    {IF f.ok THEN [f EXCEPT !.w.bufidx = r.w.bufidx - r.line,
                            !.w.buffer = Moved(@, r.line, r.w.bufidx - r.line)]
     ELSE [f EXCEPT !.w.bufidx = r.w.bufidx] :
        f \in Flushes([r.w EXCEPT !.bufidx = r.line])}

\* A program that stores into a buffer at NULL is ended, and its files closed.
\* Bound: after a seek to before the start programs seek again before they write,
\* for bufidx may still be at the end of the buffer.
Output(text, outcomes) ==
    /\ io.open /\ Len(io.file) + io.bufidx + Len(text) <= MaxFile
    /\ \/ ~CanWrite(io) /\ Refused("put", text)
       \/ /\ CanWrite(io) /\ io.null
          /\ io' = Closed(io.file, io.partial) /\ told' = Told("close", <<>>, "error")
       \/ /\ CanWrite(io) /\ ~io.null /\ ~Astray(io)
          /\ \E r \in outcomes :
                io' = r.w /\ told' = Told("put", text, IF r.ok THEN "ok" ELSE "error")

Ready == [io EXCEPT !.FWRITE = TRUE]

\* fputc for a text of one character.
fputs(text) ==
    Output(text, UNION {Ended(r) : r \in Stores(Ready, text, io.mode = "_IOLBF", 0)})

\* Not on a line-buffered stream when writes may be partial: LineOut then counts
\* bytes as buffered that have been written.
fwrite(text) ==
    /\ ~(io.mode = "_IOLBF" /\ io.partial)
    /\ Output(text, UNION {IF r.ok /\ io.mode = "_IOLBF" /\ r.line > 0 THEN LineOut(r) ELSE Ended(r) :
                              r \in Stores(Ready, text, FALSE, 0)})

\* Programs flush after output only.
fflush ==
    /\ io.open /\ io.bufend = 0
    /\ \E f \in Flushes(io) : io' = f.w
    /\ told' = Told("other", <<>>, "ok")

\* A full buffer is left alone until it is flushed: fputc would store behind it.
clearerr ==
    /\ io.open /\ io.bufidx < BUFSIZ /\ (io.ERRORFLAG \/ io.EOFFLAG)
    /\ io' = [io EXCEPT !.ERRORFLAG = FALSE, !.EOFFLAG = FALSE]
    /\ told' = Told("other", <<>>, "ok")

----------------------------------------------------------------------------
\* What fseek, fsetpos and fclose start with.
Flushed(w) == IF w.FWRITE THEN Flushes(w) ELSE {[ok |-> TRUE, w |-> w]}

\* Mutant: the character pushed back is forgotten.
UnreadInBuffer(w) == w.bufend - w.bufidx

\* How far the kernel is ahead of the program.
Unread(w) == w.bufend - w.bufidx + Len(w.ungetbuf)

\* The kernel's lseek; its test for a negative offset is never true.
LseekTo(w, n, whence) ==
    n + CASE whence = "set" -> 0 [] whence = "cur" -> w.offset [] whence = "end" -> Len(w.file)

\* _PDCLIB_seek: a negative result is a failure, and the kernel has moved.
Sought(w, n, whence) ==
    LET to == LseekTo(w, n, whence)
        v  == [w EXCEPT !.offset = to]
    IN  IF Astray(v) THEN [ok |-> FALSE, w |-> v]
        ELSE [ok |-> TRUE,
              w |-> [v EXCEPT !.pos = to, !.bufidx = 0, !.bufend = 0, !.ungetbuf = <<>>]]

Turned(w) == [w EXCEPT !.EOFFLAG = FALSE, !.FREAD = @ /\ ~w.FRW, !.FWRITE = @ /\ ~w.FRW]

\* Bounds: never behind the end, nor far before the start.
Ends(r, n, whence) ==
    /\ io' = r.w
    /\ io'.offset \in -MaxFile .. Len(io'.file)
    /\ told' = Told("seek", <<whence, n>>, IF r.ok THEN "ok" ELSE "error")

SeekFrom(w, n, whence) ==
    \E f \in Flushed(w) :
       Ends(IF f.ok THEN Sought(Turned(f.w), IF whence = "cur" THEN n - Unread(f.w) ELSE n, whence)
            ELSE f, n, whence)

fseek(n, whence) == io.open /\ SeekFrom(io, n, whence)

rewind == io.open /\ SeekFrom([io EXCEPT !.ERRORFLAG = FALSE], 0, "set")

\* Unlike fseek it leaves the flags as they are.  fgetpos gives -1 when a character
\* is pushed back at the start.
fsetpos(n) ==
    /\ io.open
    /\ \E f \in Flushed(io) : Ends(IF f.ok THEN Sought(f.w, n, "set") ELSE f, n, "set")

\* A stream that cannot be flushed stays open.
fclose ==
    /\ io.open
    /\ \E f \in Flushed(io) :
          IF f.ok THEN io' = Closed(f.w.file, io.partial) /\ told' = Told("close", <<>>, "ok")
          ELSE io' = f.w /\ told' = Told("other", <<>>, "error")

StdioNext ==
    \/ \E m \in Modes : fopen(m)
    \/ \E mode \in {"_IOFBF", "_IOLBF", "_IONBF"}, buf \in {"buf", "NULL"} : setvbuf(mode, buf)
    \/ \E text \in Texts : fread(Len(text)) \/ fgets(Len(text)) \/ fputs(text) \/ fwrite(text)
    \/ \E c \in Byte : ungetc(c)
    \/ fflush \/ clearerr \/ rewind \/ fclose
    \/ \E n \in Offsets, whence \in {"set", "cur", "end"} : fseek(n, whence)
    \/ \E n \in Offsets : fsetpos(n)

StdioSpec == StdioInit /\ [][StdioNext]_stdio_vars

----------------------------------------------------------------------------
\* Bytes the program has written and the kernel has not.
Pending == IF io.bufend = 0 THEN io.bufidx ELSE 0

Plain == INSTANCE PlainFile WITH
    bytes <- Stored(io, Pending),
    position <- IF Astray(io) THEN -1 ELSE io.pos + io.bufidx - io.bufend,
    pushed <- io.ungetbuf

\* Whatever is buffered, flushed in part, pushed back, sought or refused, the
\* program sees one plain file: what it reads is what the file and its own writes
\* hold at its position, in order, and fclose leaves all of it in the file.  After
\* a seek to before the start, which fails, nothing is said of what it reads until
\* it has sought again, and still no byte of the file is changed.
StreamIsFile == Plain!FileSpec
=============================================================================
