------------------------------- MODULE Pipe --------------------------------
(***************************************************************************)
(* usermode/pipe.c with read, write and the closing of ends in             *)
(* usermode/fd.c: one pipe, the processes that hold its two descriptions,  *)
(* and the calls that wait in it.  The kernel is not preempted inside a    *)
(* call: a call runs until it returns or until yield_current.              *)
(***************************************************************************)
EXTENDS Integers, Sequences

CONSTANTS
    Procs,      \* processes
    Data,       \* bytes
    PIPE_SIZE,  \* length of the ring
    Sizes       \* how many bytes a call asks for

ASSUME PipeAssumption ==
    /\ PIPE_SIZE \in Nat /\ PIPE_SIZE >= 2
    /\ Sizes \subseteq Nat

VARIABLES
    read_head, write_head, buffer,
    reader_count, writer_count,
    nonblock,  \* nonblock[e]: O_NONBLOCK of the description of end e
    holds,     \* holds[p]: the ends process p has open
    call,      \* call[p]: the call process p waits in
    result,    \* what the last call returned: an error, or "OK" and its bytes
    pending    \* pending[p]: has_pending_signals(p)

ring == <<read_head, write_head, buffer>>
pipe_vars == <<read_head, write_head, buffer, reader_count, writer_count, nonblock,
          holds, call, result, pending>>

Ends == {"r", "w"}
Slots == 0 .. PIPE_SIZE - 1
Idle == [op |-> "none"]
Buffers == UNION {[1 .. n -> Data] : n \in Sizes}
Open(e) == \E p \in Procs : e \in holds[p]
MinOf(a, b) == IF a < b THEN a ELSE b

PipeInit ==
    /\ read_head = 0 /\ write_head = 0
    /\ buffer \in [Slots -> Data] /\ \A i, j \in Slots : buffer[i] = buffer[j]
    /\ reader_count = 0 /\ writer_count = 0
    /\ nonblock = [e \in Ends |-> FALSE]
    /\ holds = [p \in Procs |-> {}]
    /\ call = [p \in Procs |-> Idle]
    /\ result = [err |-> "OK", data |-> <<>>]
    /\ pending = [p \in Procs |-> FALSE]

----------------------------------------------------------------------------
\* pipe and create_pipe: the ring is fresh, each end has one description.
pipe(p) ==
    /\ reader_count = 0 /\ writer_count = 0
    /\ read_head' = 0 /\ write_head' = 0
    /\ reader_count' = 1 /\ writer_count' = 1
    /\ nonblock' = [e \in Ends |-> FALSE]
    /\ holds' = [holds EXCEPT ![p] = Ends]
    /\ UNCHANGED <<buffer, call, result, pending>>

\* fork: the child shares the descriptions of the parent.
fork(p, q) ==
    /\ call[p] = Idle /\ holds[p] # {} /\ holds[q] = {}
    /\ holds' = [holds EXCEPT ![q] = holds[p]]
    /\ UNCHANGED <<ring, reader_count, writer_count, nonblock, call, result,
                   pending>>

\* close_file_description, when p is the last to hold the description of an
\* end: remove_pipe_reader, remove_pipe_writer.
Drop(p, E) ==
    LET last == {e \in E : \A q \in Procs \ {p} : e \notin holds[q]}
    IN  /\ holds' = [holds EXCEPT ![p] = @ \ E]
        /\ reader_count' = reader_count - IF "r" \in last THEN 1 ELSE 0
        /\ writer_count' = writer_count - IF "w" \in last THEN 1 ELSE 0

fd_close(p, e) ==
    /\ call[p] = Idle /\ e \in holds[p]
    /\ Drop(p, {e})
    /\ UNCHANGED <<ring, nonblock, call, result, pending>>

\* A signal may end a process inside a call, when yield_current returns.
exit(p) ==
    /\ holds[p] # {}
    /\ Drop(p, holds[p])
    /\ call' = [call EXCEPT ![p] = Idle]
    /\ pending' = [pending EXCEPT ![p] = FALSE]
    /\ UNCHANGED <<ring, nonblock, result>>

\* fcntl with F_SETFL.
fcntl(p, e, b) ==
    /\ call[p] = Idle /\ e \in holds[p]
    /\ nonblock' = [nonblock EXCEPT ![e] = b]
    /\ UNCHANGED <<ring, reader_count, writer_count, holds, call, result,
                   pending>>

kill(p) ==
    /\ holds[p] # {}
    /\ pending' = [pending EXCEPT ![p] = TRUE]
    /\ UNCHANGED <<ring, reader_count, writer_count, nonblock, holds, call,
                   result>>

----------------------------------------------------------------------------
\* Back to user mode: deliver_signals takes what is pending.
Return(p, err, data) ==
    /\ call' = [call EXCEPT ![p] = Idle]
    /\ result' = [err |-> err, data |-> data]
    /\ pending' = [pending EXCEPT ![p] = FALSE]

Yield(p, c) ==
    /\ call' = [call EXCEPT ![p] = c]
    /\ UNCHANGED <<result, pending>>

\* max_bytes in pipe_read.
Readable ==
    IF write_head >= read_head THEN write_head - read_head
    ELSE (PIPE_SIZE - read_head + write_head) % PIPE_SIZE

\* The loop of read over pipe_read.
pipe_read(p, size) ==
    LET n == MinOf(size, Readable)
    IN  /\ \/ /\ Readable > 0
              /\ read_head' = IF write_head >= read_head THEN read_head + n
                              ELSE (read_head + n) % PIPE_SIZE
              /\ Return(p, "OK",
                        [i \in 1 .. n |-> buffer[(read_head + i - 1) % PIPE_SIZE]])
           \/ /\ Readable = 0 /\ writer_count = 0
              /\ Return(p, "OK", <<>>)
              /\ UNCHANGED read_head
           \/ /\ Readable = 0 /\ writer_count # 0
              /\ \/ nonblock["r"] /\ Return(p, "EAGAIN", <<>>)
                 \/ ~nonblock["r"] /\ pending[p] /\ Return(p, "EINTR", <<>>)
                 \/ /\ ~nonblock["r"] /\ ~pending[p]
                    /\ Yield(p, [op |-> "read", size |-> size])
              /\ UNCHANGED read_head
        /\ UNCHANGED <<write_head, buffer, reader_count, writer_count,
                       nonblock, holds>>

\* Mutant: a full ring looks empty.
AvailableAll == ((read_head - write_head - 1 + PIPE_SIZE) % PIPE_SIZE) + 1

\* available in pipe_write.
Available == (read_head - write_head - 1 + PIPE_SIZE) % PIPE_SIZE

\* Mutant: the loop does not look at the readers again.
ReadersGoneIgnored(done) == done = <<>> /\ reader_count = 0

ReadersGone(done) == reader_count = 0

\* The loop of pipe_write: copy what fits, then return or wait for room.
\* EPIPE also raises SIGPIPE: unless the process handles it, exit follows.
pipe_write(p, todo, done, blocking) ==
    LET n    == MinOf(Len(todo), Available)
        rest == SubSeq(todo, n + 1, Len(todo))
        put  == done \o SubSeq(todo, 1, n)
    IN  /\ \/ /\ ReadersGone(done)
              /\ Return(p, IF done = <<>> THEN "EPIPE" ELSE "OK", done)
              /\ UNCHANGED ring
           \/ /\ ~ReadersGone(done)
              /\ write_head' = (write_head + n) % PIPE_SIZE
              /\ buffer' = [i \in Slots |->
                    LET k == (i - write_head + PIPE_SIZE) % PIPE_SIZE
                    IN  IF k < n THEN todo[k + 1] ELSE buffer[i]]
              /\ UNCHANGED read_head
              /\ \/ rest = <<>> /\ Return(p, "OK", put)
                 \/ /\ rest # <<>> /\ ~blocking
                    /\ Return(p, IF put = <<>> THEN "EAGAIN" ELSE "OK", put)
                 \/ /\ rest # <<>> /\ blocking /\ pending[p]
                    /\ Return(p, "EINTR", put)
                 \/ /\ rest # <<>> /\ blocking /\ ~pending[p]
                    /\ Yield(p, [op |-> "write", todo |-> rest, done |-> put,
                                 blocking |-> blocking])
        /\ UNCHANGED <<reader_count, writer_count, nonblock, holds>>

read(p, size) ==
    /\ call[p] = Idle /\ "r" \in holds[p]
    /\ pipe_read(p, size)

\* The argument called blocking is the bit O_NONBLOCK of the description.
write(p, b) ==
    /\ call[p] = Idle /\ "w" \in holds[p]
    /\ \/ /\ b = <<>>
          /\ Return(p, "OK", <<>>)
          /\ UNCHANGED <<ring, reader_count, writer_count, nonblock, holds>>
       \/ /\ b # <<>>
          /\ pipe_write(p, b, <<>>, nonblock["w"])

\* The scheduler runs a waiting process again: yield_current returns.
resume(p) ==
    \/ call[p].op = "read" /\ pipe_read(p, call[p].size)
    \/ /\ call[p].op = "write"
       /\ pipe_write(p, call[p].todo, call[p].done, call[p].blocking)

PipeNext ==
    \E p \in Procs :
        \/ pipe(p) \/ exit(p) \/ kill(p) \/ resume(p)
        \/ \E q \in Procs : fork(p, q)
        \/ \E e \in Ends : fd_close(p, e) \/ \E b \in BOOLEAN : fcntl(p, e, b)
        \/ \E n \in Sizes : read(p, n)
        \/ \E b \in Buffers : write(p, b)

PipeSpec == PipeInit /\ [][PipeNext]_pipe_vars

----------------------------------------------------------------------------
\* The pipe is freed exactly when its last end goes: no process is inside a
\* call on a pipe whose own end has been given back.
NoCallOnClosedEnd ==
    \A p \in Procs :
        /\ call[p].op = "read" => reader_count = 1
        /\ call[p].op = "write" => writer_count = 1

\* The bytes between the heads, oldest first.
Contents(r, w, b) ==
    [i \in 1 .. (w - r + PIPE_SIZE) % PIPE_SIZE |-> b[(r + i - 1) % PIPE_SIZE]]

Stream == INSTANCE ByteStream WITH
    Capacity <- PIPE_SIZE - 1,
    stream   <- Contents(read_head, write_head, buffer)

\* The ring and its two heads are a bounded queue of bytes: nothing is lost,
\* duplicated or reordered, also where a call wraps around the ring, waits
\* half-way or is overtaken by another one.
IsByteStream == Stream!ByteStreamSpec

\* Nobody waits for ever on the other end's dead: once no reader is left a
\* waiting writer returns, and the other way round.
HangUpEndsWait ==
    \A p \in Procs :
        /\ (call[p].op = "write" /\ reader_count = 0) ~> (call[p].op # "write")
        /\ (call[p].op = "read" /\ writer_count = 0) ~> (call[p].op # "read")

\* pipe.h calls the last argument of pipe_write "blocking": a write through a
\* description without O_NONBLOCK waits for room, it does not give up.
BlockingWriteWaits ==
    [][\A p \in Procs, b \in Buffers :
          write(p, b) /\ ~nonblock["w"] => result'.err # "EAGAIN"]_pipe_vars
=============================================================================
