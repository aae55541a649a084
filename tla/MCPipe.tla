------------------------------ MODULE MCPipe -------------------------------
\* Pipe for TLC: a ring short enough to fill up and to wrap within a call.
EXTENDS Pipe, TLC

MCSymmetry == Permutations(Procs) \cup Permutations(Data)

\* What lies in the ring outside the queue, and the result of the last call,
\* are never read.
MCView == <<read_head, write_head, reader_count, writer_count, nonblock, holds,
            call, pending,
            [i \in 1 .. (write_head - read_head + PIPE_SIZE) % PIPE_SIZE |->
                buffer[(read_head + i - 1) % PIPE_SIZE]]>>
=============================================================================
