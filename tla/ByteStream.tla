---------------------------- MODULE ByteStream -----------------------------
(***************************************************************************)
(* What a pipe promises: a bounded queue of bytes between the processes    *)
(* that hold its ends.  No ring, no heads, no counts of ends: Pipe refines *)
(* this module.                                                            *)
(***************************************************************************)
EXTENDS Integers, Sequences

CONSTANTS
    Procs,     \* processes
    Data,      \* bytes
    Capacity,  \* how many bytes the queue holds
    Sizes      \* how many bytes a call asks for

VARIABLES
    stream,    \* the bytes written and not yet read, oldest first
    holds,     \* holds[p]: the ends process p has open
    call,      \* call[p]: the call process p is in
    result     \* what the last call to return returned

streamVars == <<stream, holds, call, result>>

Open(e) == \E p \in Procs : e \in holds[p]
Idle == [op |-> "none"]
Buffers == UNION {[1 .. n -> Data] : n \in Sizes}

StreamInit ==
    /\ stream = <<>>
    /\ holds = [p \in Procs |-> {}]
    /\ call = [p \in Procs |-> Idle]
    /\ result = [err |-> "OK", data |-> <<>>]

Answers(p, err, data) ==
    /\ call' = [call EXCEPT ![p] = Idle]
    /\ result' = [err |-> err, data |-> data]

\* Process p, which still has todo to write after done, puts a prefix of it
\* into the queue.  It waits on only with something left to write; it returns
\* early only from a full queue or one nobody can read, and an error other
\* than EINTR says that nothing of the buffer was taken.
Put(p, todo, done) ==
    \E n \in 0 .. Len(todo) :
        LET taken == SubSeq(todo, 1, n)
            rest  == SubSeq(todo, n + 1, Len(todo))
        IN  /\ n > 0 => Open("r")
            /\ Len(stream) + n <= Capacity
            /\ stream' = stream \o taken
            /\ \/ /\ rest # <<>> /\ Len(stream') = Capacity /\ Open("r")
                  /\ \E b \in BOOLEAN :
                        call' = [call EXCEPT ![p] =
                            [op |-> "write", todo |-> rest,
                             done |-> done \o taken, blocking |-> b]]
                  /\ UNCHANGED result
               \/ /\ rest # <<>> => Len(stream') = Capacity \/ ~Open("r")
                  /\ \E err \in {"OK", "EAGAIN", "EPIPE", "EINTR"} :
                        /\ err = "OK" => done \o taken # <<>> \/ todo = <<>>
                        /\ err = "EPIPE" => ~Open("r")
                        /\ err = "EAGAIN" => Len(stream') = Capacity
                        /\ err \in {"EAGAIN", "EPIPE"} => done \o taken = <<>>
                        /\ Answers(p, err, done \o taken)
            /\ UNCHANGED holds

\* Process p takes the oldest bytes; it sees the end of the stream only when
\* nothing is left and nobody can write.
Get(p, size) ==
    /\ UNCHANGED holds
    /\ \/ \E n \in 0 .. size :
             /\ n < size => n = Len(stream)
             /\ n <= Len(stream)
             /\ stream = <<>> => ~Open("w")
             /\ stream' = SubSeq(stream, n + 1, Len(stream))
             /\ Answers(p, "OK", SubSeq(stream, 1, n))
       \/ /\ stream = <<>> /\ Open("w")
          /\ \/ \E err \in {"EAGAIN", "EINTR"} : Answers(p, err, <<>>)
             \/ /\ call' = [call EXCEPT ![p] = [op |-> "read", size |-> size]]
                /\ UNCHANGED result
          /\ UNCHANGED stream

\* The ends change hands.  A process leaves a call only when it dies, and
\* whoever is in a call holds its end.  A closed end stays closed, and the
\* queue keeps its bytes, until both ends are closed and the pipe is made anew.
Share ==
    /\ holds' \in [Procs -> SUBSET {"r", "w"}]
    /\ \A p \in Procs : \/ call'[p] = call[p]
                        \/ call'[p] = Idle /\ holds'[p] = {}
    /\ \A p \in Procs :
          /\ call'[p].op = "read" => "r" \in holds'[p]
          /\ call'[p].op = "write" => "w" \in holds'[p]
    /\ \/ /\ stream' = stream
          /\ \A e \in {"r", "w"} : Open(e)' => Open(e)
       \/ /\ ~Open("r") /\ ~Open("w")
          /\ stream' = <<>>
    /\ UNCHANGED result

StreamNext ==
    \/ \E p \in Procs :
          \/ /\ "w" \in holds[p]
             /\ \/ /\ call[p].op = "none"
                   /\ \E b \in Buffers : Put(p, b, <<>>)
                \/ call[p].op = "write" /\ Put(p, call[p].todo, call[p].done)
          \/ /\ "r" \in holds[p]
             /\ \/ call[p].op = "none" /\ \E n \in Sizes : Get(p, n)
                \/ call[p].op = "read" /\ Get(p, call[p].size)
    \/ Share

ByteStreamSpec == StreamInit /\ [][StreamNext]_streamVars
=============================================================================
