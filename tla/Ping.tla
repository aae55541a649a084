-------------------------------- MODULE Ping --------------------------------
(***************************************************************************)
(* ping and icmp_received of net/icmp.c.  pinging is at the same time the  *)
(* lock of the one ping that may be under way and its answer: 1 under way, *)
(* 0 answered (or nobody), -1 unreachable.                                 *)
(***************************************************************************)
EXTENDS Integers, FiniteSets

CONSTANT Pingers   \* processes

VARIABLES
    pinging,
    ping_call,       \* ping_call[c]: where ping of c is, or what it returned
    on_the_wire,     \* an echo request has left: it may be answered at any
                     \* later time, more than once, or never
    ping_signalled,  \* callers with a pending signal
    answered,        \* history: callers a reply came in for while they waited,
    overlapped       \* and callers that were not the only ones inside

ping_vars == <<pinging, ping_call, on_the_wire, ping_signalled, answered, overlapped>>

Results == {"none", "ok", "EHOSTUNREACH", "ETIMEDOUT", "EINTR"}

PingInit ==
    /\ pinging = 0 /\ on_the_wire = FALSE
    /\ ping_call = [c \in Pingers |-> "none"]
    /\ ping_signalled = {} /\ answered = {} /\ overlapped = {}

Inside == {c \in Pingers : ping_call[c] \in {"send", "wait"}}

PingReturns(c, r) ==
    /\ ping_call' = [ping_call EXCEPT ![c] = r]
    /\ ping_signalled' = ping_signalled \ {c}

LockIsFree == pinging = 0

\* The loop for the lock, when it lets the caller in: icmp_send waits for ARP,
\* and others run before it is back.
ping(c) ==
    /\ ping_call[c] \in Results \cup {"lock"}
    /\ LockIsFree
    /\ pinging' = 1
    /\ ping_call' = [ping_call EXCEPT ![c] = "send"]
    /\ answered' = answered \ {c}
    /\ overlapped' = IF Inside = {} THEN overlapped \ {c} ELSE overlapped \cup Inside \cup {c}
    /\ UNCHANGED <<on_the_wire, ping_signalled>>

\* It yields, until the lock is free or a signal is pending.
ping_lock(c) ==
    /\ ping_call[c] \in Results \cup {"lock"} /\ ~LockIsFree
    /\ IF c \in ping_signalled THEN PingReturns(c, "EINTR")
       ELSE /\ ping_call' = [ping_call EXCEPT ![c] = "lock"]
            /\ UNCHANGED ping_signalled
    /\ UNCHANGED <<pinging, on_the_wire, answered, overlapped>>

\* icmp_send is back; nothing has left when ARP or routing failed.
icmp_send(c) ==
    /\ ping_call[c] = "send"
    /\ on_the_wire' \in {on_the_wire, TRUE}
    /\ ping_call' = [ping_call EXCEPT ![c] = "wait"]
    /\ UNCHANGED <<pinging, ping_signalled, answered, overlapped>>

\* Mutant: a time-out leaves the lock taken.
UnlockAnswered == pinging' = IF pinging = 1 THEN 1 ELSE 0

Unlock == pinging' = 0

\* The loop for the answer, and what follows it.
ping_wait(c) ==
    /\ ping_call[c] = "wait"
    /\ \/ pinging = 0 /\ PingReturns(c, "ok")
       \/ pinging = -1 /\ PingReturns(c, "EHOSTUNREACH")
       \/ pinging = 1 /\ PingReturns(c, "ETIMEDOUT")
       \/ pinging = 1 /\ c \in ping_signalled /\ PingReturns(c, "EINTR")
    /\ Unlock
    /\ UNCHANGED <<on_the_wire, answered, overlapped>>

\* icmp_received with an echo reply.
icmp_reply ==
    /\ on_the_wire
    /\ pinging' = 0
    /\ answered' = answered \cup Inside
    /\ UNCHANGED <<ping_call, on_the_wire, ping_signalled, overlapped>>

\* With a destination unreachable, which may be about any packet.
icmp_unreachable ==
    /\ pinging' = IF pinging # 0 THEN -1 ELSE 0
    /\ UNCHANGED <<ping_call, on_the_wire, ping_signalled, answered, overlapped>>

ping_kill(c) ==
    /\ ping_signalled' = ping_signalled \cup {c}
    /\ UNCHANGED <<pinging, ping_call, on_the_wire, answered, overlapped>>

PingNext ==
    \/ icmp_reply \/ icmp_unreachable
    \/ \E c \in Pingers : ping(c) \/ ping_lock(c) \/ icmp_send(c) \/ ping_wait(c) \/ ping_kill(c)

PingSpec == PingInit /\ [][PingNext]_ping_vars

----------------------------------------------------------------------------
\* One variable is lock and answer.  The lock is never left behind by calls that
\* have returned; and a ping that was alone inside reports success only when a
\* reply came in while it was under way.
PingTellsTheTruth ==
    /\ pinging # 0 => Inside # {}
    /\ \A c \in Pingers \ overlapped : ping_call[c] = "ok" => c \in answered
=============================================================================
