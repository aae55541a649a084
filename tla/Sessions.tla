------------------------------ MODULE Sessions ------------------------------
(***************************************************************************)
(* Process groups and sessions (usermode/scheduler.c): setpgid and setsid, *)
(* as calls and as actions of spawn, and fork, which inherits both.  kill  *)
(* and the terminal's Ctrl-C and Ctrl-Z signal a group by its number.      *)
(***************************************************************************)
EXTENDS Naturals

CONSTANT MaxPid    \* 2147483647 in the source

ASSUME MaxPidAssumption == MaxPid \in Nat \ {0}

Pids == 1 .. MaxPid

VARIABLES
    alive,      \* processes that are in the ring and not STATE_DELETED
    parent, pgid, sid,
    last_pid

session_vars == <<alive, parent, pgid, sid, last_pid>>

SessionInit ==
    /\ alive = {1} /\ last_pid = 1
    /\ parent = [p \in Pids |-> 1]
    /\ pgid = [p \in Pids |-> 1]
    /\ sid = [p \in Pids |-> 1]

\* A new process, a child of p, in the group g and the session s.
Born(p, g, s) ==
    /\ last_pid < MaxPid
    /\ last_pid' = last_pid + 1
    /\ alive' = alive \cup {last_pid + 1}
    /\ parent' = [parent EXCEPT ![last_pid + 1] = p]
    /\ pgid' = [pgid EXCEPT ![last_pid + 1] = g]
    /\ sid' = [sid EXCEPT ![last_pid + 1] = s]

fork(p) == p \in alive /\ Born(p, pgid[p], sid[p])

\* Mutant: a group of any session will do.
GroupExists(g, s) == \E i \in alive : pgid[i] = g

\* The search of setpgid finds a member of group g (the first in the ring, here
\* any), and that one has to be in session s.
GroupInSession(g, s) == \E i \in alive : pgid[i] = g /\ sid[i] = s

\* spawn with SPAWN_SETPGID: the new process is current_task but is not in the
\* ring yet.  With its own number it founds a group.
spawn_setpgid(p, g) ==
    /\ p \in alive
    /\ g = last_pid + 1 \/ GroupInSession(g, sid[p])
    /\ Born(p, g, sid[p])

\* spawn with SPAWN_SETSID.
spawn_setsid(p) == p \in alive /\ Born(p, last_pid + 1, last_pid + 1)

LeaderStays(t, g) == pgid[t] = t => g = t

\* setpgid of p for itself or a child t.
setpgid(p, t, g) ==
    /\ p \in alive /\ t \in alive
    /\ t = p \/ parent[t] = p
    /\ sid[t] = sid[p]
    /\ g = t \/ GroupInSession(g, sid[t])
    /\ LeaderStays(t, g)
    /\ pgid' = [pgid EXCEPT ![t] = g]
    /\ UNCHANGED <<alive, parent, sid, last_pid>>

setsid(p) ==
    /\ p \in alive /\ pgid[p] # p
    /\ sid' = [sid EXCEPT ![p] = p]
    /\ pgid' = [pgid EXCEPT ![p] = p]
    /\ UNCHANGED <<alive, parent, last_pid>>

\* A process exits and is reaped, in one step: its children go to init.
reap(p) ==
    /\ p \in alive \ {1}
    /\ alive' = alive \ {p}
    /\ parent' = [c \in Pids |-> IF parent[c] = p THEN 1 ELSE parent[c]]
    /\ UNCHANGED <<pgid, sid, last_pid>>

SessionNext ==
    \E p \in Pids :
        \/ fork(p) \/ spawn_setsid(p) \/ setsid(p) \/ reap(p)
        \/ \E g \in Pids : spawn_setpgid(p, g)
        \/ \E t, g \in Pids : setpgid(p, t, g)

SessionSpec == SessionInit /\ [][SessionNext]_session_vars

----------------------------------------------------------------------------
SessionTypeOK ==
    /\ last_pid \in Pids /\ alive \subseteq 1 .. last_pid
    /\ parent \in [Pids -> Pids] /\ pgid \in [Pids -> Pids] /\ sid \in [Pids -> Pids]

\* A process group lies in one session, so that the signal the terminal sends
\* to its foreground group (Ctrl-C, Ctrl-Z) reaches no other session.
GroupInOneSession ==
    \A s, t \in alive : pgid[s] = pgid[t] => sid[s] = sid[t]

\* While the process a group is named after lives, it is the group's leader:
\* setpgid never puts anybody into a group that means something else.
LeaderIsMember ==
    \A t \in alive : pgid[t] \in alive => pgid[pgid[t]] = pgid[t]

\* While the process a session is named after lives it leads the session, and
\* a group in it.
SessionLeaderIsMember ==
    \A t \in alive : sid[t] \in alive =>
        sid[sid[t]] = sid[t] /\ pgid[sid[t]] = sid[t]

\* No group or session is named after a process that is not yet born.
NamesAreOld == \A t \in alive : pgid[t] <= last_pid /\ sid[t] <= last_pid

SessionInv == /\ SessionTypeOK /\ NamesAreOld
       /\ GroupInOneSession /\ LeaderIsMember /\ SessionLeaderIsMember
=============================================================================
