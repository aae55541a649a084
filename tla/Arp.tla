-------------------------------- MODULE Arp --------------------------------
(***************************************************************************)
(* net/arp.c: processes resolve addresses with arp_request, replies come   *)
(* in through arp_reply, which runs in the network card's interrupt.  A    *)
(* call runs until it yields; the interrupt falls between any two of its   *)
(* statements.                                                             *)
(***************************************************************************)
EXTENDS Naturals, Sequences, SequencesExt

CONSTANTS
    Callers,        \* processes
    Hosts,          \* addresses; the host is also what stands for its MAC
    ARP_CACHE_SIZE,
    Tries,          \* 3: how often a request is sent
    Observed        \* the caller RequestReturns is about; callers are alike

ASSUME ArpAssumption ==
    /\ ARP_CACHE_SIZE \in Nat /\ Tries \in Nat \ {0} /\ Observed \in Callers
    /\ Hosts \cap {"none", "EINTR", "EHOSTUNREACH", "failed"} = {}

VARIABLES
    arp_cache,          \* the entries in use, in the order of the array
    waiting_for_reply,
    asking,             \* asking[c]: where arp_request of c is
    asked,              \* hosts a request has been sent to: each may answer,
                        \* at once, late, twice or never
    arp_signalled       \* callers with a pending signal

arp_vars == <<arp_cache, waiting_for_reply, asking, asked, arp_signalled>>

Done(r) == [at |-> "out", ip |-> "none", tries |-> 0, result |-> r]

ArpInit ==
    /\ arp_cache = <<>> /\ waiting_for_reply = FALSE
    /\ asking = [c \in Callers |-> Done("none")]
    /\ asked = {} /\ arp_signalled = {}

\* Nobody else is inside the kernel: the others run their programs or have
\* yielded in the loop that waits.
ArpTurn(c) == \A d \in Callers \ {c} : asking[d].at \in {"out", "wait"}

Cached(ip) == \E i \in DOMAIN arp_cache : arp_cache[i].ip = ip

\* Mutant: the entry made last.
LookUpLast(ip) == arp_cache[Len(arp_cache)].mac

\* The first entry for ip.
LookUp(ip) == arp_cache[SelectInSeq(arp_cache, LAMBDA e : e.ip = ip)].mac

\* arp_request up to the assignment of the flag: an address in the cache is
\* answered at once.
arp_request(c, ip) ==
    /\ ArpTurn(c) /\ asking[c].at = "out"
    /\ asking' = [asking EXCEPT ![c] =
            [at |-> IF Cached(ip) THEN "out" ELSE "flag", ip |-> ip, tries |-> 0,
             result |-> IF Cached(ip) THEN LookUp(ip) ELSE "none"]]
    /\ UNCHANGED <<arp_cache, waiting_for_reply, asked, arp_signalled>>

arp_set_flag(c) ==
    /\ asking[c].at = "flag"
    /\ waiting_for_reply' = TRUE
    /\ asking' = [asking EXCEPT ![c].at = "send"]
    /\ UNCHANGED <<arp_cache, asked, arp_signalled>>

\* Mutant: the loop does not count.
CountTryNot(n) == n

CountTry(n) == n + 1

\* One turn of the loop sends the request.
arp_send(c) ==
    /\ asking[c].at = "send"
    /\ asked' = asked \cup {asking[c].ip}
    /\ asking' = [asking EXCEPT ![c].at = "wait", ![c].tries = CountTry(@)]
    /\ UNCHANGED <<arp_cache, waiting_for_reply, arp_signalled>>

ClearOnSignal == waiting_for_reply' = FALSE

\* The loop that waits, once its process runs again: the flag is down, a signal
\* is pending, a second is over, or it yields once more.
arp_wait(c) ==
    /\ ArpTurn(c) /\ asking[c].at = "wait"
    /\ \/ /\ ~waiting_for_reply
          /\ asking' = [asking EXCEPT ![c].at = "found"]
          /\ UNCHANGED <<waiting_for_reply, arp_signalled>>
       \/ /\ waiting_for_reply /\ c \in arp_signalled
          /\ ClearOnSignal
          /\ asking' = [asking EXCEPT ![c].at = "out", ![c].result = "EINTR"]
          /\ arp_signalled' = arp_signalled \ {c}
    /\ UNCHANGED <<arp_cache, asked>>

\* A second is over.
arp_timeout(c) ==
    /\ ArpTurn(c) /\ asking[c].at = "wait" /\ waiting_for_reply
    /\ asking' = [asking EXCEPT ![c].at = IF asking[c].tries < Tries THEN "send" ELSE "over"]
    /\ UNCHANGED <<arp_cache, waiting_for_reply, asked, arp_signalled>>

\* After the loop; a reply may have come since the last test.
arp_over(c) ==
    /\ asking[c].at = "over"
    /\ waiting_for_reply' = FALSE
    /\ asking' = IF waiting_for_reply
                 THEN [asking EXCEPT ![c].at = "out", ![c].result = "EHOSTUNREACH"]
                 ELSE [asking EXCEPT ![c].at = "found"]
    /\ UNCHANGED <<arp_cache, asked, arp_signalled>>

\* The second search of the cache.
arp_found(c) ==
    /\ asking[c].at = "found"
    /\ asking' = [asking EXCEPT ![c].at = "out",
            ![c].result = IF Cached(asking[c].ip) THEN LookUp(asking[c].ip) ELSE "failed"]
    /\ UNCHANGED <<arp_cache, waiting_for_reply, asked, arp_signalled>>

\* A reply arrives for our address.
arp_reply(ip) ==
    /\ ip \in asked
    /\ waiting_for_reply' = FALSE
    /\ arp_cache' = IF waiting_for_reply /\ Len(arp_cache) < ARP_CACHE_SIZE
                    THEN Append(arp_cache, [ip |-> ip, mac |-> ip]) ELSE arp_cache
    /\ UNCHANGED <<asking, asked, arp_signalled>>

arp_kill(c) ==
    /\ asking[c].at # "out"
    /\ arp_signalled' = arp_signalled \cup {c}
    /\ UNCHANGED <<arp_cache, waiting_for_reply, asking, asked>>

ArpStep(c) == \/ arp_set_flag(c) \/ arp_send(c) \/ arp_wait(c) \/ arp_timeout(c)
              \/ arp_over(c) \/ arp_found(c)

ArpNext ==
    \/ \E c \in Callers : ArpStep(c) \/ arp_kill(c)
    \/ \E c \in Callers, ip \in Hosts : arp_request(c, ip)
    \/ \E ip \in Hosts : arp_reply(ip)

ArpSpec == ArpInit /\ [][ArpNext]_arp_vars

----------------------------------------------------------------------------
\* Requests share one flag and one cache.  Whoever's reply lowers the flag, and
\* however late it is, a MAC that arp_request returns is that of the address it
\* was asked for; and the flag is up only while somebody waits, so that nobody
\* else's replies enter the cache.
ResolvesRight ==
    /\ \A c \in Callers :
          asking[c].at = "out" /\ asking[c].result \in Hosts =>
             asking[c].result = asking[c].ip
    /\ waiting_for_reply => \E c \in Callers : asking[c].at \notin {"out", "flag"}

\* Three lost requests, replies to others and signals: every call returns.
RequestReturns == (asking[Observed].at # "out") ~> (asking[Observed].at = "out")
=============================================================================
