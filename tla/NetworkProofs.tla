--------------------------- MODULE NetworkProofs ---------------------------
(***************************************************************************)
(* What the network code keeps for any number of processes, sockets,       *)
(* ports, hosts, packets and slots.  Each of the five parts has its        *)
(* inductive invariant, the property, and why the property alone is not    *)
(* inductive.                                                              *)
(***************************************************************************)
EXTENDS Arp, Ping, Udp, IpReassembly, Routes, Induction, SequenceTheorems, FiniteSetTheorems

----------------------------------------------------------------------------
(* Numbers.                                                                *)

\* A set of numbers that is not empty has a smallest one, which Min chooses.
LEMMA MinIsMember ==
    ASSUME NEW S, S \subseteq Nat, S # {}
    PROVE  Min(S) \in S
<1>1. PICK x \in S : \A y \in S : x <= y
  BY LeastNat, Zenon
<1> QED
  BY <1>1, Zenon DEF Min

----------------------------------------------------------------------------
(* Ports.  The property is inductive together with the types: a port that   *)
(* is found closed has no socket, which makes the next one its only socket. *)

UdpInv ==
    /\ sockets \subseteq Sockets
    /\ bind_addr \in [Sockets -> SockAddrs]
    /\ udp_ports_open \subseteq Ports
    /\ PortsMatchSockets

\* A socket s gets an address with a type, whose port was not open, or an
\* address whose port is misused from then on; the port it had is closed.
LEMMA AddressKeeps ==
    ASSUME UdpInv, NEW s \in sockets, NEW addr \in SockAddrs,
           UNCHANGED sockets,
           bind_addr' = [bind_addr EXCEPT ![s] = addr],
           udp_ports_open' = (udp_ports_open \ Closed(s)) \cup {addr.port},
           misused \subseteq misused',
           \/ addr.port \in misused'
           \/ addr.type /\ addr.port \notin udp_ports_open \ Closed(s)
    PROVE  UdpInv'
  <1>1. /\ sockets' = sockets /\ s \in Sockets /\ addr.port \in Ports
        /\ \A t \in sockets : bind_addr'[t] = IF t = s THEN addr ELSE bind_addr[t]
    <2>1. s \in Sockets /\ bind_addr \in [Sockets -> SockAddrs]
      BY Zenon DEF UdpInv
    <2>2. addr.port \in Ports
      BY Zenon DEF SockAddrs
    <2> QED
      BY <2>1, <2>2, Zenon DEF UdpInv
  <1>2. ASSUME NEW port \in Ports, port \notin misused'
        PROVE  /\ port \in udp_ports_open' <=> Bound(port)' # {}
               /\ \A t, u \in Bound(port)' : t = u
    <2>1. /\ port \in udp_ports_open <=> Bound(port) # {}
          /\ \A t, u \in Bound(port) : t = u
      BY <1>2, Zenon DEF UdpInv, PortsMatchSockets
    <2>2. port \in Closed(s) <=> s \in Bound(port)
      BY Zenon DEF Closed, Bound
    <2>3. CASE port = addr.port
      <3>1. addr.type /\ (port \in udp_ports_open => port \in Closed(s))
        BY <1>2, <2>3, Zenon
      <3>2. s \in Bound(port)'
        BY <1>1, <2>3, <3>1, Zenon DEF Bound
      <3>3. ASSUME NEW t \in Bound(port)'
            PROVE  t = s
        <4>1. t # s => t \in Bound(port)
          BY <1>1, Zenon DEF Bound
        <4> QED
          BY <2>1, <2>2, <3>1, <4>1, Zenon
      <3> QED
        BY <2>3, <3>2, <3>3, Zenon
    <2>4. CASE port # addr.port
      <3>1. Bound(port)' = Bound(port) \ {s}
        BY <1>1, <2>4, Zenon DEF Bound
      <3>2. port \in udp_ports_open' <=> port \in udp_ports_open /\ s \notin Bound(port)
        BY <2>2, <2>4, Zenon
      <3> QED
        BY <2>1, <3>1, <3>2, Zenon
    <2> QED
      BY <2>3, <2>4, Zenon
  <1>3. PortsMatchSockets'
    BY <1>2, Zenon DEF PortsMatchSockets
  <1> QED
    BY <1>1, <1>3, Zenon DEF UdpInv

\* Steps that change no socket, no address and no port.
LEMMA PortsRest ==
    ASSUME UdpInv, UNCHANGED <<sockets, bind_addr, udp_ports_open, misused>>
    PROVE  UdpInv'
  <1>1. \A port : Bound(port)' = Bound(port)
    BY Zenon DEF Bound
  <1>2. PortsMatchSockets'
    BY <1>1, Zenon DEF UdpInv, PortsMatchSockets
  <1> QED
    BY <1>2, Zenon DEF UdpInv

\* What the first sendto or recvfrom of a socket does.
LEMMA BindEphemeralKeeps ==
    ASSUME UdpInv, NEW s \in sockets, BindEphemeral(s), UNCHANGED <<sockets, misused>>
    PROVE  UdpInv'
  <1> DEFINE free == Ephemeral \ udp_ports_open
  <1>1. CASE ~bind_addr[s].type /\ free # {}
    <2> DEFINE port == Min(free)
               addr == [type |-> TRUE, port |-> port]
    <2>1. port \in Ports /\ port \notin udp_ports_open
      BY <1>1, MinIsMember, UdpAssumption, Zenon
    <2>2. /\ bind_addr' = [bind_addr EXCEPT ![s] = addr]
          /\ udp_ports_open' = udp_ports_open \cup {port}
      BY <1>1, Zenon DEF BindEphemeral
    <2> HIDE DEF port
    <2>3. addr \in SockAddrs /\ addr.type /\ addr.port = port
      BY <2>1, Zenon DEF SockAddrs
    <2>4. Closed(s) = {}
      BY <1>1, Zenon DEF Closed
    <2> HIDE DEF addr
    <2>5. udp_ports_open' = (udp_ports_open \ Closed(s)) \cup {addr.port}
      BY <2>2, <2>3, <2>4, Zenon
    <2> QED
      BY <2>1, <2>2, <2>3, <2>5, AddressKeeps, Zenon
  <1>2. CASE ~(~bind_addr[s].type /\ free # {})
    BY <1>2, PortsRest, Zenon DEF BindEphemeral
  <1> QED
    BY <1>1, <1>2, Zenon

\* A port takes datagrams exactly as long as one socket is bound to it, whatever
\* the sockets, the ports and the order of bind, unbind, sendto, recvfrom and
\* close, but for the ports that were bound without a type, bound while busy or
\* given up by unbind.
THEOREM OpenPortsHaveOneSocket == UdpSpec => []PortsMatchSockets
  <1>1. UdpInit => UdpInv
    <2> SUFFICES ASSUME UdpInit PROVE UdpInv
      BY Zenon
    <2>1. Zero \in SockAddrs
      BY UdpAssumption, Zenon DEF Zero, SockAddrs
    <2> QED
      BY <2>1, Zenon DEF UdpInit, UdpInv, PortsMatchSockets, Bound
  <1>2. UdpInv /\ [UdpNext]_udp_vars => UdpInv'
    <2> SUFFICES ASSUME UdpInv, [UdpNext]_udp_vars
                 PROVE  UdpInv'
      BY Zenon
    <2>1. ASSUME NEW s \in Sockets, socket(s)
          PROVE  UdpInv'
      <3>1. Zero \in SockAddrs /\ Zero.type = FALSE
        BY UdpAssumption, Zenon DEF Zero, SockAddrs
      <3>2. \A port : Bound(port)' = Bound(port)
        BY <2>1, <3>1, Zenon DEF socket, Bound, UdpInv
      <3>3. UNCHANGED <<udp_ports_open, misused>>
        BY <2>1, Zenon DEF socket
      <3>4. PortsMatchSockets'
        BY <3>2, <3>3, Zenon DEF UdpInv, PortsMatchSockets
      <3> QED
        BY <2>1, <3>1, <3>4, Zenon DEF socket, UdpInv
    <2>2. ASSUME NEW s \in Sockets, unbind(s)
          PROVE  UdpInv'
      <3>1. /\ \A port : Bound(port)' = Bound(port)
            /\ UNCHANGED <<sockets, bind_addr>>
            /\ udp_ports_open' = udp_ports_open \ Closed(s)
            /\ misused' = misused \cup Closed(s)
        BY <2>2, Zenon DEF unbind, Bound
      <3>2. PortsMatchSockets'
        BY <3>1, Zenon DEF UdpInv, PortsMatchSockets
      <3> QED
        BY <3>1, <3>2, Zenon DEF UdpInv
    <2>3. ASSUME NEW s \in Sockets, sendto(s) \/ recvfrom(s)
          PROVE  UdpInv'
      BY <2>3, BindEphemeralKeeps, Zenon DEF sendto, recvfrom
    <2>4. ASSUME NEW s \in Sockets, socket_close(s)
          PROVE  UdpInv'
      <3>1. \A port : Bound(port)' = Bound(port) \ {s}
        BY <2>4, Zenon DEF socket_close, Bound
      <3>2. \A port : port \in Closed(s) <=> s \in Bound(port)
        BY <2>4, Zenon DEF socket_close, Closed, Bound
      <3>3. udp_ports_open' = udp_ports_open \ Closed(s) /\ UNCHANGED <<misused, bind_addr>>
        BY <2>4, Zenon DEF socket_close
      <3>4. PortsMatchSockets'
        <4> SUFFICES ASSUME NEW port \in Ports, port \notin misused
                     PROVE  /\ port \in udp_ports_open' <=> Bound(port)' # {}
                            /\ \A t, u \in Bound(port)' : t = u
          BY <3>3, Zenon DEF PortsMatchSockets
        <4>1. /\ port \in udp_ports_open <=> Bound(port) # {}
              /\ \A t, u \in Bound(port) : t = u
          BY Zenon DEF UdpInv, PortsMatchSockets
        <4>2. Bound(port)' = Bound(port) \ {s}
          BY <3>1, Zenon
        <4>3. port \in udp_ports_open' <=> port \in udp_ports_open /\ s \notin Bound(port)
          BY <3>2, <3>3, Zenon
        <4> QED
          BY <4>1, <4>2, <4>3, Zenon
      <3> QED
        BY <2>4, <3>3, <3>4, Zenon DEF UdpInv, socket_close
    <2>5. ASSUME NEW s \in Sockets, NEW addr \in SockAddrs, bind(s, addr)
          PROVE  UdpInv'
      <3>1. \/ addr.port \in misused'
            \/ addr.type /\ addr.port \notin udp_ports_open \ Closed(s)
        BY <2>5, Zenon DEF bind
      <3> QED
        BY <2>5, <3>1, AddressKeeps, Zenon DEF bind
    <2>6. ASSUME NEW port \in Ports, NEW data \in Payloads, udp_received(port, data)
          PROVE  UdpInv'
      BY <2>6, PortsRest, Zenon DEF udp_received
    <2>7. CASE UNCHANGED udp_vars
      BY <2>7, PortsRest, Zenon DEF udp_vars
    <2> QED
      BY <2>1, <2>2, <2>3, <2>4, <2>5, <2>6, <2>7, SMTT(30) DEF UdpNext
  <1>3. UdpInv => PortsMatchSockets
    BY Zenon DEF UdpInv
  <1> QED
    BY <1>1, <1>2, <1>3, PTL DEF UdpSpec

----------------------------------------------------------------------------
(* Pings.  That success means an answer needs to be known while the call   *)
(* waits: a call that is alone inside sees pinging at 0 only once it has   *)
(* been answered.                                                          *)

PingInv ==
    /\ ping_call \in [Pingers -> Results \cup {"lock", "send", "wait"}]
    /\ PingTellsTheTruth
    /\ \A c \in Inside \ overlapped : Inside = {c} /\ (pinging = 0 => c \in answered)

\* The lock is not left behind, and a ping that was alone inside tells the
\* truth, for any number of callers, replies and signals.
THEOREM PingsTellTheTruth == PingSpec => []PingTellsTheTruth
  <1> USE DEF PingInv, PingTellsTheTruth, Inside, Results
  <1>1. PingInit => PingInv
    BY Zenon DEF PingInit
  <1>2. PingInv /\ [PingNext]_ping_vars => PingInv'
    <2> SUFFICES ASSUME PingInv, [PingNext]_ping_vars
                 PROVE  PingInv'
      BY Zenon
    <2>1. ASSUME NEW c \in Pingers, ping(c)
          PROVE  PingInv'
      BY <2>1 DEF ping, LockIsFree
    <2>2. ASSUME NEW c \in Pingers, ping_lock(c)
          PROVE  PingInv'
      BY <2>2 DEF ping_lock, LockIsFree, PingReturns
    <2>3. ASSUME NEW c \in Pingers, icmp_send(c)
          PROVE  PingInv'
      BY <2>3, Zenon DEF icmp_send
    <2>4. ASSUME NEW c \in Pingers, ping_wait(c)
          PROVE  PingInv'
      BY <2>4 DEF ping_wait, PingReturns, Unlock
    <2>5. ASSUME icmp_reply
          PROVE  PingInv'
      BY <2>5, Zenon DEF icmp_reply
    <2>6. ASSUME icmp_unreachable
          PROVE  PingInv'
      BY <2>6 DEF icmp_unreachable
    <2>7. ASSUME NEW c \in Pingers, ping_kill(c)
          PROVE  PingInv'
      BY <2>7, Zenon DEF ping_kill
    <2>8. CASE UNCHANGED ping_vars
      BY <2>8, Zenon DEF ping_vars
    <2> QED
      BY <2>1, <2>2, <2>3, <2>4, <2>5, <2>6, <2>7, <2>8, SMTT(30) DEF PingNext
  <1>3. PingInv => PingTellsTheTruth
    BY Zenon
  <1> QED
    BY <1>1, <1>2, <1>3, PTL DEF PingSpec

----------------------------------------------------------------------------
(* Addresses.  The flag is shared: that it is up while somebody is past    *)
(* the assignment is kept only because a call that goes on to its second   *)
(* search has seen it down, so "found" does not count.                     *)

Searching == {"send", "wait", "over"}

ArpInv ==
    /\ arp_cache \in Seq([ip : Hosts, mac : Hosts])
    /\ \A i \in DOMAIN arp_cache : arp_cache[i].mac = arp_cache[i].ip
    /\ asked \subseteq Hosts
    /\ asking \in [Callers -> [at : {"out", "flag", "found"} \cup Searching,
                               ip : Hosts \cup {"none"}, tries : Nat,
                               result : Hosts \cup {"none", "EINTR", "EHOSTUNREACH", "failed"}]]
    /\ \A c \in Callers : asking[c].at # "out" => asking[c].ip \in Hosts
    /\ \A c \in Callers : asking[c].at = "out" /\ asking[c].result \in Hosts =>
                             asking[c].result = asking[c].ip
    /\ waiting_for_reply => \E c \in Callers : asking[c].at \in Searching

\* What one call may become without harm, when the cache and the flag stay or
\* the flag goes down.
LEMMA CallMoves ==
    ASSUME ArpInv, NEW c \in Callers, NEW at, NEW result,
           at \in {"out", "flag", "found"} \cup Searching, at # "out" => asking[c].at # "out",
           result \in Hosts \cup {"none", "EINTR", "EHOSTUNREACH", "failed"},
           at = "out" /\ result \in Hosts => result = asking[c].ip,
           asking' = [asking EXCEPT ![c].at = at, ![c].result = result],
           UNCHANGED <<arp_cache, asked>>,
           \/ waiting_for_reply' = FALSE
           \/ UNCHANGED waiting_for_reply /\ (asking[c].at \in Searching => at \in Searching)
    PROVE  ArpInv'
  <1>1. /\ asking'[c] = [asking[c] EXCEPT !.at = at, !.result = result]
        /\ \A d \in Callers \ {c} : asking'[d] = asking[d]
        /\ DOMAIN asking' = Callers /\ asking' = [d \in Callers |-> asking'[d]]
    BY Zenon DEF ArpInv
  <1>2. /\ asking'[c].at = at /\ asking'[c].result = result
        /\ asking'[c].ip = asking[c].ip /\ asking'[c].tries = asking[c].tries
        /\ asking'[c] \in [at : {"out", "flag", "found"} \cup Searching,
                           ip : Hosts \cup {"none"}, tries : Nat,
                           result : Hosts \cup {"none", "EINTR", "EHOSTUNREACH", "failed"}]
    <2>1. asking[c] \in [at : {"out", "flag", "found"} \cup Searching,
                         ip : Hosts \cup {"none"}, tries : Nat,
                         result : Hosts \cup {"none", "EINTR", "EHOSTUNREACH", "failed"}]
      BY Zenon DEF ArpInv
    <2>2. asking'[c] = [at |-> at, ip |-> asking[c].ip, tries |-> asking[c].tries,
                        result |-> result]
      BY <1>1, <2>1, Zenon
    <2> QED
      BY <2>1, <2>2
  <1>3. (\E d \in Callers : asking[d].at \in Searching) /\ UNCHANGED waiting_for_reply
        /\ waiting_for_reply
        => \E d \in Callers : asking'[d].at \in Searching
    BY <1>1, <1>2 DEF ArpInv
  <1> QED
    BY <1>1, <1>2, <1>3 DEF ArpInv

\* The search of the cache finds the address it looks for.
LEMMA LookUpIsRight ==
    ASSUME ArpInv, NEW ip \in Hosts, Cached(ip)
    PROVE  LookUp(ip) = ip
  <1> DEFINE I == {i \in 1 .. Len(arp_cache) : arp_cache[i].ip = ip}
  <1>1. I # {} /\ I \subseteq Nat
    BY DEF ArpInv, Cached
  <1>2. SelectInSeq(arp_cache, LAMBDA e : e.ip = ip) = Min(I)
    BY <1>1, Zenon DEF SelectInSeq
  <1>3. Min(I) \in I
    BY <1>1, MinIsMember, Zenon
  <1>4. LookUp(ip) = arp_cache[Min(I)].mac
    BY <1>2, Zenon DEF LookUp
  <1> HIDE DEF I
  <1>5. \A i \in I : arp_cache[i].mac = ip
    BY SMTT(30) DEF ArpInv, I
  <1> QED
    BY <1>3, <1>4, <1>5, Zenon

\* Whatever arp_request returns from the cache is the address asked for, and
\* the flag is never up without a call that waits, for any number of callers,
\* hosts, entries and tries.
THEOREM RequestsResolveRight == ArpSpec => []ResolvesRight
  <1>1. ArpInit => ArpInv
    BY ArpAssumption DEF ArpInit, ArpInv, Done
  <1>2. ArpInv /\ [ArpNext]_arp_vars => ArpInv'
    <2> SUFFICES ASSUME ArpInv, [ArpNext]_arp_vars
                 PROVE  ArpInv'
      OBVIOUS
    <2>1. ASSUME NEW c \in Callers, NEW ip \in Hosts, arp_request(c, ip)
          PROVE  ArpInv'
      <3> DEFINE r == IF Cached(ip) THEN LookUp(ip) ELSE "none"
      <3>1. r = IF Cached(ip) THEN ip ELSE "none"
        BY LookUpIsRight, Zenon
      <3>2. /\ asking' = [asking EXCEPT ![c] =
                  [at |-> IF Cached(ip) THEN "out" ELSE "flag", ip |-> ip, tries |-> 0,
                   result |-> r]]
            /\ asking[c].at = "out"
            /\ UNCHANGED <<arp_cache, waiting_for_reply, asked>>
        BY <2>1, Zenon DEF arp_request
      <3> HIDE DEF r
      <3> QED
        BY <3>1, <3>2, ArpAssumption, Zenon DEF ArpInv, Searching
    <2>2. ASSUME NEW c \in Callers, arp_set_flag(c)
          PROVE  ArpInv'
      BY <2>2 DEF ArpInv, Searching, arp_set_flag
    <2>3. ASSUME NEW c \in Callers, arp_send(c)
          PROVE  ArpInv'
      BY <2>3 DEF ArpInv, Searching, arp_send, CountTry
    <2>4. ASSUME NEW c \in Callers, arp_wait(c)
          PROVE  ArpInv'
      <3>1. CASE ~waiting_for_reply
        <4>1. /\ asking' = [asking EXCEPT ![c].at = "found"]
              /\ asking[c].at = "wait" /\ waiting_for_reply' = waiting_for_reply
              /\ UNCHANGED <<arp_cache, asked>>
          BY <2>4, <3>1, Zenon DEF arp_wait
        <4> QED
          BY <3>1, <4>1 DEF ArpInv, Searching
      <3>2. CASE waiting_for_reply
        <4>1. /\ asking' = [asking EXCEPT ![c].at = "out", ![c].result = "EINTR"]
              /\ waiting_for_reply' = FALSE /\ UNCHANGED <<arp_cache, asked>>
          BY <2>4, <3>2, Zenon DEF arp_wait, ClearOnSignal
        <4> QED
          BY <4>1, CallMoves, ArpAssumption, Zenon
      <3> QED
        BY <3>1, <3>2, Zenon
    <2>5. ASSUME NEW c \in Callers, arp_timeout(c)
          PROVE  ArpInv'
      BY <2>5 DEF ArpInv, Searching, arp_timeout
    <2>6. ASSUME NEW c \in Callers, arp_over(c)
          PROVE  ArpInv'
      <3>1. CASE ~waiting_for_reply
        BY <2>6, <3>1 DEF ArpInv, Searching, arp_over
      <3>2. CASE waiting_for_reply
        <4>1. /\ asking' = [asking EXCEPT ![c].at = "out", ![c].result = "EHOSTUNREACH"]
              /\ waiting_for_reply' = FALSE /\ UNCHANGED <<arp_cache, asked>>
          BY <2>6, <3>2, Zenon DEF arp_over
        <4> QED
          BY <4>1, CallMoves, ArpAssumption, Zenon
      <3> QED
        BY <3>1, <3>2
    <2>7. ASSUME NEW c \in Callers, arp_found(c)
          PROVE  ArpInv'
      <3> DEFINE ip == asking[c].ip
                 r == IF Cached(ip) THEN LookUp(ip) ELSE "failed"
      <3>1. ip \in Hosts
        BY <2>7, Zenon DEF ArpInv, arp_found
      <3>2. r = IF Cached(ip) THEN ip ELSE "failed"
        BY <3>1, LookUpIsRight, Zenon
      <3>3. /\ asking' = [asking EXCEPT ![c].at = "out", ![c].result = r]
            /\ asking[c].at = "found"
            /\ UNCHANGED <<arp_cache, waiting_for_reply, asked>>
        BY <2>7, Zenon DEF arp_found
      <3> HIDE DEF r
      <3> QED
        BY <3>1, <3>2, <3>3, CallMoves, ArpAssumption, Zenon DEF Searching
    <2>8. ASSUME NEW ip \in Hosts, arp_reply(ip)
          PROVE  ArpInv'
      <3> DEFINE e == [ip |-> ip, mac |-> ip]
      <3>1. CASE arp_cache' = Append(arp_cache, e)
        <4>1. /\ arp_cache' \in Seq([ip : Hosts, mac : Hosts])
              /\ DOMAIN arp_cache' = 1 .. Len(arp_cache) + 1
              /\ DOMAIN arp_cache = 1 .. Len(arp_cache)
              /\ \A i \in DOMAIN arp_cache' :
                    arp_cache'[i] = IF i = Len(arp_cache) + 1 THEN e ELSE arp_cache[i]
          BY <3>1 DEF ArpInv
        <4> QED
          BY <2>8, <4>1 DEF ArpInv, arp_reply
      <3>2. CASE UNCHANGED arp_cache
        BY <2>8, <3>2, Zenon DEF ArpInv, arp_reply
      <3> QED
        BY <2>8, <3>1, <3>2, SMTT(30) DEF arp_reply
    <2>9. CASE (\E c \in Callers : arp_kill(c)) \/ UNCHANGED arp_vars
      BY <2>9 DEF ArpInv, arp_kill, arp_vars
    <2> QED
      BY <2>1, <2>2, <2>3, <2>4, <2>5, <2>6, <2>7, <2>8, <2>9, Zenon DEF ArpNext, ArpStep
  <1>3. ArpInv => ResolvesRight
    BY Zenon DEF ArpInv, ResolvesRight, Searching
  <1> QED
    BY <1>1, <1>2, <1>3, PTL DEF ArpSpec

----------------------------------------------------------------------------
(* Fragments.  What udp_received takes may have been put together from the *)
(* fragments of several packets, so the invariant is about the storage:    *)
(* every piece in it lies where it lay in its packet.                      *)

\* What may lie at place k of the storage.
Here(k) == {Nothing} \cup {<<q, k>> : q \in Packets}

Pieces == {Nothing} \cup (Packets \X Nat)

IpInv ==
    /\ fragment_storage \in [1 .. FragmentSlots -> [1 .. AreaSize -> Pieces]]
    /\ \A i \in 1 .. FragmentSlots : \A k \in 1 .. AreaSize : fragment_storage[i][k] \in Here(k)
    /\ arrived \in Fragments
    /\ DatagramsIntact

LEMMA WholeIsSeq ==
    ASSUME NEW p \in Packets
    PROVE  /\ Size[p] \in Nat /\ Size[p] >= 1 /\ Size[p] <= AreaSize
           /\ Whole(p) \in Seq(Pieces) /\ Len(Whole(p)) = Size[p]
           /\ \A k \in 1 .. Size[p] : Whole(p)[k] = <<p, k>>
  <1>1. Size[p] \in Nat /\ Size[p] >= 1 /\ Size[p] <= AreaSize
    BY ReassemblyAssumption
  <1>2. \A k \in 1 .. Size[p] : <<p, k>> \in Packets \X Nat
    BY <1>1
  <1>3. Whole(p) \in [1 .. Size[p] -> Pieces]
    BY <1>2, Zenon DEF Whole, Pieces
  <1>4. Whole(p) \in Seq(Pieces) /\ Len(Whole(p)) = Size[p]
    BY <1>1, <1>3
  <1> QED
    BY <1>1, <1>4, Zenon DEF Whole

\* The numbers of a fragment.
LEMMA FragmentFacts ==
    ASSUME NEW f \in Fragments
    PROVE  /\ f.p \in Packets /\ f.off \in Nat /\ f.len \in Nat /\ f.len >= 1
           /\ f.off + f.len <= Size[f.p]
           /\ f.df => f.len = Size[f.p]
  BY ReassemblyAssumption DEF Fragments

LEMMA DataIsSeq ==
    ASSUME NEW f \in Fragments
    PROVE  /\ Data(f) \in Seq(Pieces) /\ Len(Data(f)) = f.len
           /\ \A k \in 1 .. f.len : Data(f)[k] = <<f.p, f.off + k>>
  <1> DEFINE m == f.off + 1
             n == f.off + f.len
             w == Whole(f.p)
  <1>1. /\ m \in Int /\ n \in Int /\ m <= n /\ n - m + 1 = f.len
        /\ \A i \in m .. n : i \in 1 .. Size[f.p]
        /\ \A k \in 1 .. f.len : m + k - 1 = f.off + k /\ f.off + k \in m .. n
    <2>1. f.p \in Packets /\ f.off \in Nat /\ f.len \in Nat /\ f.len >= 1
          /\ f.off + f.len <= Size[f.p]
      BY FragmentFacts, Zenon
    <2>2. Size[f.p] \in Nat
      BY <2>1, WholeIsSeq, Zenon
    <2> QED
      BY <2>1, <2>2
  <1>2. ASSUME NEW i \in m .. n
        PROVE  w[i] = <<f.p, i>> /\ w[i] \in Pieces
    <2>1. f.p \in Packets /\ i \in 1 .. Size[f.p] /\ i \in Nat
      BY <1>1, FragmentFacts
    <2>2. w[i] = <<f.p, i>>
      BY <2>1, WholeIsSeq, Zenon
    <2> QED
      BY <2>1, <2>2 DEF Pieces
  <1>3. Data(f) = SubSeq(w, m, n)
    BY Zenon DEF Data
  <1> HIDE DEF m, n, w
  <1>4. /\ SubSeq(w, m, n) \in Seq(Pieces)
        /\ Len(SubSeq(w, m, n)) = f.len
        /\ \A k \in 1 .. f.len : SubSeq(w, m, n)[k] = w[m + k - 1]
    <2>1. \A i \in m .. n : w[i] \in Pieces
      BY <1>2, Zenon
    <2>2. m \in Int /\ n \in Int /\ m <= n /\ n - m + 1 = f.len
      BY <1>1, Zenon
    <2>3. /\ SubSeq(w, m, n) \in Seq(Pieces)
          /\ Len(SubSeq(w, m, n)) = IF m <= n THEN n - m + 1 ELSE 0
          /\ \A i \in 1 .. n - m + 1 : SubSeq(w, m, n)[i] = w[m + i - 1]
      BY <2>1, <2>2, SubSeqProperties
    <2> QED
      BY <2>2, <2>3, Zenon
  <1>5. ASSUME NEW k \in 1 .. f.len
        PROVE  w[m + k - 1] = <<f.p, f.off + k>>
    <2>1. m + k - 1 = f.off + k /\ f.off + k \in m .. n
      BY <1>1, Zenon
    <2> QED
      BY <1>2, <2>1, Zenon
  <1> QED
    BY <1>3, <1>4, <1>5, Zenon

\* A sequence of pieces that lie in their places, with the length and the
\* contents of a packet, is that packet.
LEMMA InPlaceIsWhole ==
    ASSUME NEW s \in Seq(Pieces), \A k \in 1 .. Len(s) : s[k] \in Here(k), Accepted(s)
    PROVE  \E p \in Packets : s = Whole(p)
  <1>1. PICK p \in Packets : Len(s) = Size[p] /\ ToSet(s) = ToSet(Whole(p))
    BY Zenon DEF Accepted
  <1>2. \A k \in 1 .. Len(s) : s[k] = <<p, k>>
    <2> SUFFICES ASSUME NEW k \in 1 .. Len(s)
                 PROVE  s[k] = <<p, k>>
      BY Zenon
    <2>1. s[k] \in ToSet(Whole(p))
      <3>1. k \in DOMAIN s
        OBVIOUS
      <3> QED
        BY <1>1, <3>1, Zenon DEF ToSet
    <2>2. PICK j \in 1 .. Size[p] : s[k] = <<p, j>>
      BY <2>1, Zenon DEF ToSet, Whole
    <2>3. s[k] # Nothing
      BY <2>2, WholeIsSeq DEF Nothing
    <2>4. PICK q \in Packets : s[k] = <<q, k>>
      BY <2>3, Zenon DEF Here
    <2> QED
      BY <2>2, <2>4
  <1> QED
    BY <1>1, <1>2, WholeIsSeq, SeqEqual, ZenonT(40)

\* A fragment that is taken for a packet is one.
LEMMA DataIsWhole ==
    ASSUME NEW f \in Fragments
    PROVE  /\ f.len = Size[f.p] => Data(f) = Whole(f.p)
           /\ Accepted(Data(f)) => \E p \in Packets : Data(f) = Whole(p)
  <1>1. ASSUME f.len = Size[f.p]
        PROVE  Data(f) = Whole(f.p)
    <2>1. f.off = 0
      BY <1>1, FragmentFacts, WholeIsSeq, SMTT(30)
    <2> QED
      <3>1. /\ Data(f) \in Seq(Pieces) /\ Whole(f.p) \in Seq(Pieces)
            /\ Len(Data(f)) = Size[f.p] /\ Len(Whole(f.p)) = Size[f.p]
        BY <1>1, FragmentFacts, WholeIsSeq, DataIsSeq, SMTT(30)
      <3>2. ASSUME NEW k \in 1 .. Size[f.p]
            PROVE  Data(f)[k] = Whole(f.p)[k]
        <4>1. Whole(f.p)[k] = <<f.p, k>>
          BY FragmentFacts, WholeIsSeq, Zenon
        <4>2. Data(f)[k] = <<f.p, f.off + k>>
          BY <1>1, DataIsSeq, Zenon
        <4> QED
          BY <2>1, <4>1, <4>2, SMTT(30)
      <3> QED
        BY <3>1, <3>2, SeqEqual, SMTT(30)
  <1>2. ASSUME Accepted(Data(f))
        PROVE  \E p \in Packets : Data(f) = Whole(p)
    <2>1. PICK p \in Packets : Data(f)[1] = <<p, 1>> /\ Len(Data(f)) = Size[p]
      BY <1>2, Zenon DEF Accepted
    <2>2. <<f.p, f.off + 1>> = <<p, 1>>
      BY <2>1, FragmentFacts, DataIsSeq, SMTT(30)
    <2>3. f.p = p /\ f.len = Size[f.p]
      BY <2>1, <2>2, DataIsSeq, Zenon
    <2> QED
      BY <1>1, <2>3, Zenon
  <1> QED
    BY <1>1, <1>2, Zenon

\* memcpy puts every piece in its place.
LEMMA StoredInPlace ==
    ASSUME NEW f \in Fragments, NEW area \in [1 .. AreaSize -> Pieces],
           \A k \in 1 .. AreaSize : area[k] \in Here(k)
    PROVE  /\ StoredAt(area, f) \in [1 .. AreaSize -> Pieces]
           /\ \A k \in 1 .. AreaSize : StoredAt(area, f)[k] \in Here(k)
           /\ \A k \in 1 .. AreaSize :
                 k - 1 \in f.off .. f.off + f.len - 1 => StoredAt(area, f)[k] = <<f.p, k>>
  <1>1. /\ f.p \in Packets /\ f.off \in Nat /\ f.len \in Nat /\ AreaSize \in Nat
    BY FragmentFacts, ReassemblyAssumption, Zenon
  <1>2. ASSUME NEW k \in 1 .. AreaSize
        PROVE  /\ StoredAt(area, f)[k] \in Pieces
               /\ StoredAt(area, f)[k] \in Here(k)
               /\ k - 1 \in f.off .. f.off + f.len - 1 => StoredAt(area, f)[k] = <<f.p, k>>
    <2>1. CASE k - 1 \in f.off .. f.off + f.len - 1
      <3>1. k - f.off \in 1 .. f.len /\ f.off + (k - f.off) = k
        BY <1>1, <2>1
      <3>2. Data(f)[k - f.off] = <<f.p, f.off + (k - f.off)>>
        BY <3>1, DataIsSeq, Zenon
      <3>3. StoredAt(area, f)[k] = <<f.p, k>>
        BY <2>1, <3>1, <3>2, Zenon DEF StoredAt
      <3>4. <<f.p, k>> \in Packets \X Nat
        BY <1>1
      <3> QED
        BY <1>1, <3>3, <3>4, Zenon DEF Here, Pieces
    <2>2. CASE k - 1 \notin f.off .. f.off + f.len - 1
      BY <2>2, Zenon DEF StoredAt
    <2> QED
      BY <2>1, <2>2, Zenon
  <1>3. StoredAt(area, f) = [k \in 1 .. AreaSize |-> StoredAt(area, f)[k]]
    BY Zenon DEF StoredAt
  <1> QED
    BY <1>2, <1>3, Zenon

\* The first pieces of the storage, handed on for the last fragment f.
LEMMA StoredIsIntact ==
    ASSUME NEW f \in Fragments, NEW area \in [1 .. AreaSize -> Pieces],
           \A k \in 1 .. AreaSize : area[k] \in Here(k)
    PROVE  LET d == SubSeq(StoredAt(area, f), 1, f.len)
           IN  /\ f.len = Size[f.p] => d = Whole(f.p)
               /\ Accepted(d) => \E p \in Packets : d = Whole(p)
  <1> DEFINE s == StoredAt(area, f)
             d == SubSeq(s, 1, f.len)
  <1>1. /\ f.p \in Packets /\ f.len \in Nat /\ f.len >= 1 /\ f.off \in Nat
        /\ f.off + f.len <= Size[f.p] /\ Size[f.p] \in Nat /\ Size[f.p] <= AreaSize
        /\ AreaSize \in Nat
    BY FragmentFacts, WholeIsSeq, ReassemblyAssumption, Zenon
  <1>2. /\ \A k \in 1 .. AreaSize : s[k] \in Pieces /\ s[k] \in Here(k)
        /\ \A k \in 1 .. AreaSize : k - 1 \in f.off .. f.off + f.len - 1 => s[k] = <<f.p, k>>
    BY StoredInPlace, Zenon
  <1> HIDE DEF s
  <1>3. /\ d \in Seq(Pieces) /\ Len(d) = f.len
        /\ \A k \in 1 .. f.len : d[k] = s[k] /\ k \in 1 .. AreaSize
    <2>1. \A k \in 1 .. f.len : k \in 1 .. AreaSize /\ s[k] \in Pieces
      BY <1>1, <1>2, SMTT(30)
    <2>2. /\ SubSeq(s, 1, f.len) \in Seq(Pieces)
          /\ Len(SubSeq(s, 1, f.len)) = IF 1 <= f.len THEN f.len - 1 + 1 ELSE 0
          /\ \A i \in 1 .. f.len - 1 + 1 : SubSeq(s, 1, f.len)[i] = s[1 + i - 1]
      BY <1>1, <2>1, SubSeqProperties, SMTT(30)
    <2> QED
      BY <1>1, <2>1, <2>2, SMTT(30)
  <1> HIDE DEF d
  <1>4. ASSUME f.len = Size[f.p]
        PROVE  d = Whole(f.p)
    <2>1. \A k \in 1 .. f.len : k - 1 \in f.off .. f.off + f.len - 1
      BY <1>1, <1>4, SMTT(30)
    <2>2. \A k \in 1 .. f.len : d[k] = <<f.p, k>>
      BY <1>2, <1>3, <2>1, SMTT(30)
    <2> QED
      <3>1. /\ Whole(f.p) \in Seq(Pieces) /\ Len(Whole(f.p)) = Len(d)
            /\ \A k \in 1 .. f.len : Whole(f.p)[k] = <<f.p, k>>
        BY <1>1, <1>3, <1>4, WholeIsSeq, SMTT(30)
      <3>2. d \in Seq(Pieces) /\ \A k \in 1 .. Len(d) : d[k] = Whole(f.p)[k]
        BY <1>3, <2>2, <3>1, Zenon
      <3> QED
        BY <3>1, <3>2, SeqEqual, SMTT(30)
  <1>5. ASSUME Accepted(d)
        PROVE  \E p \in Packets : d = Whole(p)
    BY <1>2, <1>3, <1>5, InPlaceIsWhole, SMTT(30)
  <1> QED
    BY <1>4, <1>5, Zenon DEF d, s

\* A packet that arrives whole is handed on as it was sent, and what the tests
\* of udp_received let through is a packet as it was sent: for packets of any
\* number and size, whatever their identifications, and any number of slots.
THEOREM DatagramsStayIntact == IpSpec => []DatagramsIntact
  <1>1. IpInit => IpInv
    <2> SUFFICES ASSUME IpInit
                 PROVE  IpInv
      BY Zenon
    <2>1. arrived \in Fragments /\ arrived.df /\ payload = Whole(arrived.p)
      BY Zenon DEF IpInit
    <2>2. \A k \in 1 .. AreaSize : Nothing \in Pieces /\ Nothing \in Here(k)
      BY Zenon DEF Pieces, Here
    <2>3. /\ fragment_storage \in [1 .. FragmentSlots -> [1 .. AreaSize -> Pieces]]
          /\ \A i \in 1 .. FragmentSlots : \A k \in 1 .. AreaSize :
                fragment_storage[i][k] \in Here(k)
      BY <2>2, Zenon DEF IpInit
    <2>4. DatagramsIntact
      BY <2>1, FragmentFacts, Zenon DEF DatagramsIntact
    <2> QED
      BY <2>1, <2>3, <2>4, Zenon DEF IpInv
  <1>2. IpInv /\ [IpNext]_ip_vars => IpInv'
    <2> SUFFICES ASSUME IpInv, [IpNext]_ip_vars
                 PROVE  IpInv'
      OBVIOUS
    <2>1. ASSUME NEW f \in Fragments, ip_received(f)
          PROVE  IpInv'
      <3> DEFINE i == SlotFor(Id[f.p])
                 area == StoredAt(fragment_storage[i], f)
                 mf == f.off + f.len < Size[f.p]
      <3>1. arrived' = f
        BY <2>1, Zenon DEF ip_received
      <3>2. CASE f.df \/ i = 0
        <4>1. payload' = Data(f) /\ UNCHANGED fragment_storage
          BY <2>1, <3>2, Zenon DEF ip_received
        <4>2. DatagramsIntact'
          BY <3>1, <4>1, DataIsWhole, SMTT(30) DEF DatagramsIntact, Accepted
        <4> QED
          BY <3>1, <4>1, <4>2, SMTT(30) DEF IpInv
      <3>3. CASE ~(f.df \/ i = 0)
        <4>1. i \in 1 .. FragmentSlots
          <5> DEFINE fit == {j \in 1 .. FragmentSlots : ids[j] \in {Id[f.p], 0}}
          <5>1. fit # {} /\ fit \subseteq Nat
            BY <3>3 DEF SlotFor
          <5>2. i = Min(fit)
            BY <5>1, Zenon DEF SlotFor, Min
          <5> QED
            BY <5>1, <5>2, MinIsMember, Zenon
        <4>2. /\ fragment_storage' = [fragment_storage EXCEPT ![i] = area]
              /\ payload' = IF mf THEN <<>> ELSE SubSeq(area, 1, f.len)
          BY <2>1, <3>3, Zenon DEF ip_received, PayloadLength
        <4>3. /\ fragment_storage[i] \in [1 .. AreaSize -> Pieces]
              /\ \A k \in 1 .. AreaSize : fragment_storage[i][k] \in Here(k)
          BY <4>1, Zenon DEF IpInv
        <4>4. /\ area \in [1 .. AreaSize -> Pieces]
              /\ \A k \in 1 .. AreaSize : area[k] \in Here(k)
          BY <4>3, StoredInPlace, Zenon
        <4>5. /\ f.len = Size[f.p] => SubSeq(area, 1, f.len) = Whole(f.p)
              /\ Accepted(SubSeq(area, 1, f.len)) =>
                    \E p \in Packets : SubSeq(area, 1, f.len) = Whole(p)
          BY <4>3, StoredIsIntact, Zenon
        <4>6. f.len = Size[f.p] => ~mf
          BY FragmentFacts
        <4>7. ~Accepted(<<>>)
          BY Zenon DEF Accepted
        <4> HIDE DEF i, area, mf
        <4>8. DatagramsIntact'
          <5>1. CASE mf
            BY <3>1, <4>2, <4>6, <4>7, <5>1, SMTT(30) DEF DatagramsIntact, Accepted
          <5>2. CASE ~mf
            BY <3>1, <4>2, <4>5, <5>2, Zenon DEF DatagramsIntact, Accepted
          <5> QED
            BY <5>1, <5>2, Zenon
        <4> QED
          BY <3>1, <4>1, <4>2, <4>4, <4>8, SMTT(30) DEF IpInv
      <3> QED
        BY <3>2, <3>3, SMTT(30)
    <2>2. CASE UNCHANGED ip_vars
      BY <2>2, Zenon DEF ip_vars, IpInv, DatagramsIntact, Accepted
    <2> QED
      BY <2>1, <2>2, Zenon DEF IpNext
  <1>3. IpInv => DatagramsIntact
    BY Zenon DEF IpInv
  <1> QED
    BY <1>1, <1>2, <1>3, PTL DEF IpSpec

----------------------------------------------------------------------------
(* Routes.  The loop's invariant: what it has found among the first n      *)
(* entries is the first of the longest matches among them.                 *)

RoutesInv == routes \in Seq(RouteType)

\* b is what the loop holds after n turns.
BestOf(b, n, ip) ==
    LET fit == {i \in 1 .. n : Matches(routes[i], ip)}
        Length(i) == Cardinality(routes[i].netmask)
    IN  IF fit = {} THEN b = [route |-> 0, prefix |-> -1]
        ELSE /\ b.route \in fit /\ b.prefix = Length(b.route)
             /\ \A i \in fit : /\ Length(i) <= b.prefix
                               /\ i < b.route => Length(i) < b.prefix

\* A netmask is a finite set of bits.
LEMMA MaskLength ==
    ASSUME RoutesInv, NEW i \in 1 .. Len(routes)
    PROVE  Cardinality(routes[i].netmask) \in Nat
<1>1. routes[i] \in RouteType
  BY ElementOfSeq, Zenon DEF RoutesInv
<1>2. routes[i].netmask \in SUBSET Bits
  BY <1>1, Zenon DEF RouteType, Addresses
<1> QED
  BY <1>2, RoutesAssumption, FS_Subset, FS_CardinalityType, SMTT(30)

\* One turn.
LEMMA BestOfNext ==
    ASSUME RoutesInv, NEW ip, NEW n \in 1 .. Len(routes), NEW b, BestOf(b, n - 1, ip)
    PROVE  BestOf(IF Matches(routes[n], ip) /\ Better(routes[n], b)
                  THEN [route |-> n, prefix |-> Cardinality(routes[n].netmask)]
                  ELSE b, n, ip)
<1> DEFINE fit(k) == {i \in 1 .. k : Matches(routes[i], ip)}
           Length(i) == Cardinality(routes[i].netmask)
<1>1. Len(routes) \in Nat
  BY DEF RoutesInv
<1>2. \A i \in 1 .. n : Length(i) \in Nat
  BY <1>1, MaskLength, SMTT(30)
<1>3. fit(n) = fit(n - 1) \cup IF Matches(routes[n], ip) THEN {n} ELSE {}
  BY <1>1
<1>4. \A i \in fit(n - 1) : i \in 1 .. n /\ i < n
  BY <1>1
<1>5. IF fit(n - 1) = {} THEN b = [route |-> 0, prefix |-> -1]
      ELSE /\ b.route \in fit(n - 1) /\ b.prefix = Length(b.route)
           /\ \A i \in fit(n - 1) : /\ Length(i) <= b.prefix
                                    /\ i < b.route => Length(i) < b.prefix
  BY Zenon DEF BestOf
<1>6. b.prefix \in Int /\ (fit(n - 1) = {} => b.prefix = -1)
  <2>1. CASE fit(n - 1) = {}
    BY <1>5, <2>1, SMTT(30)
  <2>2. CASE fit(n - 1) # {}
    BY <1>2, <1>4, <1>5, <2>2, SMTT(30)
  <2> QED
    BY <2>1, <2>2, Zenon
<1>7. CASE ~Matches(routes[n], ip)
  <2>1. fit(n) = fit(n - 1)
    BY <1>3, <1>7, Zenon
  <2> QED
    BY <1>5, <1>7, <2>1, Zenon DEF BestOf
<1>8. CASE Matches(routes[n], ip) /\ Better(routes[n], b)
  <2>1. fit(n) = fit(n - 1) \cup {n}
    BY <1>3, <1>8, Zenon
  <2>2. Length(n) > b.prefix
    BY <1>8, Zenon DEF Better
  <2>3. \A i \in fit(n - 1) : Length(i) < Length(n)
    <3> SUFFICES ASSUME NEW i \in fit(n - 1) PROVE Length(i) < Length(n)
      BY Zenon
    <3>1. Length(i) \in Nat /\ Length(n) \in Nat /\ Length(i) <= b.prefix
      BY <1>1, <1>2, <1>4, <1>5, SMTT(30)
    <3> QED
      BY <1>6, <2>2, <3>1, SMTT(30)
  <2> DEFINE c == [route |-> n, prefix |-> Length(n)]
  <2>4. c.route = n /\ c.prefix = Length(n)
    BY Zenon
  <2>5. c.route \in fit(n)
    BY <2>1, <2>4, Zenon
  <2>6. \A i \in fit(n) : Length(i) <= Length(n) /\ (i < n => Length(i) < Length(n))
    BY <1>2, <1>4, <2>1, <2>3, SMTT(30)
  <2>7. BestOf(c, n, ip)
    BY <2>4, <2>5, <2>6, Zenon DEF BestOf
  <2> QED
    BY <1>8, <2>7
<1>9. CASE Matches(routes[n], ip) /\ ~Better(routes[n], b)
  <2>1. fit(n) = fit(n - 1) \cup {n}
    BY <1>3, <1>9, Zenon
  <2>2. Length(n) <= b.prefix
    BY <1>2, <1>6, <1>9, SMTT(30) DEF Better
  <2>3. fit(n - 1) # {}
    BY <1>2, <1>6, <2>2, SMTT(30)
  <2>4. b.route \in fit(n - 1) /\ b.prefix = Length(b.route) /\ b.route < n
    BY <1>4, <1>5, <2>3, Zenon
  <2>5. \A i \in fit(n) : Length(i) <= b.prefix /\ (i < b.route => Length(i) < b.prefix)
    BY <1>4, <1>5, <2>1, <2>2, <2>3, <2>4, SMTT(30)
  <2>6. BestOf(b, n, ip)
    BY <2>1, <2>4, <2>5, Zenon DEF BestOf
  <2> QED
    BY <1>9, <2>6, Zenon
<1> QED
  BY <1>7, <1>8, <1>9, Zenon

\* The table is a sequence of routes, also when one is taken out of it.
LEMMA RoutesTyped == RoutesSpec => []RoutesInv
<1>1. RoutesInit => RoutesInv
  BY DEF RoutesInit, RoutesInv
<1>2. ASSUME RoutesInv, NEW r \in RouteType, add_route(r)
      PROVE  RoutesInv'
  BY <1>2 DEF RoutesInv, add_route
<1>3. ASSUME RoutesInv, NEW dest, NEW netmask, remove_route(dest, netmask)
      PROVE  RoutesInv'
  <2> DEFINE hits == {i \in 1 .. Len(routes) :
                         routes[i].dest = dest /\ routes[i].netmask = netmask}
  <2>1. routes' = routes \/ (hits # {} /\ routes' = RemoveAt(routes, Min(hits)))
    BY <1>3, Zenon DEF remove_route, SelectInSeq
  <2>2. hits # {} => Min(hits) \in 1 .. Len(routes)
    <3>1. hits \subseteq Nat /\ hits \subseteq 1 .. Len(routes)
      BY <1>3 DEF RoutesInv
    <3> HIDE DEF hits
    <3> QED
      BY <3>1, MinIsMember, Zenon
  <2> HIDE DEF hits
  <2>3. ASSUME NEW i \in 1 .. Len(routes)
        PROVE  RemoveAt(routes, i) \in Seq(RouteType)
    <3>1. /\ SubSeq(routes, 1, i - 1) \in Seq(RouteType)
          /\ SubSeq(routes, i + 1, Len(routes)) \in Seq(RouteType)
      <4>1. routes \in Seq(RouteType) /\ Len(routes) \in Nat
        BY <1>3 DEF RoutesInv
      <4> QED
        BY <4>1, SubSeqProperties, SMTT(30)
    <3> QED
      BY <3>1, ConcatProperties, Zenon DEF RemoveAt
  <2> QED
    BY <1>3, <2>1, <2>2, <2>3, Zenon DEF RoutesInv
<1>4. ASSUME RoutesInv, UNCHANGED routes
      PROVE  RoutesInv'
  BY <1>4, Zenon DEF RoutesInv
<1>5. RoutesInv /\ [RoutesNext]_routes => RoutesInv'
  BY <1>2, <1>3, <1>4, Zenon DEF RoutesNext
<1> QED
  BY <1>1, <1>5, PTL DEF RoutesSpec

\* RouteIsBest: the loop's invariant, by induction over its turns.
THEOREM RoutesAreBest == RoutesSpec => []RouteIsBest
<1>1. ASSUME RoutesInv, NEW ip
      PROVE  \E b : best_route(ip) = b.route /\ BestOf(b, Len(routes), ip)
  <2> DEFINE K == Len(routes)
             none == [route |-> 0, prefix |-> -1]
             Turn(b, n) == IF Matches(routes[n], ip) /\ Better(routes[n], b)
                           THEN [route |-> n, prefix |-> Cardinality(routes[n].netmask)]
                           ELSE b
             V == [route : Nat, prefix : Int]
             F == [x \in V \X Nat |-> IF x[2] \in 1 .. K THEN Turn(x[1], x[2]) ELSE x[1]]
             best == CHOOSE f : f = [n \in 0 .. K |-> IF n = 0 THEN none
                                                      ELSE Turn(f[n - 1], n)]
  <2>1. K \in Nat
    BY <1>1 DEF RoutesInv
  <2>2. none \in V
    OBVIOUS
  <2>3. F \in [V \X Nat -> V]
    <3> SUFFICES ASSUME NEW b \in V, NEW n \in 1 .. K
                 PROVE  Turn(b, n) \in V
      BY <2>1, Zenon
    <3>1. Cardinality(routes[n].netmask) \in Nat /\ n \in Nat
      BY <1>1, <2>1, MaskLength, SMTT(30)
    <3> QED
      BY <3>1
  <2>4. \A b \in V, n \in 1 .. K : F[<<b, n>>] = Turn(b, n)
    BY <2>1
  <2> HIDE DEF F, V, none
  <2>5. PICK g : Iterates(g, V, none, F, K)
    BY <2>1, <2>2, <2>3, Iterate, Zenon
  <2>6. g = [n \in 0 .. K |-> IF n = 0 THEN none ELSE Turn(g[n - 1], n)]
    <3> HIDE DEF Turn
    <3>1. ASSUME NEW n \in 1 .. K
          PROVE  g[n] = Turn(g[n - 1], n)
      <4>1. g[n - 1] \in V
        BY <2>1, <2>5 DEF Iterates
      <4> QED
        BY <2>4, <2>5, <4>1, Zenon DEF Iterates
    <3> QED
      BY <2>1, <2>5, <3>1, SMTT(30) DEF Iterates
  <2>7. best = [n \in 0 .. K |-> IF n = 0 THEN none ELSE Turn(best[n - 1], n)]
    BY <2>6, Zenon
  <2>8. best_route(ip) = best[K].route
    BY Zenon DEF best_route, none
  <2> HIDE DEF best
  <2> DEFINE S == {n \in 0 .. K : BestOf(best[n], n, ip)}
  <2>9. 0 \in S
    <3>1. best[0] = none
      BY <2>1, <2>7, SMTT(30)
    <3> QED
      BY <2>1, <3>1, SMTT(30) DEF BestOf, none
  <2>10. ASSUME NEW n \in 0 .. K - 1, n \in S
         PROVE  n + 1 \in S
    <3>1. n + 1 \in 1 .. K /\ (n + 1) - 1 = n
      BY <2>1
    <3>2. best[n + 1] = Turn(best[n], n + 1)
      BY <2>7, <3>1, SMTT(30)
    <3>3. BestOf(Turn(best[n], n + 1), n + 1, ip)
      BY <1>1, <2>10, <3>1, BestOfNext, ZenonT(30)
    <3> QED
      BY <2>1, <3>1, <3>2, <3>3, SMTT(30)
  <2> HIDE DEF S
  <2>11. 0 .. K \subseteq S
    <3> HIDE DEF K
    <3> QED
      BY <2>1, <2>9, <2>10, BoundedInduction, SMTT(30)
  <2> QED
    BY <2>1, <2>8, <2>11, SMTT(30) DEF S
<1>2. RoutesInv => RouteIsBest
  <2> SUFFICES ASSUME RoutesInv, NEW ip \in Addresses
               PROVE  LET fit == {i \in 1 .. Len(routes) : Matches(routes[i], ip)}
                          Longer(i, j) == Cardinality(routes[i].netmask)
                                              > Cardinality(routes[j].netmask)
                      IN  IF fit = {} THEN best_route(ip) = 0
                          ELSE /\ best_route(ip) \in fit
                               /\ \A i \in fit :
                                     /\ ~Longer(i, best_route(ip))
                                     /\ i < best_route(ip) => Longer(best_route(ip), i)
    BY Zenon DEF RouteIsBest
  <2> DEFINE fit == {i \in 1 .. Len(routes) : Matches(routes[i], ip)}
             Length(i) == Cardinality(routes[i].netmask)
  <2>1. PICK b : best_route(ip) = b.route /\ BestOf(b, Len(routes), ip)
    BY <1>1, Zenon
  <2>2. CASE fit = {}
    BY <2>1, <2>2 DEF BestOf
  <2>3. CASE fit # {}
    <3>1. /\ b.route \in fit /\ b.prefix = Length(b.route)
          /\ \A i \in fit : /\ Length(i) <= b.prefix
                            /\ i < b.route => Length(i) < b.prefix
      BY <2>1, <2>3, Zenon DEF BestOf
    <3>2. \A i \in fit : Length(i) \in Nat
      BY MaskLength, Zenon
    <3> HIDE DEF fit, Length
    <3>3. best_route(ip) \in fit
      BY <2>1, <3>1, Zenon
    <3>4. ASSUME NEW i \in fit
          PROVE  /\ ~(Length(i) > Length(best_route(ip)))
                 /\ i < best_route(ip) => Length(best_route(ip)) > Length(i)
      BY <2>1, <3>1, <3>2, <3>3, SMTT(30)
    <3> QED
      BY <2>3, <3>3, <3>4, Zenon DEF fit, Length
  <2> QED
    BY <2>2, <2>3, Zenon
<1> QED
  BY <1>2, RoutesTyped, PTL
=============================================================================
