-------------------------------- MODULE Udp --------------------------------
(***************************************************************************)
(* net/socket.c and the ports and the packet buffer of net/udp.c: sockets  *)
(* are bound to ports, by bind or by their first sendto or recvfrom, and   *)
(* datagrams for an open port are stored until they are read.              *)
(***************************************************************************)
EXTENDS Integers, Sequences, FiniteSets, FiniteSetsExt, SequencesExt

CONSTANTS
    Sockets,
    Ports, Ephemeral,   \* 40000 .. 65534 in the code, a part of Ports
    UDP_BUFFER_SIZE,
    Payloads

ASSUME UdpAssumption ==
    /\ Ports \subseteq Nat /\ 0 \in Ports /\ Ephemeral \subseteq Ports
    /\ UDP_BUFFER_SIZE \in Nat

VARIABLES
    sockets,             \* the sockets that exist
    bind_addr,           \* bind_addr[s]: a port, and whether type is not 0
    udp_ports_open,
    udp_packet_buffer,   \* the slots in use: nothing ever empties one
    udp_got,             \* udp_got[s]: what the last recvfrom of s returned
    misused              \* history: ports bound without a type, or while they
                         \* were open, or given up by unbind

udp_vars == <<sockets, bind_addr, udp_ports_open, udp_packet_buffer, udp_got, misused>>

SockAddrs == [type : BOOLEAN, port : Ports]
Zero == [type |-> FALSE, port |-> 0]
EAGAIN == [port |-> 0, data |-> "EAGAIN"]

UdpInit ==
    /\ sockets = {} /\ udp_ports_open = {} /\ udp_packet_buffer = <<>>
    /\ bind_addr = [s \in Sockets |-> Zero]
    /\ udp_got = [s \in Sockets |-> EAGAIN]
    /\ misused = {}

socket(s) ==
    /\ s \notin sockets
    /\ sockets' = sockets \cup {s}
    /\ bind_addr' = [bind_addr EXCEPT ![s] = Zero]
    /\ udp_got' = [udp_got EXCEPT ![s] = EAGAIN]
    /\ UNCHANGED <<udp_ports_open, udp_packet_buffer, misused>>

\* Mutant: a socket that moves to another port leaves the first one open.
ClosedNot(s) == {}

\* udp_close of the port of a socket that is bound: one whose address has a
\* type.
Closed(s) == IF bind_addr[s].type THEN {bind_addr[s].port} ELSE {}

\* bind takes the address as it is, also one without a type, and ignores that
\* udp_open finds the port busy.
bind(s, addr) ==
    LET open == udp_ports_open \ Closed(s)
    IN  /\ s \in sockets
        /\ udp_ports_open' = open \cup {addr.port}
        /\ bind_addr' = [bind_addr EXCEPT ![s] = addr]
        /\ misused' = misused \cup {p \in {addr.port} : ~addr.type \/ p \in open}
        /\ UNCHANGED <<sockets, udp_packet_buffer, udp_got>>

\* The system call unbind closes the port and leaves bind_addr.
unbind(s) ==
    /\ s \in sockets
    /\ udp_ports_open' = udp_ports_open \ Closed(s)
    /\ misused' = misused \cup Closed(s)
    /\ UNCHANGED <<sockets, bind_addr, udp_packet_buffer, udp_got>>

\* The lowest free ephemeral port for a socket without one, while there is one.
BindEphemeral(s) ==
    LET free == Ephemeral \ udp_ports_open
    IN  IF ~bind_addr[s].type /\ free # {}
        THEN /\ bind_addr' = [bind_addr EXCEPT ![s] = [type |-> TRUE, port |-> Min(free)]]
             /\ udp_ports_open' = udp_ports_open \cup {Min(free)}
        ELSE UNCHANGED <<bind_addr, udp_ports_open>>

sendto(s) ==
    /\ s \in sockets
    /\ BindEphemeral(s)
    /\ UNCHANGED <<sockets, udp_packet_buffer, udp_got, misused>>

\* recvfrom and udp_get_packet: the first packet in the buffer for the port.
\* flags | MSG_PEEK is never 0, so the packet stays.
recvfrom(s) ==
    /\ s \in sockets
    /\ BindEphemeral(s)
    /\ LET port == bind_addr'[s].port
           i == SelectInSeq(udp_packet_buffer, LAMBDA e : e.port = port)
       IN  udp_got' = [udp_got EXCEPT ![s] = IF i = 0 THEN EAGAIN ELSE udp_packet_buffer[i]]
    /\ UNCHANGED <<sockets, udp_packet_buffer, misused>>

socket_close(s) ==
    /\ s \in sockets
    /\ sockets' = sockets \ {s}
    /\ udp_ports_open' = udp_ports_open \ Closed(s)
    /\ UNCHANGED <<bind_addr, udp_packet_buffer, udp_got, misused>>

\* udp_received, in the interrupt, for a datagram that is valid.
udp_received(port, data) ==
    /\ port \in udp_ports_open
    /\ Len(udp_packet_buffer) < UDP_BUFFER_SIZE
    /\ udp_packet_buffer' = Append(udp_packet_buffer, [port |-> port, data |-> data])
    /\ UNCHANGED <<sockets, bind_addr, udp_ports_open, udp_got, misused>>

UdpNext ==
    \/ \E s \in Sockets : \/ socket(s) \/ unbind(s) \/ sendto(s) \/ recvfrom(s)
                          \/ socket_close(s)
                          \/ \E addr \in SockAddrs : bind(s, addr)
    \/ \E port \in Ports, data \in Payloads : udp_received(port, data)

UdpSpec == UdpInit /\ [][UdpNext]_udp_vars

----------------------------------------------------------------------------
Bound(port) == {s \in sockets : bind_addr[s].type /\ bind_addr[s].port = port}

\* Sockets take ports, change them, get one by their first call and are closed,
\* in any order: a port takes datagrams exactly as long as one socket, and one
\* only, is bound to it, so that none stays open for nobody and none is closed
\* under a socket that waits.  This ends for the ports that were misused: bound
\* with an address without a type, bound while busy, or given up by unbind.
PortsMatchSockets ==
    \A port \in Ports \ misused :
        /\ port \in udp_ports_open <=> Bound(port) # {}
        /\ \A s, t \in Bound(port) : s = t
=============================================================================
