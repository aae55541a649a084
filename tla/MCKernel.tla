------------------------------ MODULE MCKernel ------------------------------
(***************************************************************************)
(* The parts of the kernel that share no state, each on a small instance.  *)
(* A behaviour exercises one of them: part.                                *)
(***************************************************************************)
EXTENDS Signals, Sessions, KernelHeap, Break, Tty, Arp, Ping, Udp, IpReassembly, Routes

VARIABLE part

signals == <<signal_vars, caught>>
net_vars == <<arp_vars, ping_vars, udp_vars, ip_vars, routes>>
all_vars == <<part, signals, session_vars, heap_vars, break_vars, tty_vars, net_vars>>

Init ==
    /\ part \in {"signals", "sessions", "heap", "break", "tty", "arp", "ping", "udp", "ip", "routes"}
    /\ SignalInit /\ SessionInit /\ HeapInit /\ BreakInit /\ TtyInit
    /\ ArpInit /\ PingInit /\ UdpInit /\ IpInit /\ RoutesInit
    /\ part = "signals" \/ caught = CHOOSE c \in Programs : TRUE
    /\ part = "ip" \/ arrived = CHOOSE f \in Fragments : f.df

\* The other parts rest.
Rests ==
    /\ part # "signals" => UNCHANGED signals
    /\ part # "sessions" => UNCHANGED session_vars
    /\ part # "heap" => UNCHANGED heap_vars
    /\ part # "break" => UNCHANGED break_vars
    /\ part # "tty" => UNCHANGED tty_vars
    /\ part # "arp" => UNCHANGED arp_vars
    /\ part # "ping" => UNCHANGED ping_vars
    /\ part # "udp" => UNCHANGED udp_vars
    /\ part # "ip" => UNCHANGED ip_vars
    /\ part # "routes" => UNCHANGED routes

Next ==
    /\ UNCHANGED part
    /\ \/ part = "signals" /\ SignalNext
       \/ part = "sessions" /\ SessionNext
       \/ part = "heap" /\ HeapNext
       \/ part = "break" /\ BreakNext
       \/ part = "tty" /\ TtyNext
       \/ part = "arp" /\ ArpNext
       \/ part = "ping" /\ PingNext
       \/ part = "udp" /\ UdpNext
       \/ part = "ip" /\ IpNext
       \/ part = "routes" /\ RoutesNext
    /\ Rests

Spec == Init /\ [][Next]_all_vars

\* Programs that catch one signal, and two.
MCPrograms == {{10}, {10, 17}}

\* A packet of three fragments, one of two with the same id, and one of a single
\* fragment whose id is zero.
MCSize == "p" :> 3 @@ "q" :> 2 @@ "r" :> 1
MCId == "p" :> 1 @@ "q" :> 1 @@ "r" :> 0
=============================================================================
