------------------------------- MODULE Routes -------------------------------
(***************************************************************************)
(* The routing table of net/ip.c.  An address and a mask are the sets of   *)
(* their bits that are 1.                                                  *)
(***************************************************************************)
EXTENDS Integers, Sequences, FiniteSets, SequencesExt

CONSTANTS
    Bits,        \* 32 bits in the code
    Cards,       \* network interfaces
    MaxRoutes    \* 16: length of routes

ASSUME RoutesAssumption == IsFiniteSet(Bits) /\ MaxRoutes \in Nat

Addresses == SUBSET Bits
RouteType == [dest : Addresses, netmask : Addresses, card : Cards]

VARIABLE routes   \* the first routes_existing entries

RoutesInit == routes = <<>>

\* add_route, for an interface that exists; a full table is left alone.
add_route(r) ==
    routes' = IF Len(routes) < MaxRoutes THEN Append(routes, r) ELSE routes

\* remove_route takes the first entry with this destination and mask.
remove_route(dest, netmask) ==
    LET i == SelectInSeq(routes, LAMBDA r : r.dest = dest /\ r.netmask = netmask)
    IN  routes' = IF i = 0 THEN routes ELSE RemoveAt(routes, i)

RoutesNext ==
    \/ \E r \in RouteType : add_route(r)
    \/ \E dest, netmask \in Addresses : remove_route(dest, netmask)

RoutesSpec == RoutesInit /\ [][RoutesNext]_routes

----------------------------------------------------------------------------
Matches(r, ip) == ip \cap r.netmask = r.dest \cap r.netmask

\* Mutant: the first match is taken.
BetterFirst(r, best) == best.route = 0

Better(r, best) == Cardinality(r.netmask) > best.prefix

\* The loop of ip_send and get_source_ip_for: the index of the route, or 0.
best_route(ip) ==
    LET best[n \in 0 .. Len(routes)] ==
            IF n = 0 THEN [route |-> 0, prefix |-> -1]
            ELSE IF Matches(routes[n], ip) /\ Better(routes[n], best[n - 1])
            THEN [route |-> n, prefix |-> Cardinality(routes[n].netmask)]
            ELSE best[n - 1]
    IN  best[Len(routes)].route

\* However routes were added and removed, ip_send takes a route if one matches,
\* and of those the first among the ones with the longest mask.
RouteIsBest ==
    \A ip \in Addresses :
        LET fit == {i \in 1 .. Len(routes) : Matches(routes[i], ip)}
            Longer(i, j) == Cardinality(routes[i].netmask) > Cardinality(routes[j].netmask)
        IN  IF fit = {} THEN best_route(ip) = 0
            ELSE /\ best_route(ip) \in fit
                 /\ \A i \in fit : /\ ~Longer(i, best_route(ip))
                                   /\ i < best_route(ip) => Longer(best_route(ip), i)
=============================================================================
