---------------------------- MODULE IpReassembly ----------------------------
(***************************************************************************)
(* ip_received of net/ip.c with the tests of udp_received: fragments of    *)
(* the packets of several senders arrive in any order, are lost and come   *)
(* twice.  A packet is a sequence of pieces of 8 bytes, its first one      *)
(* holds the UDP header.                                                   *)
(***************************************************************************)
EXTENDS Naturals, Sequences, SequencesExt

CONSTANTS
    Packets,     \* names of the packets
    Size, Id,    \* Size[p]: its number of pieces, Id[p]: its identification
    FragmentSlots,  \* 12: length of fragment_storage and ids
    AreaSize        \* 0xFFFF bytes: one entry of fragment_storage

ASSUME ReassemblyAssumption ==
    /\ Size \in [Packets -> Nat \ {0}] /\ Id \in [Packets -> Nat]
    /\ FragmentSlots \in Nat
    /\ AreaSize \in Nat /\ \A p \in Packets : Size[p] <= AreaSize

VARIABLES
    ids, fragment_storage,
    arrived,     \* the fragment that came in last
    payload      \* what was handed on for it; <<>> while fragments are missing

ip_vars == <<ids, fragment_storage, arrived, payload>>

Whole(p) == [k \in 1 .. Size[p] |-> <<p, k>>]

\* Fragments: any cut of a packet into runs of pieces.  DF is set on packets
\* that are sent whole, by some senders.
Fragments ==
    {f \in [p : Packets, off : 0 .. AreaSize - 1, len : 1 .. AreaSize, df : BOOLEAN] :
        /\ f.off + f.len <= Size[f.p]
        /\ f.df => f.len = Size[f.p]}

Nothing == <<"none", 0>>

IpInit ==
    /\ ids = [i \in 1 .. FragmentSlots |-> 0]
    /\ fragment_storage = [i \in 1 .. FragmentSlots |-> [k \in 1 .. AreaSize |-> Nothing]]
    /\ arrived \in {f \in Fragments : f.df}
    /\ payload = Whole(arrived.p)

Data(f) == SubSeq(Whole(f.p), f.off + 1, f.off + f.len)

\* memcpy to the offset of the fragment.
StoredAt(area, f) ==
    [k \in 1 .. AreaSize |-> IF k - 1 \in f.off .. f.off + f.len - 1
                            THEN Data(f)[k - f.off] ELSE area[k]]

\* The first slot with the identification, or free; 0 when there is none.
SlotFor(id) ==
    LET fit == {i \in 1 .. FragmentSlots : ids[i] \in {id, 0}}
    IN  IF fit = {} THEN 0 ELSE CHOOSE i \in fit : \A j \in fit : i <= j

\* Mutant: all of the storage is taken for the packet.
PayloadLengthAll(f) == AreaSize

\* payload_length, from the header of the fragment.
PayloadLength(f) == f.len

\* Without a slot the fragment goes on as if it were a packet.  A fragment
\* without MF ends the packet, whatever is missing, and its own length is taken
\* for that of the packet.
ip_received(f) ==
    LET i  == SlotFor(Id[f.p])
        mf == f.off + f.len < Size[f.p]
        area == StoredAt(fragment_storage[i], f)
    IN  /\ arrived' = f
        /\ IF f.df \/ i = 0
           THEN payload' = Data(f) /\ UNCHANGED <<ids, fragment_storage>>
           ELSE /\ fragment_storage' = [fragment_storage EXCEPT ![i] = area]
                /\ ids' = [ids EXCEPT ![i] = IF mf THEN Id[f.p] ELSE 0]
                /\ payload' = IF mf THEN <<>> ELSE SubSeq(area, 1, PayloadLength(f))

IpNext == \E f \in Fragments : ip_received(f)

IpSpec == IpInit /\ [][IpNext]_ip_vars

\* udp_received: the header is that of a packet of this length, and the sum of
\* the pieces, in whatever order, is the one in the header.
Accepted(d) ==
    \E p \in Packets :
        /\ d # <<>> /\ d[1] = <<p, 1>>
        /\ Len(d) = Size[p]
        /\ ToSet(d) = ToSet(Whole(p))

----------------------------------------------------------------------------
\* Whatever fragments of others lie in the slots, and whatever is left there
\* from earlier ones, a packet that arrives whole is handed on as it was sent;
\* and what udp_received takes is a packet as it was sent.
DatagramsIntact ==
    /\ arrived.len = Size[arrived.p] => payload = Whole(arrived.p)
    /\ Accepted(payload) => \E p \in Packets : payload = Whole(p)
=============================================================================
