-------------------------------- MODULE Fat --------------------------------
(***************************************************************************)
(* fs/fat.c: the file allocation table and the entries of the root         *)
(* directory of a FAT volume.  A file is named by the position of its      *)
(* entry, which is also its handle; its bytes are left out, its size is    *)
(* counted in units of which a cluster has ClusterSize.                    *)
(***************************************************************************)
EXTENDS Integers, Sequences, FiniteSets, FiniteSetsExt, SequencesExt

CONSTANTS
    LastCluster,       \* total_clusters + 1
    EntriesPerSector,  \* FAT entries in a sector
    FatEntries,        \* fat_size * entries_per_sector
    ClusterSize,
    SlotsPerCluster,   \* directory entries in a cluster
    LowClusters,       \* 65536: the values of first_cluster_low
    Sizes,             \* bound: what files are truncated to
    Writes             \* bound: the offsets and sizes of writes

ASSUME FatAssumption ==
    /\ {LastCluster, FatEntries, ClusterSize, SlotsPerCluster, LowClusters} \subseteq Nat \ {0}
    /\ LastCluster > 3 /\ FatEntries > LastCluster
    /\ Sizes \subseteq Nat /\ Writes \subseteq Nat \X (Nat \ {0})

Root == 2
FREE == 0
END == LastCluster + 1     \* CLUSTER_CHAIN_END
Clusters == 2 .. LastCluster
Positions == 1 .. SlotsPerCluster * Cardinality(Clusters)
NoEntry == [kind |-> "none", first |-> 0, size |-> 0]

VARIABLES
    fat,         \* the table; entry 0 is the media descriptor
    last_free,
    entry,       \* entry[p]: a file, a directory, or none (end or deleted)
    fat_hung,    \* fat_delete never ends
    fat_failed,  \* history: a call ran out of clusters, or forgot a chain
    fat_torn     \* history: an entry is left with a chain that is free, or endless

fat_vars == <<fat, last_free, entry, fat_hung, fat_failed, fat_torn>>

FatInit ==
    /\ fat = [c \in 0 .. LastCluster |-> IF c < 2 \/ c = Root THEN END ELSE FREE]
    /\ last_free \in 2 .. LastCluster - 2
    /\ entry = [p \in Positions |-> NoEntry]
    /\ fat_hung = FALSE /\ fat_failed = FALSE /\ fat_torn = FALSE

\* The clusters of a chain, in order; one that goes round is cut off.
Chain(f, c) ==
    LET chain[n \in 0 .. LastCluster] ==
            IF n = 0 THEN <<>>
            ELSE LET s == chain[n - 1]
                     x == IF s = <<>> THEN c ELSE f[Last(s)]
                 IN  IF x = END THEN s ELSE Append(s, x)
    IN  chain[LastCluster]

ChainEnds(f, c) == Chain(f, c) # <<>> => f[Last(Chain(f, c))] = END

----------------------------------------------------------------------------
\* An operation works on d: the table, the hint, the cluster before the current
\* one, the current one, whether it ran out of clusters and whether it forgot
\* a chain.
Disk(c) == [fat |-> fat, hint |-> last_free, prev |-> 0, cur |-> c,
            full |-> FALSE, forgot |-> FALSE]

\* fat_compute_free_cluster: from the sector of the hint to the end of the
\* table, then from its start; 0 when nothing is found.  An entry behind the last
\* cluster ends the search where it is.
FreeCluster(d) ==
    LET start == ((IF d.hint \in Clusters THEN d.hint ELSE 2) \div EntriesPerSector)
                    * EntriesPerSector
        free  == {c \in Clusters : d.fat[c] = FREE}
        above == {c \in free : c >= start}
    IN  IF above # {} THEN Min(above)
        ELSE IF FatEntries > LastCluster + 1 \/ free = {} THEN 0
        ELSE Min(free)

Found(d) == [d EXCEPT !.hint = IF FreeCluster(d) = 0 THEN @ ELSE FreeCluster(d)]

\* Mutant: the new cluster is not marked as the end of its chain.
LinkOnly(d) ==
    LET c == FreeCluster(d)
    IN  IF c = 0 THEN [d EXCEPT !.full = TRUE]
        ELSE [Found(d) EXCEPT !.fat = [d.fat EXCEPT ![d.prev] = c], !.cur = c]

\* A free cluster is linked behind prev and becomes the current one.
Link(d) ==
    LET c == FreeCluster(d)
    IN  IF c = 0 THEN [d EXCEPT !.full = TRUE]
        ELSE [Found(d) EXCEPT !.fat = [d.fat EXCEPT ![d.prev] = c, ![c] = END], !.cur = c]

Advance(d) == [d EXCEPT !.prev = d.cur, !.cur = d.fat[d.cur]]

\* n turns of a loop that stops when the disk is full.
Loop(Body(_, _), d, n) ==
    LET turn[i \in 0 .. n] ==
            IF i = 0 THEN d
            ELSE LET x == turn[i - 1] IN IF x.full THEN x ELSE Body(x, i)
    IN  turn[n]

Commit(d) ==
    /\ fat' = d.fat /\ last_free' = d.hint
    /\ fat_failed' = (fat_failed \/ d.full \/ d.forgot)

\* The model ends where an operation does not, and where a chain is torn.
Usable == ~fat_hung /\ ~fat_torn

----------------------------------------------------------------------------
\* fat_add_dirent in the root directory: the first position that is free; a full
\* directory gets one more cluster.
Added(d, entries, e) ==
    LET chain == Chain(d.fat, Root)
        size  == SlotsPerCluster * Len(chain)
        free  == {p \in 1 .. size : entries[p].kind = "none"}
        more  == Link([d EXCEPT !.prev = Last(chain)])
        at(x, p) == [disk |-> x, to |-> p, entries |-> [entries EXCEPT ![p] = e]]
    IN  IF free # {} THEN at(d, Min(free))
        ELSE IF more.full THEN [disk |-> more, to |-> 0, entries |-> entries]
        ELSE at(more, size + 1)

AddDirent(d, entries, e) ==
    LET a == Added(d, entries, e) IN Commit(a.disk) /\ entry' = a.entries

\* A new file has no cluster.
fat_create_file ==
    /\ Usable
    /\ AddDirent(Disk(0), entry, [NoEntry EXCEPT !.kind = "file"])
    /\ UNCHANGED <<fat_hung, fat_torn>>

\* A new directory has one, which is taken before the entry is added.
fat_create_directory ==
    LET c == FreeCluster(Disk(0))
        d == [Found(Disk(0)) EXCEPT !.fat[c] = END]
    IN  /\ Usable
        /\ IF c = 0 THEN Commit([Disk(0) EXCEPT !.full = TRUE]) /\ UNCHANGED entry
           ELSE AddDirent(d, entry, [NoEntry EXCEPT !.kind = "dir", !.first = c])
        /\ UNCHANGED <<fat_hung, fat_torn>>

\* The loop of fat_delete; entry 0 of the table stands for the chain of an empty
\* file, and once it is free it leads to itself.
Freed(f, c) == [x \in DOMAIN f |-> IF x \in ToSet(Chain(f, c)) THEN FREE ELSE f[x]]

Hangs(p) == entry[p].first = 0 /\ fat[0] = FREE

fat_delete(p) ==
    /\ Usable /\ entry[p].kind # "none"
    /\ entry' = [entry EXCEPT ![p] = NoEntry]
    /\ fat_hung' = Hangs(p)
    /\ fat' = IF Hangs(p) THEN fat ELSE Freed(fat, entry[p].first)
    /\ UNCHANGED <<last_free, fat_failed, fat_torn>>

\* fat_rename to a new name (q = 0) or to the name of the file q, which is deleted
\* first; q may be p.  The entry goes to a free position before the old one is
\* cleared: with p = q that is the same one, or one that keeps the freed chain.
fat_rename(p, q) ==
    LET e == IF q = 0 THEN entry ELSE [entry EXCEPT ![q] = NoEntry]
        f == IF q = 0 THEN fat ELSE Freed(fat, entry[q].first)
        a == Added([Disk(0) EXCEPT !.fat = f], e, entry[p])
    IN  /\ Usable /\ entry[p].kind # "none" /\ (q # 0 => entry[q].kind # "none")
        /\ fat_hung' = (q # 0 /\ Hangs(q))
        /\ IF q # 0 /\ Hangs(q)
           THEN entry' = e /\ UNCHANGED <<fat, last_free, fat_failed, fat_torn>>
           ELSE /\ Commit(a.disk)
                /\ entry' = IF a.to = 0 THEN e ELSE [a.entries EXCEPT ![p] = NoEntry]
                /\ fat_torn' = (p = q /\ a.to # p /\ entry[p].first # 0)

----------------------------------------------------------------------------
Ceil(n) == (n + ClusterSize - 1) \div ClusterSize

\* The first cluster of a file without one.  On a full disk that is entry 0, and the
\* bytes go to the end of the last copy of the table, which nobody reads.
FirstCluster(d) ==
    LET c == FreeCluster(d)
    IN  [Found(d) EXCEPT !.fat = [d.fat EXCEPT ![c] = END], !.cur = c, !.forgot = d.cur # 0]

\* One turn of the loop that skips to the offset: a cluster that is missing is
\* added, and counted as skipped.
Skip(d, i) == IF d.cur = END THEN Link(d) ELSE Advance(d)

\* One turn of the loop that writes: the i-th cluster.
Put(d, i) ==
    LET x == IF i = 1 THEN d ELSE Advance(d)
    IN  IF x.cur = END THEN Link(x) ELSE x

\* fat_write_to_file.  Only the low half of the first cluster is tested: a file
\* that starts at a multiple of 65536 gets a new chain.  The entry is written
\* back at the end only.
fat_write_to_file(p, offset, size) ==
    LET e     == entry[p]
        start == IF e.first % LowClusters = 0 THEN FirstCluster(Disk(e.first)) ELSE Disk(e.first)
        at    == Loop(Skip, start, offset \div ClusterSize)
        d     == Loop(Put, at, Ceil((offset % ClusterSize) + size))
    IN  /\ Usable /\ e.kind = "file"
        /\ Commit(d)
        /\ entry' = IF d.full THEN entry
                    ELSE [entry EXCEPT ![p].first = start.cur,
                                       ![p].size = Max({e.size, offset + size})]
        /\ UNCHANGED <<fat_hung, fat_torn>>

\* One turn of the loop that makes a file longer: the cluster that is linked is
\* marked by the next turn, so that turn finds it free and takes it again, and
\* for a moment it leads to itself.
Grow(d, i) ==
    LET c == FreeCluster(d)
    IN  IF c = 0 THEN [d EXCEPT !.full = TRUE]
        ELSE [Found(d) EXCEPT !.fat = [d.fat EXCEPT ![d.prev] = c], !.prev = c]

\* fat_truncate to a larger number of clusters.  When there are too few it returns
\* from the loop, and the last cluster may still lead to itself.
Longer(p, size) ==
    LET e     == entry[p]
        more  == Ceil(size) - Ceil(e.size)
        start == IF e.first # 0 THEN Disk(e.first)
                 ELSE IF FreeCluster(Disk(0)) = 0 THEN [Disk(0) EXCEPT !.full = TRUE]
                 ELSE FirstCluster(Disk(0))
        d     == Loop(Grow, [start EXCEPT !.prev = IF start.full THEN 0 ELSE Last(Chain(start.fat, start.cur))],
                      IF e.first = 0 THEN more - 1 ELSE more)
    IN  IF d.full
        THEN /\ Commit(d) /\ UNCHANGED entry
             /\ fat_torn' = (~start.full /\ d.fat[d.prev] = d.prev)
        ELSE /\ UNCHANGED fat_torn
             /\ Commit([d EXCEPT !.fat[d.prev] = END])
             /\ entry' = [entry EXCEPT ![p].first = start.cur, ![p].size = size]

\* To a smaller one: the last clusters are freed, and the one before them ends
\* the chain.  A chain that is not longer than that is given up as a whole, and
\* entry 0 with it when there are fewer clusters than are to be freed.
Shorter(p, size) ==
    LET e     == entry[p]
        less  == Ceil(e.size) - Ceil(size)
        chain == Chain(fat, e.first)
        keep  == Len(chain) - less
        gone  == {chain[i] : i \in {j \in 1 .. Len(chain) : j > keep}}
                    \cup (IF keep < 0 THEN {0} ELSE {})
        f     == [x \in DOMAIN fat |-> IF x \in gone THEN FREE ELSE fat[x]]
    IN  /\ fat' = IF keep > 0 THEN [f EXCEPT ![chain[keep]] = END] ELSE f
        /\ entry' = [entry EXCEPT ![p].first = IF keep > 0 THEN @ ELSE 0, ![p].size = size]
        /\ UNCHANGED <<last_free, fat_failed, fat_torn>>

\* The search for the last cluster does not end either when entry 0 is free.
fat_truncate(p, size) ==
    LET old == Ceil(entry[p].size)
        new == Ceil(size)
    IN  /\ Usable /\ entry[p].kind = "file"
        /\ fat_hung' = (new < old /\ Hangs(p))
        /\ IF new > old THEN Longer(p, size)
           ELSE IF new < old /\ ~Hangs(p) THEN Shorter(p, size)
           ELSE /\ entry' = IF Hangs(p) /\ new < old THEN entry ELSE [entry EXCEPT ![p].size = size]
                /\ UNCHANGED <<fat, last_free, fat_failed, fat_torn>>

FatNext ==
    \/ fat_create_file \/ fat_create_directory
    \/ \E p \in Positions :
          \/ fat_delete(p)
          \/ \E q \in Positions \cup {0} : fat_rename(p, q)
          \/ \E w \in Writes : fat_write_to_file(p, w[1], w[2])
          \/ \E size \in Sizes : fat_truncate(p, size)

FatSpec == FatInit /\ [][FatNext]_fat_vars

----------------------------------------------------------------------------
\* The chain an entry points to; an entry with first cluster 0 has none.
Owned(p) == IF entry[p].first = 0 THEN {} ELSE ToSet(Chain(fat, entry[p].first))

\* Whatever is created, written, truncated, renamed and deleted, on a disk that
\* fills up: every chain ends, no cluster is in two chains, and none of a chain is
\* free to be handed out again, until a chain is torn, which takes a file that is
\* renamed to its own name, or a growth by three clusters or more on a disk that
\* has fewer.  And until a call ran out of clusters, or wrote to a file whose first
\* cluster is a multiple of 65536, no cluster is lost.
ClustersAccounted ==
    LET live == {p \in Positions : entry[p].kind # "none"}
    IN  ~fat_torn =>
        /\ ChainEnds(fat, Root)
        /\ \A p \in live : entry[p].first # 0 => ChainEnds(fat, entry[p].first)
        /\ \A p \in live : \A c \in Owned(p) : c \in Clusters /\ fat[c] # FREE
        /\ \A p, q \in live : p # q => Owned(p) \cap Owned(q) = {}
        /\ \A p \in live : Owned(p) \cap ToSet(Chain(fat, Root)) = {}
        /\ ~fat_failed =>
              \A c \in Clusters : fat[c] # FREE =>
                 c \in ToSet(Chain(fat, Root)) \cup UNION {Owned(p) : p \in live}

\* A deletion comes to its end (fat.c:540, "Free clusters used by the file").
DeleteEnds == ~fat_hung
=============================================================================
