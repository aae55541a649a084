------------------------------- MODULE Ramfs -------------------------------
(***************************************************************************)
(* fs/ramfs.c behind the checks of vfs.c: directories as doubly linked     *)
(* lists of entries, and entries that live on until their last close.      *)
(* The bytes of files are left out.                                        *)
(***************************************************************************)
EXTENDS Naturals, Sequences, SequencesExt, FiniteSets, FiniteSetsExt

CONSTANTS
    MaxEntries,  \* bound: places kmalloc has for entries
    Names,
    MoveDirs     \* whether directories are renamed

ASSUME RamfsAssumption == MoveDirs \in BOOLEAN /\ MaxEntries \in Nat

NULL == 0
Entries == 1 .. MaxEntries
Top == MaxEntries + 1
Unused == [used |-> FALSE, dir |-> FALSE, name |-> {}, opens |-> 0, to_delete |-> FALSE,
           previous |-> NULL, next |-> NULL, parent |-> NULL, child |-> NULL]
NamePaths == {<<n>> : n \in Names} \cup {<<n, m>> : n, m \in Names}

VARIABLES
    ent,          \* ent[x]: the entry at x; zeroed when it is free
    ramfs_fault   \* a freed entry was touched

ramfs_vars == <<ent, ramfs_fault>>

RamfsInit ==
    /\ ent = [x \in Entries \cup {Top} |->
                IF x = Top THEN [Unused EXCEPT !.used = TRUE, !.dir = TRUE] ELSE Unused]
    /\ ramfs_fault = FALSE

\* The entries of a list, as far as there can be any.
Siblings(E, x) ==
    LET step(s, i) == IF s = <<>> \/ Last(s) = NULL THEN s ELSE Append(s, E[Last(s)].next)
    IN  SelectSeq(FoldLeft(step, <<x>>, [i \in Entries |-> i]),
                  LAMBDA y : y # NULL)

Lookup(E, d, n) ==
    LET hits == SelectSeq(Siblings(E, E[d].child), LAMBDA y : E[y].name = n)
    IN  IF ~E[d].dir \/ hits = <<>> THEN NULL ELSE Head(hits)

\* ramfs_get_dirent; entries that are to be deleted are found like the others.
GetDirent(E, path) ==
    FoldLeft(LAMBDA d, n : IF d = NULL THEN NULL ELSE Lookup(E, d, n), Top, path)

\* Mutant: the entry that follows keeps its pointer to the one taken out.
UnlinkForward(E, x) ==
    [y \in DOMAIN E |->
        [E[y] EXCEPT !.next = IF y = E[x].previous THEN E[x].next ELSE @,
                     !.child = IF y = E[x].parent /\ @ = x THEN E[x].next ELSE @]]

\* Taking an entry out of its list.
Unlink(E, x) ==
    [y \in DOMAIN E |->
        [E[y] EXCEPT !.next = IF y = E[x].previous THEN E[x].next ELSE @,
                     !.child = IF y = E[x].parent /\ @ = x THEN E[x].next ELSE @,
                     !.previous = IF y = E[x].next THEN E[x].previous ELSE @]]

Touches(E, x) == {E[x].previous, E[x].parent, E[x].next} \ {NULL}

\* The pages of a freed entry are unmapped, until another one is put there.
Dangles(E, x) == \E y \in Touches(E, x) : ~E[y].used

\* ramfs_free_dirent.
FreeDirent(E, x) ==
    /\ ramfs_fault' = Dangles(E, x)
    /\ ent' = IF Dangles(E, x) THEN E ELSE [Unlink(E, x) EXCEPT ![x] = Unused]

\* ramfs_add_dirent: a new head of the list of d, without children.
AddTo(E, d, x) ==
    LET head == E[d].child
        F    == [E EXCEPT ![d].child = x,
                          ![x].parent = d, ![x].next = head, ![x].previous = NULL, ![x].child = NULL]
    IN  IF head = NULL THEN F ELSE [F EXCEPT ![head].previous = x]

----------------------------------------------------------------------------
\* create_file, create_directory and mknod.
ramfs_create(path, dir) ==
    LET d == GetDirent(ent, Front(path))
    IN  /\ ~ramfs_fault /\ d # NULL /\ ent[d].dir
        /\ GetDirent(ent, path) = NULL
        /\ \E x \in Entries :
              /\ ~ent[x].used /\ \A y \in 1 .. x - 1 : ent[y].used
              /\ ent' = AddTo([ent EXCEPT ![x] = [Unused EXCEPT !.used = TRUE, !.dir = dir,
                                                                !.name = Last(path)]], d, x)
        /\ UNCHANGED ramfs_fault

\* open; the bound is one handle for each entry.
ramfs_open(path) ==
    LET x == GetDirent(ent, path)
    IN  /\ ~ramfs_fault /\ x # NULL /\ ent[x].opens = 0
        /\ ent' = [ent EXCEPT ![x].opens = @ + 1]
        /\ UNCHANGED ramfs_fault

ramfs_close(x) ==
    LET E == [ent EXCEPT ![x].opens = @ - 1]
    IN  /\ ~ramfs_fault /\ ent[x].opens > 0
        /\ IF E[x].opens = 0 /\ E[x].to_delete THEN FreeDirent(E, x)
           ELSE ent' = E /\ UNCHANGED ramfs_fault

\* readdir shows only what is not to be deleted.
IsEmpty(x) == \A y \in ToSet(Siblings(ent, ent[x].child)) : ent[y].to_delete

\* remove_file (vfs.c) and ramfs_delete.
ramfs_delete(path) ==
    LET x == GetDirent(ent, path)
        E == [ent EXCEPT ![x].to_delete = TRUE]
    IN  /\ ~ramfs_fault /\ x # NULL
        /\ ent[x].dir => IsEmpty(x)
        /\ IF ent[x].opens > 0 THEN ent' = E /\ UNCHANGED ramfs_fault ELSE FreeDirent(E, x)

\* rename_file (vfs.c), which wants the new path to exist, and ramfs_rename, which
\* leaves what it finds there alone; when the new directory is inside the old one
\* the entry is lost.
ramfs_rename(old, new) ==
    LET x == GetDirent(ent, old)
        E == [Unlink(ent, x) EXCEPT ![x].name = Last(new)]
        d == GetDirent(E, Front(new))
    IN  /\ ~ramfs_fault /\ x # NULL /\ GetDirent(ent, new) # NULL
        /\ ent[x].dir => MoveDirs
        /\ ramfs_fault' = Dangles(ent, x)
        /\ ent' = IF Dangles(ent, x) THEN ent
                  ELSE IF d = NULL \/ ~E[d].dir THEN E ELSE AddTo(E, d, x)

RamfsNext ==
    \/ \E path \in NamePaths :
          \/ \E dir \in BOOLEAN : ramfs_create(path, dir)
          \/ ramfs_open(path) \/ ramfs_delete(path)
          \/ \E new \in NamePaths : ramfs_rename(path, new)
    \/ \E x \in Entries : ramfs_close(x)

RamfsSpec == RamfsInit /\ [][RamfsNext]_ramfs_vars

----------------------------------------------------------------------------
Reachable == LET in(d) == ToSet(Siblings(ent, ent[d].child))
             IN  {Top} \cup in(Top) \cup UNION {in(x) : x \in {y \in in(Top) : ent[y].dir}}

\* Whatever is created, opened, removed while open, renamed and closed: what a
\* path can reach is in use, lies in one list, and the lists are linked both ways
\* and know their directory.
TreeIsWhole ==
    \A d \in {x \in Reachable : ent[x].dir} :
       LET s == Siblings(ent, ent[d].child)
       IN  /\ IsInjective(s)
           /\ \A i \in 1 .. Len(s) :
                 /\ s[i] # Top /\ ent[s[i]].used
                 /\ ent[s[i]].parent = d
                 /\ ent[s[i]].previous = IF i = 1 THEN NULL ELSE s[i - 1]
=============================================================================
