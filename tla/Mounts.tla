------------------------------- MODULE Mounts -------------------------------
(***************************************************************************)
(* vfs.c: the tree of mountpoints, the walk that resolves a path through   *)
(* it, and the count of open files that keeps a filesystem mounted.  Every *)
(* filesystem has the directories Dirs below its root and nothing in them. *)
(***************************************************************************)
EXTENDS Naturals, Sequences, SequencesExt, FiniteSets, FiniteSetsExt

CONSTANTS
    MaxMounts,   \* bound: mountpoints besides the first
    Dirs,
    MaxOpen      \* bound: open handles

ASSUME MountsAssumption == MaxMounts \in Nat /\ MaxOpen \in Nat

NoMount == MaxMounts + 1
First == 0                       \* root
Mountpoints == First .. MaxMounts
GetRoot == {}                    \* the handle of the root of a filesystem
Handles == Dirs \cup {GetRoot}
Free == [used |-> FALSE, parent |-> NoMount, handle |-> GetRoot, refcount |-> 0, children |-> <<>>]
DirPaths == UNION {[1 .. n -> Dirs] : n \in 0 .. MaxMounts + 1}

VARIABLES
    mnt,      \* mnt[m]: a mountpoint; children is the list it heads
    opened    \* opened[m][h]: open handles

mount_vars == <<mnt, opened>>

MountsInit ==
    /\ mnt = [m \in Mountpoints |-> IF m = First THEN [Free EXCEPT !.used = TRUE] ELSE Free]
    /\ opened = [m \in Mountpoints |-> [h \in Handles |-> 0]]

\* A directory that is covered leads to the root of what is mounted there.
Enter(at) ==
    LET over == SelectSeq(mnt[at.mount].children, LAMBDA m : mnt[m].handle = at.handle)
    IN  IF over = <<>> THEN at ELSE [mount |-> Head(over), handle |-> GetRoot]

\* find_mountpoint; the mount is NoMount when a component is not found.
find_mountpoint(path) ==
    LET step(at, name) ==
           IF at.mount = NoMount \/ at.handle # GetRoot
           THEN [mount |-> NoMount, handle |-> GetRoot]
           ELSE Enter([mount |-> at.mount, handle |-> name])
    IN  FoldLeft(step, [mount |-> First, handle |-> GetRoot], path)

----------------------------------------------------------------------------
\* The new mountpoint is the new head of the list; a root cannot be covered.
mount_filesystem(path) ==
    LET at == find_mountpoint(path)
    IN  /\ at.mount # NoMount /\ at.handle # GetRoot
        /\ \E m \in Mountpoints :
              /\ ~mnt[m].used /\ \A x \in First .. m - 1 : mnt[x].used
              /\ mnt' = [mnt EXCEPT ![m] = [Free EXCEPT !.used = TRUE, !.parent = at.mount,
                                                        !.handle = at.handle],
                                    ![at.mount].children = <<m>> \o @]
        /\ UNCHANGED opened

\* Mutant: only the mountpoints below are looked at.
BusyBelow(m) == mnt[m].children # <<>>

Busy(m) == mnt[m].refcount > 0 \/ mnt[m].children # <<>>

\* Any path inside the filesystem will do.  It is out of the list before the
\* filesystem is asked, and stays out when that one refuses.
unmount_filesystem(path) ==
    LET m == find_mountpoint(path).mount
    IN  /\ m \notin {NoMount, First} /\ ~Busy(m)
        /\ \E refused \in BOOLEAN :
              mnt' = [mnt EXCEPT ![mnt[m].parent].children = SelectSeq(@, LAMBDA x : x # m),
                                 ![m] = IF refused THEN @ ELSE Free]
        /\ UNCHANGED opened

Opened(m) == MapThenSumSet(LAMBDA h : opened[m][h], Handles)

Count(m, h, n) ==
    /\ n > opened[m][h] => MapThenSumSet(Opened, Mountpoints) < MaxOpen
    /\ opened' = [opened EXCEPT ![m][h] = n]
    /\ mnt' = [mnt EXCEPT ![m].refcount = @ + n - opened[m][h]]

\* Here as in the next two a filesystem whose own open or close fails leaves all
\* as it is.
open(path) ==
    LET at == find_mountpoint(path)
    IN  /\ at.mount # NoMount
        /\ Count(at.mount, at.handle, opened[at.mount][at.handle] + 1)

clone_file_handle(m, h) ==
    /\ opened[m][h] > 0
    /\ Count(m, h, opened[m][h] + 1)

close(m, h) ==
    /\ opened[m][h] > 0
    /\ Count(m, h, opened[m][h] - 1)

MountsNext ==
    \/ \E path \in DirPaths : mount_filesystem(path) \/ unmount_filesystem(path) \/ open(path)
    \/ \E m \in Mountpoints, h \in Handles : clone_file_handle(m, h) \/ close(m, h)

MountsSpec == MountsInit /\ [][MountsNext]_mount_vars

----------------------------------------------------------------------------
\* What is mounted: the mountpoints some path leads to.
Mounted == {find_mountpoint(path).mount : path \in DirPaths} \ {NoMount}

\* An open file keeps its filesystem: its mountpoint is in use, some path still
\* leads there, and no directory is covered twice, so the path leads nowhere else.
OpenIsMounted ==
    /\ \A m \in Mountpoints : (\E h \in Handles : opened[m][h] > 0) => m \in Mounted
    /\ \A m \in Mounted :
          /\ mnt[m].used
          /\ mnt[m].refcount = Opened(m)
          /\ \A x, y \in ToSet(mnt[m].children) : x # y => mnt[x].handle # mnt[y].handle
=============================================================================
