------------------------------ MODULE MCFiles ------------------------------
(***************************************************************************)
(* The layers of the file system and libc's streams above them, each on a  *)
(* small instance.  A behaviour exercises one of them: part.               *)
(***************************************************************************)
EXTENDS Fat, Ramfs, Mounts, Paths, Stdio, TLC

VARIABLE part

\* Within the first cluster, across its end, the second one, and the third one,
\* which the others may have left out.
FewWrites == {<<0, 1>>, <<1, 2>>, <<2, 2>>, <<4, 1>>}

\* The end of a line, alone and with the start of the next.
LineTexts == {<<2>>, <<2, 1>>}

NearOffsets == {-1, 0, 1}

all_vars == <<part, fat_vars, ramfs_vars, mount_vars, path_vars, stdio_vars>>

Init ==
    /\ part \in {"fat", "ramfs", "mounts", "paths", "stdio"}
    /\ FatInit /\ RamfsInit /\ MountsInit /\ PathsInit /\ StdioInit
    /\ part = "fat" \/ last_free = 2
    /\ part = "stdio" \/ ~io.partial

Next ==
    /\ UNCHANGED part
    /\ \/ part = "fat" /\ FatNext
       \/ part = "ramfs" /\ RamfsNext
       \/ part = "mounts" /\ MountsNext
       \/ part = "paths" /\ PathsNext
       \/ part = "stdio" /\ StdioNext
    /\ part # "fat" => UNCHANGED fat_vars
    /\ part # "ramfs" => UNCHANGED ramfs_vars
    /\ part # "mounts" => UNCHANGED mount_vars
    /\ part # "paths" => UNCHANGED path_vars
    /\ part # "stdio" => UNCHANGED stdio_vars

Spec == Init /\ [][Next]_all_vars

\* Which name or directory is which does not matter.
Symmetry == Permutations(Names) \cup Permutations(Dirs)

\* What a call told is not read by the next one, and neither is what lies in the
\* buffer of a stream outside its bounds.
View == <<part, fat_vars, ramfs_vars, mount_vars, path_vars,
          [io EXCEPT !.buffer = SubSeq(@, 1, Max({io.bufidx, io.bufend}))]>>

\* Only the FAT volume.
SpecFat == Init /\ part = "fat" /\ [][Next]_all_vars
=============================================================================
