--------------------------- MODULE AddressSpaces ---------------------------
(***************************************************************************)
(* What memory/paging.c promises to the rest of the kernel: every process  *)
(* has a private image of its pages, fork copies the image of the parent,  *)
(* the upper half is one image shared by all, and one page (the vvar page) *)
(* shows the same clock to every process that maps it.  No frames, no      *)
(* reference counts, no copy on write: Paging refines this module.         *)
(***************************************************************************)
CONSTANTS
    Procs,        \* address spaces a process may own
    Kernel,       \* the upper half, shared by every address space
    UserPages,    \* virtual pages below 0x0000800000000000
    KernelPages,  \* virtual pages above
    Values,       \* what a page may hold
    Zero,         \* a page of zeroes
    Unmapped,     \* no page is mapped there
    Vvar          \* the vvar page is mapped there

VARIABLES
    image,        \* image[<<s, p>>]: what page p of space s holds
    alive,        \* the address spaces that exist
    current,      \* the address space the processor runs in
    clock         \* what the vvar page holds

specVars == <<image, alive, current, clock>>

Places == (Procs \X UserPages) \cup ({Kernel} \X KernelPages)

InitSpec ==
    /\ \E s \in Procs : alive = {s} /\ current = s
    /\ image = [r \in Places |-> Unmapped]
    /\ clock = Zero

\* A new, empty address space.
CreateSpec(t) ==
    /\ t \notin alive
    /\ alive' = alive \cup {t}
    /\ UNCHANGED <<image, current, clock>>

\* fork: the child starts with a copy of everything the parent has.
ForkSpec(t) ==
    /\ t \notin alive
    /\ alive' = alive \cup {t}
    /\ image' = [r \in Places |->
                    IF r[1] = t THEN image[<<current, r[2]>>] ELSE image[r]]
    /\ UNCHANGED <<current, clock>>

DestroySpec(t) ==
    /\ t \in alive \ {current}
    /\ alive' = alive \ {t}
    /\ image' = [r \in Places |-> IF r[1] = t THEN Unmapped ELSE image[r]]
    /\ UNCHANGED <<current, clock>>

SwitchSpec(t) ==
    /\ t \in alive
    /\ current' = t
    /\ UNCHANGED <<image, alive, clock>>

\* R becomes mapped and every page of it reads v.
MapSpec(s, R, v) ==
    /\ \A p \in R : image[<<s, p>>] = Unmapped
    /\ image' = [r \in Places |->
                    IF r[1] = s /\ r[2] \in R THEN v ELSE image[r]]
    /\ UNCHANGED <<alive, current, clock>>

UnmapSpec(s, R) ==
    /\ image' = [r \in Places |->
                    IF r[1] = s /\ r[2] \in R THEN Unmapped ELSE image[r]]
    /\ UNCHANGED <<alive, current, clock>>

\* A store changes one page of one image and nothing else.
WriteSpec(r, v) ==
    /\ image[r] \in Values
    /\ image' = [image EXCEPT ![r] = v]
    /\ UNCHANGED <<alive, current, clock>>

TickSpec(v) ==
    /\ clock' = v
    /\ UNCHANGED <<image, alive, current>>

NextSpec ==
    \/ \E t \in Procs :
          CreateSpec(t) \/ ForkSpec(t) \/ DestroySpec(t) \/ SwitchSpec(t)
    \/ \E R \in SUBSET UserPages :
          \/ \E v \in Values \cup {Vvar} : MapSpec(current, R, v)
          \/ UnmapSpec(current, R)
    \/ \E R \in SUBSET KernelPages :
          \/ \E v \in Values : MapSpec(Kernel, R, v)
          \/ UnmapSpec(Kernel, R)
    \/ \E r \in Places, v \in Values :
          r[1] \in {current, Kernel} /\ WriteSpec(r, v)
    \/ \E v \in Values : TickSpec(v)

AddressSpacesSpec == InitSpec /\ [][NextSpec]_specVars
=============================================================================
