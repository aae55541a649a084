------------------------------- MODULE Paths -------------------------------
(***************************************************************************)
(* vfs.c: how chdir turns a path into the working directory of a task.  A  *)
(* path is a sequence of tokens: slashes, dots, double dots and names.     *)
(***************************************************************************)
EXTENDS Naturals, Sequences, SequencesExt

CONSTANTS
    PathNames,   \* names of directories
    MaxTokens,   \* bound: tokens of a path
    MaxWd        \* bound: tokens of a working directory

ASSUME PathsAssumption == MaxTokens \in Nat /\ MaxWd \in Nat

Words == PathNames \cup {".", ".."}
Tokens == Words \cup {"/"}

\* Two words have a slash between them.
InputPaths ==
    {p \in UNION {[1 .. n -> Tokens] : n \in 0 .. MaxTokens} :
        \A i \in 1 .. Len(p) - 1 : p[i] = "/" \/ p[i + 1] = "/"}

VARIABLES
    wd,      \* current_task->wd
    steps    \* history: the words that lead to wd, as the caller means them

path_vars == <<wd, steps>>

PathsInit == wd = <<"/">> /\ steps = <<>>

\* Bound, here and in resolve_path: paths shorter than MAX_PATH, which cuts off
\* longer ones.
make_absolute(path) ==
    IF path # <<>> /\ Head(path) = "/" THEN path
    ELSE wd \o (IF Last(wd) = "/" THEN <<>> ELSE <<"/">>) \o path

RECURSIVE SkipSlashes(_)
SkipSlashes(p) == IF p # <<>> /\ Head(p) = "/" THEN SkipSlashes(Tail(p)) ELSE p

\* Back to the slash before the last component; a slash at the end goes first.
RECURSIVE ToSlash(_)
ToSlash(out) == IF Len(out) > 1 /\ Last(out) # "/" THEN ToSlash(Front(out)) ELSE out

\* Mutant: the slash at the end stays.
BacktrackOnce(out) == ToSlash(out)

Backtrack(out) == IF Len(out) > 1 /\ Last(out) = "/" THEN ToSlash(Front(out)) ELSE ToSlash(out)

\* The loop of resolve_path over what is left of the path.
RECURSIVE Resolve(_, _)
Resolve(path, out) ==
    IF path = <<>> THEN out
    ELSE IF Head(path) = "." THEN Resolve(Tail(path), out)
    ELSE IF Head(path) = ".."
    THEN LET rest == Tail(path)
         IN  Resolve(IF rest # <<>> /\ Head(rest) = "/" THEN Tail(rest) ELSE rest, Backtrack(out))
    ELSE LET slash == IF Last(out) = "/" THEN out ELSE Append(out, "/")
             name  == IF Head(path) = "/" THEN <<>> ELSE <<Head(path)>>
         IN  Resolve(SkipSlashes(IF name = <<>> THEN path ELSE Tail(path)), slash \o name)

resolve_path(path) == Resolve(SkipSlashes(path), <<"/">>)

\* What the words of a path mean: a double dot leads up, and the root is its own
\* parent.
Meant(from, path) ==
    FoldLeft(LAMBDA s, w : IF w \in {"/", "."} THEN s
                           ELSE IF w # ".." THEN Append(s, w)
                           ELSE IF s = <<>> THEN s ELSE Front(s), from, path)

\* chdir to a path that is a directory.
chdir(path) ==
    /\ Len(resolve_path(make_absolute(path))) <= MaxWd
    /\ wd' = resolve_path(make_absolute(path))
    /\ steps' = Meant(IF path # <<>> /\ Head(path) = "/" THEN <<>> ELSE steps, path)

PathsNext == \E path \in InputPaths : chdir(path)

PathsSpec == PathsInit /\ [][PathsNext]_path_vars

----------------------------------------------------------------------------
\* After any sequence of chdir the working directory is an absolute path without
\* dots or doubled slashes, and names the directory the words of the paths lead to.
WdIsMeant ==
    /\ Head(wd) = "/"
    /\ \A i \in 1 .. Len(wd) : wd[i] \notin {".", ".."}
    /\ \A i \in 1 .. Len(wd) - 1 : (wd[i] = "/") # (wd[i + 1] = "/")
    /\ SelectSeq(wd, LAMBDA t : t # "/") = steps
=============================================================================
