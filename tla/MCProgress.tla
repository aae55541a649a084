----------------------------- MODULE MCProgress -----------------------------
(***************************************************************************)
(* What must happen in the end, in parts of the kernel that share no       *)
(* state: a behaviour exercises one of them, part.                         *)
(***************************************************************************)
EXTENDS Signals, Tty, Pipe, Arp

VARIABLE part

signals == <<signal_vars, caught>>
all_vars == <<part, signals, tty_vars, pipe_vars, arp_vars>>

Init ==
    /\ part \in {"signals", "tty", "pipe", "arp"}
    /\ SignalInit /\ TtyInit /\ PipeInit /\ ArpInit
    /\ part = "signals" \/ caught = CHOOSE c \in Programs : TRUE

Next ==
    /\ UNCHANGED part
    /\ \/ part = "signals" /\ SignalNext
       \/ part = "tty" /\ TtyNext
       \/ part = "pipe" /\ PipeNext
       \/ part = "arp" /\ ArpNext
    /\ part # "signals" => UNCHANGED signals
    /\ part # "tty" => UNCHANGED tty_vars
    /\ part # "pipe" => UNCHANGED pipe_vars
    /\ part # "arp" => UNCHANGED arp_vars

\* The timer's interrupts keep coming.  The scheduler is round-robin: a process
\* inside a call runs again and again.  Of programs nothing is assumed.
Fairness ==
    /\ WF_signal_vars(part = "signals" /\ interrupt)
    /\ WF_tty_vars(part = "tty" /\ tty_read)
    /\ \A p \in Procs : WF_pipe_vars(part = "pipe" /\ resume(p))
    /\ SF_arp_vars(part = "arp" /\ ArpStep(Observed))
    /\ \A c \in Callers \ {Observed} : WF_arp_vars(part = "arp" /\ ArpStep(c))

Spec == Init /\ [][Next]_all_vars /\ Fairness

\* A program that catches two signals.
MCPrograms == {{10, 17}}
=============================================================================
