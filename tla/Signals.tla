------------------------------ MODULE Signals ------------------------------
(***************************************************************************)
(* deliver_signals and sigreturn of usermode/scheduler.c for one process:  *)
(* handlers, the mask, the saved context and the trampoline that a handler *)
(* returns to.  A context (iframe_t) is the list of the user functions     *)
(* that are active, the running one last.                                  *)
(***************************************************************************)
EXTENDS Naturals, Sequences, FiniteSets, SequencesExt

CONSTANTS
    Sigs,        \* signal numbers
    SIGKILL,     \* the one that cannot be caught or masked
    Programs,    \* sets of signals: those a program may install a handler for
    Terminate,   \* signals whose default action is SIGNAL_TERMINATE
    MaxDepth     \* bound: no signal is sent with more functions active

ASSUME SignalsAssumption ==
    /\ Sigs \subseteq 1 .. 31 /\ Programs \subseteq SUBSET (Sigs \ {SIGKILL})
    /\ Terminate \subseteq Sigs /\ MaxDepth \in Nat

VARIABLES handler, pending_signals, signal_mask, in_signal, iframe,
          signal_interrupted_iframe, mode,
          caught   \* chosen at the start, one of Programs

signal_vars == <<handler, pending_signals, signal_mask, in_signal, iframe,
          signal_interrupted_iframe, mode>>

\* Code addresses: a handler has the number of its signal.
MAIN == 0
TRAMPOLINE == 32
UD2 == 33

SignalInit ==
    /\ handler = [s \in Sigs |-> "SIG_DFL"]
    /\ pending_signals = {} /\ signal_mask = {}
    /\ in_signal = FALSE
    /\ iframe = <<MAIN>> /\ signal_interrupted_iframe = <<>>
    /\ mode = "user"    \* user, kernel (asleep inside a call) or dead
    /\ caught \in Programs

----------------------------------------------------------------------------
\* has_pending_signals: is there one that is not ignored?
has_pending_signals ==
    /\ ~in_signal
    /\ \E s \in pending_signals \ signal_mask :
          /\ handler[s] # "SIG_IGN"
          /\ handler[s] = "SIG_DFL" => s \in Terminate

\* Mutant: the interrupted context is not saved.
EnterUnsaved(p, s) ==
    [p EXCEPT !.pending = @ \ {s}, !.frame = Append(@, s), !.in = TRUE]

\* A handler is entered on top of the context that is saved.
Enter(p, s) ==
    [p EXCEPT !.pending = @ \ {s}, !.frame = Append(@, s),
              !.saved = p.frame, !.in = TRUE]

Deliverable(pending) == pending \ signal_mask'

\* One turn of the loop of deliver_signals; m is the mode of the context.
Turn(p, s, m) ==
    IF p.dead THEN p
    ELSE IF handler'[s] = "SIG_DFL"
    THEN [p EXCEPT !.pending = @ \ {s}, !.dead = s \in Terminate]
    ELSE IF handler'[s] = "SIG_IGN" THEN [p EXCEPT !.pending = @ \ {s}]
    ELSE IF m = "kernel" THEN p
    ELSE Enter(p, s)

\* deliver_signals, on the way back to context f, with pending signals q; the
\* call it ends has set the handlers and the mask.
deliver_signals(q, in, f, saved, m) ==
    LET start == [pending |-> q, frame |-> f, saved |-> saved, in |-> in, dead |-> FALSE]
        deliverable == IF in THEN {} ELSE Deliverable(q)
        loop[s \in 0 .. 31] == IF s = 0 THEN start
                               ELSE IF s \notin deliverable THEN loop[s - 1]
                               ELSE Turn(loop[s - 1], s, m)
        end == loop[31]
    IN  /\ pending_signals' = end.pending
        /\ in_signal' = end.in
        /\ iframe' = end.frame
        /\ signal_interrupted_iframe' = end.saved
        /\ mode' = IF end.dead THEN "dead" ELSE m

\* The same, for a call or an interrupt that leaves the context alone.
Back(q, m) == deliver_signals(q, in_signal, iframe, signal_interrupted_iframe, m)

----------------------------------------------------------------------------
Running == mode = "user" /\ Last(iframe) \notin {TRAMPOLINE, UD2}

\* Another process or an interrupt sends a signal; it is delivered later.
signal_task(s) ==
    /\ mode # "dead" /\ Len(iframe) <= MaxDepth
    /\ pending_signals' = pending_signals \cup {s}
    /\ UNCHANGED <<handler, signal_mask, in_signal, iframe,
                   signal_interrupted_iframe, mode>>

\* An interrupt in user mode, or switch_task: both deliver.
interrupt ==
    /\ mode # "dead"
    /\ UNCHANGED <<handler, signal_mask>>
    /\ Back(pending_signals, mode)

raise(s) ==
    /\ Running /\ Len(iframe) <= MaxDepth
    /\ UNCHANGED <<handler, signal_mask>>
    /\ Back(pending_signals \cup {s}, mode)

sigaction(s, h) ==
    /\ Running
    /\ handler' = [handler EXCEPT ![s] = h]
    /\ UNCHANGED signal_mask
    /\ Back(pending_signals, mode)

\* Mutant: every signal can be masked.
MaskableAny(set) == set

Maskable(set) == set \ {SIGKILL}

\* sigprocmask with SIG_SETMASK; the others are unions and differences with it.
sigprocmask(set) ==
    /\ Running
    /\ signal_mask' = Maskable(set)
    /\ UNCHANGED handler
    /\ Back(pending_signals, mode)

\* A blocking call: asleep in the kernel, and back with its result or -EINTR.
block ==
    /\ Running /\ ~has_pending_signals
    /\ mode' = "kernel"
    /\ UNCHANGED <<handler, pending_signals, signal_mask, in_signal, iframe,
                   signal_interrupted_iframe>>

unblock ==
    /\ mode = "kernel"
    /\ UNCHANGED <<handler, signal_mask>>
    /\ Back(pending_signals, "user")

\* A handler returns to the trampoline.
handler_return ==
    /\ Running /\ Last(iframe) # MAIN
    /\ iframe' = Append(Front(iframe), TRAMPOLINE)
    /\ UNCHANGED <<handler, pending_signals, signal_mask, in_signal,
                   signal_interrupted_iframe, mode>>

\* The trampoline calls sigreturn: back to the saved context, or -EINVAL and
\* on to the instruction behind the call.
sigreturn ==
    /\ mode = "user" /\ Last(iframe) = TRAMPOLINE
    /\ UNCHANGED <<handler, signal_mask>>
    /\ \/ /\ in_signal
          /\ deliver_signals(pending_signals, FALSE, signal_interrupted_iframe,
                             signal_interrupted_iframe, mode)
       \/ /\ ~in_signal
          /\ deliver_signals(pending_signals, FALSE,
                             Append(Front(iframe), UD2),
                             signal_interrupted_iframe, mode)

SignalNext ==
  /\ UNCHANGED caught
  /\ \/ interrupt \/ block \/ unblock \/ handler_return \/ sigreturn
     \/ \E s \in Sigs : signal_task(s) \/ raise(s)
     \/ \E s \in caught, h \in {"SIG_DFL", "SIG_IGN", "handler"} : sigaction(s, h)
     \/ \E set \in SUBSET Sigs : sigprocmask(set)

SignalSpec == SignalInit /\ [][SignalNext]_<<signal_vars, caught>>

----------------------------------------------------------------------------
\* What a handler interrupted is what sigreturn goes back to: the context the
\* handler runs on top of is the one that is saved, and outside a handler the
\* program is back in the function that was interrupted, as long as it catches
\* one signal.
ReturnsToInterrupted ==
    mode # "dead" /\ Cardinality(caught) <= 1 =>
        IF in_signal THEN Front(iframe) = signal_interrupted_iframe
        ELSE iframe = <<MAIN>>

\* SIGKILL cannot be caught, ignored or put off by a mask: whatever handlers
\* and masks the program installs, the process ends, if every handler it enters
\* comes back.  Nothing is delivered while in_signal: a handler that does not
\* return keeps the process alive.
KillEnds == []<>(~in_signal) => ((SIGKILL \in pending_signals) ~> (mode = "dead"))
=============================================================================
