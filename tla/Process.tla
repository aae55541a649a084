------------------------------ MODULE Process ------------------------------
(***************************************************************************)
(* usermode/scheduler.c: the life of a task from fork to gc_tasks, the     *)
(* ring the scheduler walks, the tree of parents and children, waitpid,    *)
(* and the signals that end, stop and continue a task.                     *)
(*                                                                         *)
(* There is one processor.  A system call is not preempted, but interrupts *)
(* are on while it runs (syscalls.c), so the timer's check_blocked_tasks   *)
(* and the terminal's kill can fall between two of its assignments: pc is  *)
(* where in the kernel the current task is and whether interrupts are on.  *)
(* Signals have their default action here; handlers and masks are in       *)
(* Signals, process groups in Sessions.                                    *)
(***************************************************************************)
EXTENDS Integers, FiniteSets

CONSTANTS
    Tasks,           \* task_t structures
    InitTask,        \* init_task
    IdleTask,        \* idle_task, which is not in the ring
    NULL,
    MaxPid,          \* last_pid may not pass it (2147483647 in the source)
    MaxDelay,        \* bound: the longest sleep
    Worlds           \* what the processes do: see world

ASSUME ProcessAssumption ==
    /\ IsFiniteSet(Tasks) /\ InitTask \in Tasks
    /\ IdleTask \notin Tasks /\ NULL \notin Tasks \cup {IdleTask}
    /\ MaxPid \in Nat /\ MaxDelay \in Nat
    /\ Worlds \subseteq
          [tasks : SUBSET Tasks,       \* the structures that are used
           pids : 1 .. MaxPid,         \* bound: the last pid
           sigs : SUBSET {"TERM", "STOP", "CONT"},   \* signals that are sent
           options : SUBSET SUBSET {"WNOHANG", "WUNTRACED", "WCONTINUED"},
           statuses : SUBSET BOOLEAN,  \* is waitpid given a place for the status?
           delay : 0 .. MaxDelay,
           irq : BOOLEAN]              \* may an interrupt fall inside a call?

VARIABLES
    task,          \* task[t]: the structure
    current_task,
    rr_task,       \* where the scheduler looked last
    last_pid,
    pc,            \* what the current task does in the kernel
    world          \* chosen at the start: which calls are made, with what

vars == <<task, current_task, rr_task, last_pid, pc>>

States == {"FREE", "READY", "ZOMBIE", "RUNNING", "BLOCKED", "DELETED", "STOPPED"}
SYSCALL_WAITPID == 53
EINTR == -4
ESRCH == -3

\* The fields of task_t that matter here.  killed: a terminating signal is
\* pending.  wstatus: the pointer is not NULL.  rax: what the call the task is
\* in returns; asked: the argument of that call if it is waitpid, 0 otherwise.
Blank ==
    [state |-> "FREE", pid |-> 0, killed |-> FALSE,
     block_reason |-> "NONE", blocked_ticks |-> 0, blocked_process |-> NULL,
     wstatus |-> FALSE, waitpid_flags |-> {}, waitpid_event |-> 0,
     next |-> NULL, next_sibling |-> NULL, parent |-> NULL, child |-> NULL,
     rax |-> 0, asked |-> 0]

At(p) == pc.at = p

\* The points of the kernel the model stops at.  A system call runs with
\* interrupts on, an interrupt handler with interrupts off.
User == [at |-> "user", sti |-> TRUE]
Goto(p) == [at |-> p, sti |-> pc.sti]

Init ==
    /\ task = [t \in Tasks |->
                  IF t = InitTask
                  THEN [Blank EXCEPT !.state = "READY", !.pid = 1,
                                     !.next = t, !.parent = t]
                  ELSE Blank]
    /\ current_task = InitTask /\ rr_task = InitTask
    /\ last_pid = 1
    /\ pc = User
    /\ world \in Worlds

----------------------------------------------------------------------------
\* The nodes of the list that starts at x and is linked by field f.
Walk(T, f, x) ==
    LET succ == [y \in Tasks \cup {NULL} |-> IF y = NULL THEN NULL ELSE T[y][f]]
        at[n \in 0 .. Cardinality(Tasks)] == IF n = 0 THEN x ELSE succ[at[n - 1]]
    IN  at

\* The first node of that list that is in good, or NULL.
First(T, f, x, good) ==
    LET at   == Walk(T, f, x)
        hits == {n \in DOMAIN at : at[n] \in good}
    IN  IF hits = {} THEN NULL
        ELSE at[CHOOSE n \in hits : \A m \in hits : n <= m]

\* The list up to its end, as a set.
Nodes(T, f, x) ==
    LET at == Walk(T, f, x) IN {at[n] : n \in DOMAIN at} \ {NULL}

InUse(T) == {t \in Tasks : T[t].state # "FREE"}

\* Mutant: whoever points at a dead task goes on doing so.
SurvivorStays(T, dead, f, x) == x

\* x, or the first task behind it in its list that is not dead.
Survivor(T, dead, f, x) ==
    IF x \in dead THEN First(T, f, x, Tasks \ dead) ELSE x

\* A task that stays, out of every list that had one of dead in it.  Only the
\* lists of the parents of dead tasks are searched.
Unlinked(T, dead, t) ==
    [T[t] EXCEPT
        !.next = Survivor(T, dead, "next", @),
        !.next_sibling = Survivor(T, dead, "next_sibling", @),
        !.child = IF @ \in dead /\ T[@].parent = t
                  THEN Survivor(T, dead, "next_sibling", @) ELSE @]

\* gc_tasks: tasks that are STATE_DELETED leave the ring and the tree and are
\* freed; rr_task and current_task move on to a task that stays.
Gc(T) ==
    LET dead == {t \in Tasks \ {InitTask} : T[t].state = "DELETED"}
    IN  /\ current_task' = Survivor(T, dead, "next", current_task)
        /\ rr_task' = Survivor(T, dead, "next", rr_task)
        /\ task' = [t \in Tasks |->
                       IF t \in dead THEN Blank ELSE Unlinked(T, dead, t)]

Preempted(T, t) ==
    IF t = current_task /\ T[t].state = "RUNNING"
    THEN [T[t] EXCEPT !.state = "READY"] ELSE T[t]

\* run_next up to switch_task.
run_next(T) ==
    /\ pc' = Goto("switch")
    /\ UNCHANGED last_pid
    /\ \E U \in {[t \in Tasks |-> Preempted(T, t)]} : Gc(U)

\* A call that goes straight to switch_task.
SwitchAway(T) ==
    /\ task' = T
    /\ pc' = Goto("switch")
    /\ UNCHANGED <<current_task, rr_task>>

\* A call that returns r to the end of syscall.
Return(T, r) ==
    /\ task' = [T EXCEPT ![current_task].rax = r]
    /\ pc' = Goto("tail")
    /\ UNCHANGED <<current_task, rr_task, last_pid>>

----------------------------------------------------------------------------
\* Mutant: the search starts over at init, not where it stopped.
SearchFromInit == InitTask

SearchFrom == rr_task

\* switch_task with get_next_task: the first ready task after the one found
\* last, or idle.  deliver_signals makes a task with a terminating signal exit
\* before it runs.
switch_task ==
    LET next == First(task, "next", task[SearchFrom].next,
                      {y \in Tasks : task[y].state = "READY"})
    IN  /\ At("switch")
        /\ \/ /\ next = NULL
              /\ current_task' = IdleTask
              /\ pc' = User
              /\ UNCHANGED <<task, rr_task>>
           \/ /\ next # NULL
              /\ current_task' = next /\ rr_task' = next
              /\ task' = [task EXCEPT ![next].state = "RUNNING",
                                      ![next].killed = FALSE]
              /\ pc' = IF task[next].killed THEN Goto("exit") ELSE User
        /\ UNCHANGED last_pid

\* The end of syscall: leave when the slice is used up or the task does not
\* run any more, otherwise deliver_signals.
syscall_end ==
    LET c == current_task
    IN  /\ At("tail")
        /\ \/ run_next(task)
           \/ /\ task[c].state # "BLOCKED" /\ task[c].killed
              /\ task' = [task EXCEPT ![c].killed = FALSE]
              /\ pc' = Goto("exit")
              /\ UNCHANGED <<current_task, rr_task, last_pid>>
           \/ /\ task[c].state = "RUNNING" /\ ~task[c].killed
              /\ pc' = User
              /\ UNCHANGED <<task, current_task, rr_task, last_pid>>

\* exit, first half: the descriptors go (FileDescriptors), the task is a
\* zombie.  Init does not exit: that is a panic.
exit_zombie ==
    /\ At("exit") /\ current_task # InitTask
    /\ task' = [task EXCEPT ![current_task].state = "ZOMBIE"]
    /\ pc' = Goto("zombie")
    /\ UNCHANGED <<current_task, rr_task, last_pid>>

\* Mutant: the children keep their parent.
AdoptNobody(T, t, new) == T

\* The children of t, first to last, are put in front of those of new.
Adopt(T, t, new) ==
    LET at   == Walk(T, "next_sibling", T[t].child)
        kids == {n \in DOMAIN at : at[n] # NULL}
        last == CHOOSE n \in kids : \A m \in kids : m <= n
    IN  [x \in Tasks |->
            IF kids = {} THEN T[x]
            ELSE LET y == IF x = new THEN [T[x] EXCEPT !.child = at[last]]
                          ELSE T[x]
                 IN  IF \E n \in kids : at[n] = x
                     THEN LET n == CHOOSE n \in kids : at[n] = x
                          IN  [y EXCEPT !.parent = new, !.next_sibling =
                                  IF n = 0 THEN T[new].child ELSE at[n - 1]]
                     ELSE y]

\* exit, second half: the children go to init.
exit_reparent ==
    /\ At("zombie")
    /\ SwitchAway(Adopt(task, current_task, InitTask))
    /\ UNCHANGED last_pid

----------------------------------------------------------------------------
\* System calls of the current task.
Free(q) == q \in world.tasks /\ task[q].state = "FREE"

InUser == At("user") /\ current_task \in Tasks /\ task[current_task].asked = 0

exit == /\ InUser /\ current_task # InitTask
        /\ pc' = Goto("exit")
        /\ UNCHANGED <<task, current_task, rr_task, last_pid>>

\* Mutant: the pid is taken but not counted.
NewPidUncounted == last_pid' \in {last_pid, last_pid + 1}

NewPid == last_pid' = last_pid + 1

\* A copy of the current task, linked behind p in the ring and as the first
\* child of p.
Linked(q, p, pid) ==
    [task EXCEPT
        ![q] = [task[current_task] EXCEPT
                   !.state = "READY", !.pid = pid, !.child = NULL, !.parent = p,
                   !.next = task[p].next, !.next_sibling = task[p].child],
        ![p].next = q, ![p].child = q]

\* fork and spawn: a new child, then another task runs.
fork(q) ==
    /\ InUser /\ last_pid < world.pids /\ Free(q)
    /\ SwitchAway([Linked(q, current_task, last_pid + 1)
                      EXCEPT ![current_task].state = "READY"])
    /\ NewPid

\* spawn that fails in add_task: the pid is used up.
spawn_fails ==
    /\ InUser /\ last_pid < world.pids
    /\ NewPid
    /\ pc' = Goto("tail")
    /\ UNCHANGED <<task, current_task, rr_task>>

\* Mutant: whoever waits for the old structure goes on doing so.
RedirectNobody(T, c, q) == T

\* Whoever waits for c waits for q.
Redirect(T, c, q) ==
    [t \in Tasks |-> IF T[t].blocked_process = c
                     THEN [T[t] EXCEPT !.blocked_process = q] ELSE T[t]]

\* execve: a new structure with the same pid takes the place of the old one,
\* for whoever waits for it and for its children.  Init does not call it.
execve(q) ==
    LET c == current_task
        T == Redirect(Linked(q, task[c].parent, task[c].pid), c, q)
    IN  /\ InUser /\ c # InitTask /\ Free(q)
        /\ SwitchAway(Adopt([T EXCEPT ![c].state = "DELETED"], c, q))
        /\ UNCHANGED last_pid

sleep(ms) ==
    /\ InUser
    /\ run_next([task EXCEPT ![current_task].state = "BLOCKED",
                             ![current_task].block_reason = "DELAY",
                             ![current_task].blocked_ticks = ms])

\* yield, and a call that does nothing here (sleep(0), execve that fails).
yield == InUser /\ run_next(task)

other_call ==
    /\ InUser
    /\ pc' = Goto("tail")
    /\ UNCHANGED <<task, current_task, rr_task, last_pid>>

\* What waitpid can report about c.
Reportable(T, c, flags) ==
    \/ T[c].state = "ZOMBIE"
    \/ "WUNTRACED" \in flags /\ T[c].waitpid_event = 1
    \/ "WCONTINUED" \in flags /\ T[c].waitpid_event = 2

get_child(t, pid) ==
    First(task, "next_sibling", task[t].child,
          {c \in Tasks : task[c].state # "DELETED" /\ task[c].pid = pid})

get_first_waitpid_target(T, t, flags) ==
    First(T, "next_sibling", T[t].child, {c \in Tasks : Reportable(T, c, flags)})

\* waitpid(pid > 0) and, as -1, waitpid for any child.  It reports at once, or
\* returns, or starts to wait.
waitpid(pid, flags, ws) ==
    LET c      == current_task
        named  == get_child(c, pid)
        target == IF pid > 0
                  THEN IF named # NULL /\ Reportable(task, named, flags)
                       THEN named ELSE NULL
                  ELSE get_first_waitpid_target(task, c, flags)
        T      == [task EXCEPT ![c].asked = pid]
    IN  /\ InUser
        /\ \/ /\ pid > 0 /\ named = NULL
              /\ Return(T, ESRCH)
           \/ /\ target # NULL
              /\ Return(IF task[target].state = "ZOMBIE"
                        THEN [T EXCEPT ![target].state = "DELETED"]
                        ELSE [T EXCEPT ![target].waitpid_event = 0],
                        task[target].pid)
           \/ /\ target = NULL /\ (pid > 0 => named # NULL)
              /\ \/ "WNOHANG" \in flags /\ Return(T, 0)
                 \/ "WNOHANG" \notin flags /\ task[c].killed /\ Return(T, EINTR)
                 \/ /\ "WNOHANG" \notin flags /\ ~task[c].killed
                    /\ task' = [T EXCEPT ![c].state = "BLOCKED",
                                         ![c].block_reason = "WAITPID",
                                         ![c].rax = SYSCALL_WAITPID]
                    /\ pc' = [at |-> "waitpid", sti |-> TRUE, flags |-> flags, ws |-> ws,
                              child |-> IF pid > 0 THEN named ELSE NULL]
                    /\ UNCHANGED <<current_task, rr_task, last_pid>>

\* The rest of waitpid: only now the timer can know what is waited for.
waitpid_block ==
    /\ At("waitpid")
    /\ run_next([task EXCEPT ![current_task].blocked_process = pc.child,
                             ![current_task].wstatus = pc.ws,
                             ![current_task].waitpid_flags = pc.flags])

\* The program looks at what waitpid returned.
take_result ==
    /\ At("user") /\ current_task \in Tasks /\ task[current_task].asked # 0
    /\ task' = [task EXCEPT ![current_task].asked = 0, ![current_task].rax = 0]
    /\ UNCHANGED <<current_task, rr_task, last_pid, pc>>

----------------------------------------------------------------------------
StateAfter(t, sig) ==
    IF sig = "STOP" THEN "STOPPED"
    ELSE IF sig = "CONT" /\ task[t].state = "STOPPED" THEN "READY"
    ELSE task[t].state

\* signal_task for the tasks S.  SIGCHLD for the parent is ignored by default.
Signalled(S, sig) ==
    [t \in Tasks |->
        IF t \notin S THEN task[t]
        ELSE [task[t] EXCEPT
                 !.killed = @ \/ sig = "TERM",
                 !.state = StateAfter(t, sig),
                 !.waitpid_event =
                     IF sig = "STOP" /\ task[t].state # "STOPPED" THEN 1
                     ELSE IF sig = "CONT" /\ task[t].state = "STOPPED" THEN 2
                     ELSE @]]

\* The sets of tasks a kill may find: the task of a pid, a process group, or
\* all tasks.  A terminating signal for init would be a panic, and a second
\* stop signal for a stopped task is not sent (it would stay pending).
Targets(sig) ==
    SUBSET {t \in InUse(task) : /\ task[t].state # "DELETED"
                                /\ sig = "TERM" => t # InitTask
                                /\ sig = "STOP" => task[t].state # "STOPPED"}
        \ {{}}

kill(sig) ==
    /\ InUser
    /\ \E S \in Targets(sig) : task' = Signalled(S, sig)
    /\ pc' = Goto("tail")
    /\ UNCHANGED <<current_task, rr_task, last_pid>>

\* Interrupts come in user mode, and inside calls when that is not ruled out.
Interruptible == At("user") \/ (world.irq /\ pc.sti)

\* The end of interrupt_handler: in user mode, deliver_signals.
interrupt_end(T) ==
    LET c    == current_task
        dies == At("user") /\ c \in Tasks /\ T[c].killed
    IN  /\ UNCHANGED <<current_task, rr_task, last_pid>>
        /\ pc' = IF dies THEN [at |-> "exit", sti |-> FALSE] ELSE pc
        /\ task' = IF dies THEN [T EXCEPT ![c].killed = FALSE] ELSE T

\* kill from the interrupt handler of the keyboard or the serial line.
irq_kill(sig) ==
    /\ Interruptible
    /\ \E S \in Targets(sig) : interrupt_end(Signalled(S, sig))

\* Mutant: any child will do.
TargetAny(T, t) == get_first_waitpid_target(T, t, T[t].waitpid_flags)

\* Whom a task that is blocked in waitpid can be told about.
Target(T, t) ==
    LET b == T[t].blocked_process
    IN  IF b = NULL THEN get_first_waitpid_target(T, t, T[t].waitpid_flags)
        ELSE IF Reportable(T, b, T[t].waitpid_flags) THEN b ELSE NULL

Waiting(T) == {t \in InUse(T) : /\ T[t].state = "BLOCKED"
                                /\ T[t].block_reason = "WAITPID"}

Woken(r) == [r EXCEPT !.state = "READY", !.block_reason = "NONE"]

\* Mutant: nobody is looked at.
CheckedNobody(T) == T

\* check_blocked_tasks(1).  Different tasks wait for different children, so
\* all of them can be looked at together.  A zombie that a task without a
\* status pointer finds among its children is reported but not deleted.
Checked(T) ==
    [t \in Tasks |->
        LET tellers == {w \in Waiting(T) : Target(T, w) = t}
            told    == IF tellers = {} THEN T[t]
                       ELSE IF T[t].state # "ZOMBIE"
                       THEN [T[t] EXCEPT !.waitpid_event = 0]
                       ELSE IF \E w \in tellers : T[w].blocked_process = t
                                                  \/ T[w].wstatus
                       THEN [T[t] EXCEPT !.state = "DELETED"]
                       ELSE T[t]
            target  == Target(T, t)
        IN  CASE t \in Waiting(T) /\ target # NULL ->
                    [Woken(told) EXCEPT !.rax = T[target].pid,
                                        !.blocked_process = NULL]
              [] t \in Waiting(T) /\ target = NULL /\ T[t].killed ->
                    [Woken(told) EXCEPT !.rax = EINTR, !.blocked_process = NULL]
              [] T[t].state = "BLOCKED" /\ T[t].block_reason = "DELAY" ->
                    LET left == IF T[t].killed THEN 0 ELSE T[t].blocked_ticks - 1
                    IN  IF left = 0
                        THEN [Woken(told) EXCEPT !.blocked_ticks = 0]
                        ELSE [told EXCEPT !.blocked_ticks = left]
              [] OTHER -> told]

\* irq0_handler while the slice lasts, or inside a system call.
irq_tick == Interruptible /\ \E T \in {Checked(task)} : interrupt_end(T)

\* irq0_handler when the slice of the current task is used up, in user mode.
irq_preempt ==
    /\ At("user")
    /\ pc' = [at |-> "switch", sti |-> FALSE]
    /\ UNCHANGED last_pid
    /\ \E T \in {Checked(task)} : \E U \in {[t \in Tasks |-> Preempted(T, t)]} : Gc(U)

Step ==
    \/ switch_task \/ syscall_end \/ exit_zombie \/ exit_reparent
    \/ exit \/ spawn_fails \/ yield \/ other_call \/ waitpid_block \/ take_result
    \/ \E q \in Tasks : fork(q) \/ execve(q)
    \/ \E ms \in 1 .. world.delay : sleep(ms)
    \/ \E pid \in {-1} \cup 2 .. last_pid, flags \in world.options, ws \in world.statuses :
          waitpid(pid, flags, ws)
    \/ \E sig \in world.sigs : kill(sig) \/ irq_kill(sig)
    \/ irq_tick \/ irq_preempt

Next == Step /\ UNCHANGED world

Spec == Init /\ [][Next]_<<vars, world>>

\* The processor goes on inside the kernel.
InKernel == \/ switch_task \/ syscall_end
            \/ exit_zombie \/ exit_reparent \/ waitpid_block

\* ticks_remaining runs out, in user mode or inside a call.
slice_ends == irq_preempt \/ (At("tail") /\ run_next(task))

\* The timer ticks at 1 kHz, and ticks_remaining falls in the kernel too: a
\* task that keeps making calls is caught at the end of one of them.
FairSpec == /\ Spec /\ WF_vars(InKernel)
            /\ SF_vars(irq_tick) /\ SF_vars(slice_ends)

----------------------------------------------------------------------------
Gone == {"FREE", "ZOMBIE", "DELETED"}

\* The ring that the scheduler, kill and the timer walk holds every task and
\* nothing else, whatever order tasks are linked in, replaced by execve and
\* unlinked by gc_tasks; current_task and rr_task never point at a freed task.
RingIsWhole ==
    /\ rr_task \in InUse(task) /\ current_task \in InUse(task) \cup {IdleTask}
    /\ Nodes(task, "next", InitTask) = InUse(task)
    /\ \A t \in InUse(task) : task[t].next \in InUse(task)
    /\ \A s, t \in InUse(task) : task[s].next = task[t].next => s = t

\* No task is stopped.  signal_task stops blocked tasks and zombies too, and
\* SIGCONT makes them ready: a zombie that runs again has a list of children
\* that are init's by now.
Unstopped == "STOP" \notin world.sigs

\* The list of children of a task that can still run is exactly the set of the
\* tasks that name it as their parent, it ends, and every task has a parent
\* that can run (or is just handing its children over to init), as long as no
\* signal stops a task.
TreeMatchesParents ==
    Unstopped => \A p \in InUse(task) :
        /\ task[p].parent \in InUse(task)
        /\ task[task[p].parent].state \in Gone =>
               At("zombie") /\ current_task = task[p].parent
        /\ task[p].state \notin Gone =>
               /\ Nodes(task, "next_sibling", task[p].child) =
                     {t \in InUse(task) \ {InitTask} : task[t].parent = p}
               /\ Walk(task, "next_sibling", task[p].child)[Cardinality(Tasks)]
                     = NULL

\* A pid names one task: the structure execve replaced is deleted when the
\* new one with its pid can be found, and no pid is given twice.
PidNamesOneTask ==
    \A s, t \in InUse(task) :
        task[s].pid = task[t].pid /\ s # t =>
            "DELETED" \in {task[s].state, task[t].state}

\* t is not just between two assignments of waitpid.
Settled(t) == ~(At("waitpid") /\ current_task = t)

\* A task blocked in waitpid for one child points at a structure that is that
\* child now, also after the child called execve, as long as no signal stops a
\* task.
WaitsForItsChild ==
    Unstopped => \A t \in Waiting(task) :
        Settled(t) /\ task[t].blocked_process # NULL =>
            LET b == task[t].blocked_process
            IN  /\ task[b].state \notin {"FREE", "DELETED"}
                /\ task[b].parent = t /\ task[b].pid = task[t].asked

\* When waitpid for one child is back in the program, what it returned is that
\* child's pid, 0, or an error.
WaitpidAnswersAsked ==
    At("user") /\ current_task \in Tasks /\ task[current_task].asked > 0 =>
        task[current_task].rax \in {task[current_task].asked, 0, EINTR, ESRCH}

\* The same as long as no signal stops a task and no interrupt splits waitpid,
\* for every order of exits, kills and waits.
CalmWaitpidAnswersAsked ==
    Unstopped /\ ~world.irq => WaitpidAnswersAsked

\* A ready task gets the processor, whatever the others do.
ReadyTaskRuns ==
    \A t \in Tasks : task[t].state = "READY" ~> task[t].state # "READY"

\* A task waits in waitpid no longer than until the timer sees the child it
\* can be told about: no order of exit, reparenting and blocking loses it.
WaiterIsTold ==
    \A t \in Tasks :
        (t \in Waiting(task) /\ Settled(t) /\ Target(task, t) # NULL)
            ~> t \notin Waiting(task)

\* A terminating signal ends a task wherever it is: running, ready, asleep or
\* waiting.
KilledTaskExits ==
    \A t \in Tasks : task[t].killed ~> task[t].state \in Gone
=============================================================================
