---------------------------- MODULE ProcessProofs ---------------------------
(***************************************************************************)
(* The steps that change the lists of the scheduler (exit, fork, execve)   *)
(* and waitpid keep the invariant of ProcessSteps, and what follows from   *)
(* it.                                                                     *)
(***************************************************************************)
EXTENDS ProcessSteps

----------------------------------------------------------------------------
(* The rest of waitpid, and exit.                                          *)

LEMMA WaitpidBlockStep ==
    ASSUME ProcInv, UNCHANGED world, waitpid_block
    PROVE  ProcInv'
<1> DEFINE c == current_task
           k == pc.child
           T == [task EXCEPT ![c].blocked_process = pc.child, ![c].wstatus = pc.ws,
                             ![c].waitpid_flags = pc.flags]
           y == task[c]
           z == [y EXCEPT !.blocked_process = k, !.wstatus = pc.ws, !.waitpid_flags = pc.flags]
<1>1. At("waitpid") /\ run_next(T)
  BY Zenon DEF waitpid_block
<1>2. Handing = NULL /\ Between = c /\ Wanted = k
  BY <1>1, Zenon DEF At, Handing, Between, Wanted
<1>3. /\ world \in Worlds /\ last_pid \in Nat /\ Kept(task, last_pid, NULL, c, k)
      /\ ~world.irq => Answers(task, c, k)
      /\ k \in TaskOrNull /\ pc.ws \in BOOLEAN
      /\ pc.flags \in SUBSET {"WNOHANG", "WUNTRACED", "WCONTINUED"}
      /\ rr_task \in InUse(task) /\ c \in InUse(task)
  BY <1>1, <1>2, Zenon DEF ProcInv, Runs, At
<1>4. /\ task \in TaskMap /\ c \in Tasks /\ InUse(task) \subseteq Tasks /\ Waits(task, c, k)
      /\ \A t \in Tasks : task[t].state # "STOPPED"
  BY <1>3, Zenon DEF Kept, InUse
<1>5. y \in TaskType /\ T = [task EXCEPT ![c] = z]
  BY <1>4, Zenon DEF TaskMap
<1>6. /\ z \in TaskType /\ Follows(y, z) /\ z.blocked_process = k
      /\ z.state = y.state /\ z.block_reason = y.block_reason
      /\ z.asked = y.asked /\ z.rax = y.rax
  <2>1. y.state # "STOPPED"
    BY <1>4, Zenon
  <2> HIDE DEF y, k
  <2> QED
    BY <1>3, <1>5, <2>1 DEF TaskType, Follows
<1> HIDE DEF z, T
<1>7. T \in TaskMap /\ \A t \in Tasks : T[t] = IF t = c THEN z ELSE task[t]
  BY <1>4, <1>5, <1>6, Zenon DEF TaskMap
<1>8. \A t \in Tasks : /\ Follows(task[t], T[t]) /\ T[t].state = task[t].state
                       /\ T[t].block_reason = task[t].block_reason
                       /\ T[t].asked = task[t].asked /\ T[t].rax = task[t].rax
                       /\ Awaited(T, NULL, NULL, t) = Awaited(task, c, k, t)
  <2>1. ASSUME NEW t \in Tasks PROVE Follows(task[t], task[t])
    BY <1>4, QuietSame, Zenon DEF Quiet
  <2> HIDE DEF c, k
  <2> QED
    BY <1>6, <1>7, <2>1, ProcessAssumption DEF Awaited
<1>9. /\ InUse(T) = InUse(task) /\ Ring(T) /\ Tree(T, NULL) /\ Pids(T, last_pid)
      /\ \A t \in Tasks : T[t].state # "STOPPED"
  <2> HIDE DEF k
  <2> QED
    BY <1>3, <1>4, <1>7, <1>8, FollowsKeeps, SMTT(30)
<1>10. Waiting(T) = Waiting(task) /\ Waiting(T) \subseteq Tasks
  BY <1>4, <1>8, <1>9 DEF Waiting
<1>11. Waits(T, NULL, NULL)
  <2> HIDE DEF k
  <2>1. \A t \in Waiting(T) : /\ t \in Waiting(task)
                              /\ Awaited(T, NULL, NULL, t) = Awaited(task, c, k, t)
                              /\ T[t].asked = task[t].asked
    BY <1>8, <1>10, Zenon
  <2>2. \A t \in Waiting(T), b \in Tasks :
           Asks(task, t, b) => /\ T[b].state \notin {"FREE", "DELETED"}
                               /\ T[b].parent = task[b].parent /\ T[b].pid = task[b].pid
    BY <1>8, Zenon DEF Asks, Follows
  <2> QED
    BY <1>4, <2>1, <2>2, WaitsKeep
<1>12. ~world.irq => Answers(T, NULL, NULL)
  <2> HIDE DEF k
  <2> QED
    BY <1>3, <1>4, <1>8, <1>9, <1>10, SMTT(30) DEF Answers
<1>13. Kept(T, last_pid, NULL, NULL, NULL)
  BY <1>7, <1>9, <1>11, Zenon DEF Kept
<1> QED
  BY <1>1, <1>3, <1>9, <1>12, <1>13, RunNextStep, SMTT(30)

LEMMA ExitZombieStep ==
    ASSUME ProcInv, UNCHANGED world, exit_zombie
    PROVE  ProcInv'
<1> DEFINE c == current_task
           y == task[c]
           z == [y EXCEPT !.state = "ZOMBIE"]
<1>1. /\ At("exit") /\ c # InitTask /\ task' = [task EXCEPT ![c].state = "ZOMBIE"]
      /\ pc'.at = "zombie" /\ UNCHANGED <<current_task, rr_task, last_pid>>
  BY Zenon DEF exit_zombie, Goto
<1>2. /\ Kept(task, last_pid, NULL, NULL, NULL)
      /\ ~world.irq => Answers(task, NULL, NULL)
      /\ world \in Worlds /\ last_pid \in Nat
      /\ task \in TaskMap /\ \A t \in Tasks : task[t].state # "STOPPED"
      /\ rr_task \in InUse(task) /\ c \in InUse(task)
      /\ InUse(task) \subseteq Tasks /\ y \in TaskType
      /\ y.state \in {"READY", "RUNNING"}
  BY <1>1, CurrentFacts, Zenon
<1>3. task' = [task EXCEPT ![c] = z]
  BY <1>1, <1>2, Zenon DEF TaskMap
<1>4. /\ z \in TaskType /\ z.state = "ZOMBIE"
      /\ z.pid = y.pid /\ z.next = y.next /\ z.next_sibling = y.next_sibling
      /\ z.parent = y.parent /\ z.child = y.child
      /\ z.asked = y.asked /\ z.rax = y.rax
  <2> HIDE DEF y
  <2> QED
    BY <1>2, Zenon DEF TaskType, States
<1> HIDE DEF z
<1>5. task' \in TaskMap /\ \A t \in Tasks : task'[t] = IF t = c THEN z ELSE task[t]
  BY <1>2, <1>3, <1>4, Zenon DEF TaskMap
<1>6. InUse(task') = InUse(task) /\ SameLinks(task, task')
  BY <1>2, <1>4, <1>5, Zenon DEF InUse, SameLinks
<1>7. Owners(task', c) = Owners(task, NULL) /\ InitTask \in Owners(task', NULL)
  <2>1. InitTask \in Owners(task, NULL) /\ NULL \notin Tasks
    BY <1>2, ProcessAssumption, Zenon DEF Kept, Tree, Parents
  <2> HIDE DEF c
  <2>2. \A p \in InUse(task) : p \in Owners(task', c) <=> p \in Owners(task, NULL)
    BY <1>2, <1>4, <1>5, <1>6, <2>1, SMTT(30) DEF Owners, Gone
  <2>3. Owners(task', c) \subseteq InUse(task) /\ Owners(task, NULL) \subseteq InUse(task)
    BY <1>6, Zenon DEF Owners
  <2>4. InitTask \in Owners(task', NULL)
    BY <1>1, <1>2, <1>5, <1>6, <2>1, SMTT(30) DEF Owners
  <2> QED
    BY <2>2, <2>3, <2>4, Zenon
<1>8. Ring(task') /\ Tree(task', c)
  <2>1. Ring(task) /\ Tree(task, NULL)
    BY <1>2, Zenon DEF Kept
  <2> QED
    BY <1>6, <1>7, <2>1, ShapeKeeps, SMTT(30)
<1>9. Pids(task', last_pid)
  <2>1. Pids(task, last_pid)
    BY <1>2, Zenon DEF Kept
  <2>2. \A t \in InUse(task) : /\ task'[t].pid = task[t].pid
                               /\ task[t].state = "DELETED" => task'[t].state = "DELETED"
    BY <1>2, <1>4, <1>5, Zenon
  <2> QED
    BY <1>6, <2>1, <2>2, SMTT(30) DEF Pids
<1>10. /\ \A t \in InUse(task) : t \in Waiting(task') <=> t \in Waiting(task)
       /\ \A t \in Waiting(task') : t # c /\ t \in InUse(task)
  BY <1>2, <1>4, <1>5, <1>6, SMTT(30) DEF Waiting
<1>11. Waits(task', NULL, NULL)
  <2>1. Waits(task, NULL, NULL)
    BY <1>2, Zenon DEF Kept
  <2>2. \A t \in Waiting(task') : /\ t \in Waiting(task)
                                  /\ Awaited(task', NULL, NULL, t) = Awaited(task, NULL, NULL, t)
                                  /\ task'[t].asked = task[t].asked
    BY <1>2, <1>5, <1>10, Zenon DEF Awaited
  <2>3. \A t \in Waiting(task'), b \in Tasks :
           Asks(task, t, b) => /\ task'[b].state \notin {"FREE", "DELETED"}
                               /\ task'[b].parent = task[b].parent /\ task'[b].pid = task[b].pid
    BY <1>4, <1>5, Zenon DEF Asks
  <2> QED
    BY <2>1, <2>2, <2>3, WaitsKeep, SMTT(30)
<1>12. ~world.irq => Answers(task', NULL, NULL)
  <2>1. ASSUME Answers(task, NULL, NULL) PROVE Answers(task', NULL, NULL)
    <3>1. \A t \in InUse(task) : /\ task'[t].asked = task[t].asked /\ task'[t].rax = task[t].rax
                                 /\ t # c => task'[t] = task[t]
      BY <1>2, <1>4, <1>5, Zenon
    <3> QED
      BY <1>6, <1>10, <2>1, <3>1, SMTT(30) DEF Answers, Awaited
  <2> QED
    BY <1>2, <2>1, Zenon
<1>13. Handing' = c /\ Between' = NULL /\ Wanted' = NULL /\ ~At("waitpid")'
  BY <1>1, Zenon DEF Handing, Between, Wanted, At
<1>14. Runs(task', current_task', rr_task', pc'.at)
  BY <1>1, <1>2, <1>4, <1>5, <1>6, SMTT(30) DEF Runs
<1>15. Kept(task', last_pid, c, NULL, NULL)
  <2>1. \A t \in Tasks : task'[t].state # "STOPPED"
    BY <1>2, <1>4, <1>5, SMTT(30)
  <2> QED
    BY <1>5, <1>8, <1>9, <1>11, <2>1, SMTT(30) DEF Kept
<1> QED
  BY <1>1, <1>2, <1>12, <1>13, <1>14, <1>15, SMTT(30) DEF ProcInv

\* The children of c, which cannot run any more, go to new.
LEMMA AdoptedKeeps ==
    ASSUME NEW T, NEW last, NEW c \in InUse(T), Kept(T, last, c, NULL, NULL),
           c \notin Owners(T, NULL), NEW new \in Owners(T, NULL), new \notin Kids(T, c)
    PROVE  LET A == Adopt(T, c, new)
           IN  /\ Kept(A, last, NULL, NULL, NULL) /\ InUse(A) = InUse(T)
               /\ Answers(T, NULL, NULL) => Answers(A, NULL, NULL)
<1> DEFINE A == Adopt(T, c, new)
<1>1. /\ T \in TaskMap /\ Ring(T) /\ Tree(T, c) /\ Pids(T, last) /\ Waits(T, NULL, NULL)
      /\ \A t \in Tasks : T[t].state # "STOPPED"
      /\ InUse(T) \subseteq Tasks
  BY Zenon DEF Kept, InUse
<1>2. /\ A \in TaskMap /\ Ring(A) /\ Tree(A, NULL)
      /\ \A x \in Tasks : SameBody(T[x], A[x])
      /\ \A x \in Tasks \ Kids(T, c) : A[x].parent = T[x].parent
  BY <1>1, AdoptKeeps, Zenon
<1> HIDE DEF A
<1>3. InUse(A) = InUse(T) /\ \A t \in Tasks : A[t].state # "STOPPED"
  BY <1>1, <1>2 DEF InUse, SameBody
<1>4. Pids(A, last)
  <2>1. \A t \in InUse(T) : A[t].pid = T[t].pid /\ A[t].state = T[t].state
    BY <1>1, <1>2, Zenon DEF SameBody
  <2> QED
    BY <1>1, <1>3, <2>1, Zenon DEF Pids
<1>5. Waiting(A) = Waiting(T) /\ Waiting(A) \subseteq Tasks
  BY <1>1, <1>2, <1>3, SMTT(30) DEF Waiting, SameBody
<1>6. Waits(A, NULL, NULL)
  <2>1. \A t \in Waiting(A) : /\ t \in Waiting(T)
                              /\ Awaited(A, NULL, NULL, t) = Awaited(T, NULL, NULL, t)
                              /\ A[t].asked = T[t].asked
    BY <1>2, <1>5, Zenon DEF Awaited, SameBody
  <2>2. ASSUME NEW t \in Waiting(A), NEW b \in Tasks, Asks(T, t, b)
        PROVE  /\ A[b].state \notin {"FREE", "DELETED"}
               /\ A[b].parent = T[b].parent /\ A[b].pid = T[b].pid
    <3>1. t \in Owners(T, NULL)
      BY <1>5, Zenon DEF Owners, Waiting, Gone
    <3>2. b \notin Kids(T, c)
      BY <2>2, <3>1, Zenon DEF Asks, Kids
    <3> QED
      BY <1>2, <2>2, <3>2, SMTT(30) DEF Asks, SameBody
  <2> QED
    BY <1>1, <2>1, <2>2, WaitsKeep, SMTT(30)
<1>7. ASSUME Answers(T, NULL, NULL) PROVE Answers(A, NULL, NULL)
  <2>1. \A t \in InUse(T) : /\ A[t].asked = T[t].asked /\ A[t].rax = T[t].rax
                            /\ A[t].blocked_process = T[t].blocked_process
    BY <1>1, <1>2, Zenon DEF SameBody
  <2> QED
    BY <1>3, <1>5, <1>7, <2>1, SMTT(30) DEF Answers, Awaited
<1> QED
  BY <1>2, <1>3, <1>4, <1>6, <1>7, SMTT(30) DEF Kept, A

LEMMA ExitReparentStep ==
    ASSUME ProcInv, UNCHANGED world, exit_reparent
    PROVE  ProcInv'
<1> DEFINE c == current_task
           A == Adopt(task, c, InitTask)
<1>1. /\ At("zombie") /\ task' = A /\ pc'.at = "switch"
      /\ UNCHANGED <<current_task, rr_task, last_pid>>
  BY Zenon DEF exit_reparent, SwitchAway, Goto
<1>2. Handing = c /\ Between = NULL /\ Wanted = NULL
  BY <1>1, Zenon DEF Handing, Between, Wanted, At
<1>3. /\ world \in Worlds /\ last_pid \in Nat /\ Kept(task, last_pid, c, NULL, NULL)
      /\ ~world.irq => Answers(task, NULL, NULL)
      /\ rr_task \in InUse(task) /\ c \in InUse(task) /\ task[c].state \in {"ZOMBIE", "DELETED"}
  BY <1>1, <1>2, Zenon DEF ProcInv, Runs, At
<1>4. /\ c \notin Owners(task, NULL) /\ InitTask \in Owners(task, NULL)
      /\ InitTask \notin Kids(task, c)
  <2>1. c # NULL
    BY <1>3, ProcessAssumption, Zenon DEF InUse
  <2> HIDE DEF c
  <2> QED
    BY <1>3, <2>1, Zenon DEF Owners, Gone, Kids, Kept, Tree, Parents
<1> HIDE DEF c
<1>5. /\ Kept(A, last_pid, NULL, NULL, NULL) /\ InUse(A) = InUse(task)
      /\ Answers(task, NULL, NULL) => Answers(A, NULL, NULL)
  BY <1>3, <1>4, AdoptedKeeps, Zenon
<1>6. Runs(task', current_task', rr_task', pc'.at) /\ Settles(pc'.at)
  BY <1>1, <1>3, <1>5, ZenonT(30) DEF Runs, Settles, c
<1> QED
  BY <1>1, <1>3, <1>5, <1>6, SettledInv, SMTT(30)

----------------------------------------------------------------------------
(* fork and execve.                                                        *)

LEMMA LinkedKeeps ==
    ASSUME task \in TaskMap, Ring(task), Tree(task, NULL), current_task \in Tasks,
           NEW q \in Tasks, task[q].state = "FREE", NEW p \in Owners(task, NULL), NEW pid \in Nat
    PROVE  LET T == Linked(q, p, pid)
           IN  /\ T \in TaskMap /\ Ring(T) /\ Tree(T, NULL)
               /\ InUse(T) = InUse(task) \cup {q} /\ Owners(T, NULL) = Owners(task, NULL) \cup {q}
               /\ T[q].state = "READY" /\ T[q].pid = pid /\ T[q].parent = p
               /\ T[q].asked = task[current_task].asked
               /\ \A t \in Tasks \ {q} : SameBody(task[t], T[t]) /\ T[t].parent = task[t].parent
<1> DEFINE T == Linked(q, p, pid)
           y == task[current_task]
           z == [y EXCEPT !.state = "READY", !.pid = pid, !.child = NULL, !.parent = p,
                          !.next = task[p].next, !.next_sibling = task[p].child]
           v == task[p]
           w == [v EXCEPT !.next = q, !.child = q]
           n == task[p].next
           s == task[p].child
<1>1. p \in Tasks /\ q \notin InUse(task) /\ p \in InUse(task) /\ p # q
  BY Zenon DEF Owners, InUse
<1>2. y \in TaskType /\ v \in TaskType /\ n \in TaskOrNull /\ s \in TaskOrNull
  BY <1>1, Zenon DEF TaskMap, TaskType
<1>3. T = [task EXCEPT ![q] = z, ![p] = w]
  BY <1>1, Zenon DEF Linked, TaskMap
<1>4. NULL \in TaskOrNull /\ q \in TaskOrNull /\ p \in TaskOrNull
  BY <1>1, Zenon DEF TaskOrNull
<1>5. z = [y EXCEPT !.state = "READY", !.pid = pid, !.child = NULL, !.parent = p,
                    !.next = n, !.next_sibling = s]
  BY Zenon
<1> HIDE DEF y, z, v, w, n, s
<1>6. /\ z \in TaskType /\ z.state = "READY" /\ z.pid = pid /\ z.child = NULL /\ z.parent = p
      /\ z.next = n /\ z.next_sibling = s /\ z.asked = y.asked
  BY <1>2, <1>4, <1>5 DEF TaskType, States
<1>7. /\ w \in TaskType /\ SameBody(v, w) /\ w.parent = v.parent
      /\ w.next_sibling = v.next_sibling /\ w.next = q /\ w.child = q
  BY <1>2, <1>4, Zenon DEF TaskType, SameBody, w
<1> HIDE DEF T
<1>8. T \in TaskMap /\ \A t \in Tasks : T[t] = IF t = p THEN w ELSE IF t = q THEN z ELSE task[t]
  BY <1>1, <1>3, <1>6, <1>7 DEF TaskMap
<1>9. T[q] = z /\ T[p] = w /\ \A t \in Tasks : t # p /\ t # q => T[t] = task[t]
  BY <1>1, <1>8, Zenon
<1>10. \A t \in Tasks \ {q} : /\ SameBody(task[t], T[t]) /\ T[t].parent = task[t].parent
                              /\ T[t].next_sibling = task[t].next_sibling
                              /\ t # p => T[t].next = task[t].next /\ T[t].child = task[t].child
  <2>1. \A t \in Tasks : SameBody(task[t], task[t])
    BY Zenon DEF SameBody
  <2> QED
    BY <1>7, <1>9, <2>1, Zenon DEF v
<1>11. \A t \in Tasks \ {q} : T[t].state = task[t].state
  BY <1>10, Zenon DEF SameBody
<1>12. InUse(T) = InUse(task) \cup {q}
  BY <1>1, <1>6, <1>9, <1>11, SMTT(30) DEF InUse
<1>13. Owners(T, NULL) = Owners(task, NULL) \cup {q}
  <2>1. InUse(task) \subseteq Tasks \ {q}
    BY <1>1, Zenon DEF InUse
  <2>2. q \in Owners(T, NULL)
    BY <1>6, <1>9, <1>12 DEF Owners, Gone
  <2>3. \A t \in InUse(task) : t \in Owners(T, NULL) <=> t \in Owners(task, NULL)
    BY <1>11, <1>12, <2>1, Zenon DEF Owners
  <2>4. Owners(T, NULL) \subseteq InUse(task) \cup {q} /\ Owners(task, NULL) \subseteq InUse(task)
    BY <1>12, Zenon DEF Owners
  <2> QED
    BY <2>2, <2>3, <2>4
<1>14. Linkable(T, "next") /\ Linkable(T, "next_sibling")
  BY <1>8, Links, Zenon
<1>15. InUse(task) \subseteq Tasks \ {q}
  BY <1>1 DEF InUse
<1>16. Ring(T)
  <2>1. \A t \in InUse(task) \ {p} : T[t].next = task[t].next
    BY <1>10, <1>15, Zenon
  <2>2. T[q].next = task[p].next /\ T[p].next = q
    BY <1>6, <1>7, <1>9, Zenon DEF n
  <2> QED
    BY <1>1, <1>12, <1>14, <2>1, <2>2, RingInsert, SMTT(30)
<1>17. Tree(T, NULL)
  <2>1. \A t \in InUse(task) : /\ T[t].next_sibling = task[t].next_sibling
                               /\ T[t].parent = task[t].parent
                               /\ t # p => T[t].child = task[t].child
    BY <1>10, <1>15, Zenon
  <2>2. T[q].next_sibling = task[p].child /\ T[q].parent = p /\ T[q].child = NULL /\ T[p].child = q
    BY <1>6, <1>7, <1>9, Zenon DEF s
  <2> QED
    BY <1>1, <1>12, <1>13, <1>14, <2>1, <2>2, TreeInsert, SMTT(30)
<1>18. T[q].state = "READY" /\ T[q].pid = pid /\ T[q].parent = p
       /\ T[q].asked = task[current_task].asked
  BY <1>6, <1>9, Zenon DEF y
<1> QED
  BY <1>8, <1>10, <1>12, <1>13, <1>16, <1>17, <1>18, SMTT(30) DEF T

LEMMA ForkStep ==
    ASSUME ProcInv, UNCHANGED world, NEW q \in Tasks, fork(q)
    PROVE  ProcInv'
<1> DEFINE c == current_task
           T == Linked(q, c, last_pid + 1)
           U == [T EXCEPT ![c].state = "READY"]
           y == T[c]
           z == [y EXCEPT !.state = "READY"]
<1>1. /\ At("user") /\ c \in Tasks /\ task[c].asked = 0 /\ task[q].state = "FREE"
      /\ task' = U /\ pc'.at = "switch" /\ UNCHANGED <<current_task, rr_task>>
      /\ last_pid' = last_pid + 1
  BY Zenon DEF fork, InUser, Free, SwitchAway, Goto, NewPid
<1>2. /\ Kept(task, last_pid, NULL, NULL, NULL)
      /\ ~world.irq => Answers(task, NULL, NULL)
      /\ world \in Worlds /\ last_pid \in Nat
      /\ task \in TaskMap /\ \A t \in Tasks : task[t].state # "STOPPED"
      /\ rr_task \in InUse(task) /\ c \in InUse(task)
      /\ InUse(task) \subseteq Tasks
      /\ task[c].state \in {"READY", "RUNNING"}
  BY <1>1, CurrentFacts, Zenon
<1>3. /\ Ring(task) /\ Tree(task, NULL) /\ Pids(task, last_pid) /\ Waits(task, NULL, NULL)
      /\ c \in Owners(task, NULL) /\ last_pid + 1 \in Nat
  BY <1>2, SMTT(30) DEF Kept, Owners, Gone
<1>4. /\ T \in TaskMap /\ Ring(T) /\ Tree(T, NULL)
      /\ InUse(T) = InUse(task) \cup {q}
      /\ T[q].state = "READY" /\ T[q].pid = last_pid + 1 /\ T[q].parent = c
      /\ T[q].asked = 0
      /\ \A t \in Tasks \ {q} : SameBody(task[t], T[t]) /\ T[t].parent = task[t].parent
  BY <1>1, <1>2, <1>3, LinkedKeeps, SMTT(30)
<1>5. y \in TaskType /\ U = [T EXCEPT ![c] = z]
  BY <1>1, <1>4, Zenon DEF TaskMap
<1> HIDE DEF T
<1>6. \A t \in InUse(task) : t # q /\ t \in Tasks
  BY <1>1, <1>2, Zenon DEF InUse
<1>7. \A t \in Tasks : T[t].state # "STOPPED"
  BY <1>2, <1>4, Zenon DEF SameBody
<1>8. Pids(T, last_pid')
  <2>1. \A t \in InUse(task) : T[t].pid = task[t].pid /\ T[t].state = task[t].state
    BY <1>4, <1>6, Zenon DEF SameBody
  <2>2. \A t \in InUse(task) : task[t].pid \in 1 .. last_pid
    BY <1>3, Zenon DEF Pids
  <2>3. \A t \in InUse(task) : T[t].pid \in 1 .. last_pid' /\ T[t].pid # T[q].pid
    BY <1>1, <1>2, <1>4, <2>1, <2>2, SMTT(30)
  <2>4. T[q].pid \in 1 .. last_pid'
    BY <1>1, <1>2, <1>4, SMTT(30)
  <2>5. \A s, t \in InUse(task) :
           T[s].pid = T[t].pid /\ s # t => "DELETED" \in {T[s].state, T[t].state}
    BY <1>3, <2>1 DEF Pids
  <2> QED
    BY <1>4, <2>3, <2>4, <2>5, SMTT(30) DEF Pids
<1>9. /\ Waiting(T) = Waiting(task) /\ Waiting(T) \subseteq InUse(task)
  BY <1>4, <1>6, Zenon DEF Waiting, SameBody
<1>10. Waits(T, NULL, NULL)
  <2>1. \A t \in Waiting(T) : /\ t \in Waiting(task)
                              /\ Awaited(T, NULL, NULL, t) = Awaited(task, NULL, NULL, t)
                              /\ T[t].asked = task[t].asked
    BY <1>4, <1>6, <1>9, Zenon DEF Awaited, SameBody
  <2>2. \A t \in Waiting(T), b \in Tasks :
           Asks(task, t, b) => /\ T[b].state \notin {"FREE", "DELETED"}
                               /\ T[b].parent = task[b].parent /\ T[b].pid = task[b].pid
    BY <1>1, <1>4, SMTT(30) DEF Asks, SameBody
  <2> QED
    BY <1>3, <2>1, <2>2, WaitsKeep, SMTT(30)
<1>11. Answers(task, NULL, NULL) => Answers(T, NULL, NULL)
  <2>1. \A t \in InUse(task) : /\ T[t].asked = task[t].asked /\ T[t].rax = task[t].rax
                               /\ T[t].blocked_process = task[t].blocked_process
    BY <1>4, <1>6, Zenon DEF SameBody
  <2> QED
    BY <1>4, <1>9, <2>1 DEF Answers, Awaited
<1>12. Kept(T, last_pid', NULL, NULL, NULL)
  BY <1>4, <1>7, <1>8, <1>10, Zenon DEF Kept
<1>13. z \in TaskType /\ Quiet(y, z)
  <2>1. y.state \in {"READY", "RUNNING"}
    BY <1>1, <1>2, <1>4, <1>6, SMTT(30) DEF SameBody
  <2> HIDE DEF y
  <2> QED
    BY <1>5, <2>1, Zenon DEF TaskType, States, Quiet, Follows, WaitsIn, Gone
<1> HIDE DEF z, U
<1>14. U \in TaskMap /\ \A t \in Tasks : Quiet(T[t], U[t])
  BY <1>1, <1>4, <1>5, <1>7, <1>13, QuietUpdate
<1>15. /\ InUse(U) = InUse(T) /\ Kept(U, last_pid', NULL, NULL, NULL)
       /\ Answers(T, NULL, NULL) => Answers(U, NULL, NULL)
  BY <1>4, <1>12, <1>14, QuietKeeps
<1>16. Runs(task', current_task', rr_task', pc'.at) /\ Settles(pc'.at)
  BY <1>1, <1>2, <1>4, <1>15, SMTT(30) DEF Runs, Settles
<1> QED
  BY <1>1, <1>2, <1>3, <1>11, <1>15, <1>16, SettledInv, SMTT(30)

\* execve before the children go to the new structure q: whoever waited for c
\* waits for q, and c is deleted.
LEMMA ReplacedKeeps ==
    ASSUME NEW T \in TaskMap, Ring(T), Tree(T, NULL), NEW c \in Owners(T, NULL), c # InitTask,
           NEW q \in Tasks
    PROVE  LET U == [Redirect(T, c, q) EXCEPT ![c].state = "DELETED"]
           IN  /\ U \in TaskMap /\ Ring(U) /\ Tree(U, c) /\ InUse(U) = InUse(T)
               /\ \A t \in Tasks :
                     /\ U[t].pid = T[t].pid /\ U[t].parent = T[t].parent
                     /\ U[t].asked = T[t].asked /\ U[t].rax = T[t].rax
                     /\ U[t].block_reason = T[t].block_reason
                     /\ U[t].state = IF t = c THEN "DELETED" ELSE T[t].state
                     /\ U[t].blocked_process = IF T[t].blocked_process = c THEN q
                                               ELSE T[t].blocked_process
<1> DEFINE R == Redirect(T, c, q)
           U == [R EXCEPT ![c].state = "DELETED"]
<1>1. c \in Tasks /\ c \in InUse(T) /\ T[c].state \notin Gone /\ NULL \notin Tasks
  BY ProcessAssumption, Zenon DEF Owners, InUse
<1>2. q \in TaskOrNull
  BY Zenon DEF TaskOrNull
<1>3. ASSUME NEW t \in Tasks
      PROVE  /\ R[t] \in TaskType
             /\ R[t].pid = T[t].pid /\ R[t].parent = T[t].parent
             /\ R[t].next = T[t].next /\ R[t].next_sibling = T[t].next_sibling
             /\ R[t].child = T[t].child
             /\ R[t].asked = T[t].asked /\ R[t].rax = T[t].rax
             /\ R[t].block_reason = T[t].block_reason /\ R[t].state = T[t].state
             /\ R[t].blocked_process = IF T[t].blocked_process = c THEN q
                                       ELSE T[t].blocked_process
  <2> DEFINE y == T[t]
             z == R[t]
  <2>1. y \in TaskType
    BY Zenon DEF TaskMap
  <2>2. z = IF y.blocked_process = c THEN [y EXCEPT !.blocked_process = q] ELSE y
    BY Zenon DEF Redirect
  <2> SUFFICES /\ z \in TaskType
               /\ z.pid = y.pid /\ z.parent = y.parent
               /\ z.next = y.next /\ z.next_sibling = y.next_sibling
               /\ z.child = y.child
               /\ z.asked = y.asked /\ z.rax = y.rax
               /\ z.block_reason = y.block_reason /\ z.state = y.state
               /\ z.blocked_process = IF y.blocked_process = c THEN q ELSE y.blocked_process
    BY Zenon
  <2> HIDE DEF y, z
  <2> QED
    BY <1>2, <2>1, <2>2, Zenon DEF TaskType
<1>4. R \in TaskMap
  BY <1>3, Zenon DEF TaskMap, Redirect
<1> HIDE DEF R
<1> DEFINE v == R[c]
           w == [v EXCEPT !.state = "DELETED"]
<1>5. v \in TaskType /\ U = [R EXCEPT ![c] = w]
  BY <1>1, <1>4, Zenon DEF TaskMap
<1>6. /\ w \in TaskType /\ w.state = "DELETED"
      /\ w.pid = v.pid /\ w.parent = v.parent
      /\ w.next = v.next /\ w.next_sibling = v.next_sibling
      /\ w.child = v.child /\ w.asked = v.asked /\ w.rax = v.rax
      /\ w.block_reason = v.block_reason /\ w.blocked_process = v.blocked_process
  <2> HIDE DEF v
  <2> QED
    BY <1>5, Zenon DEF TaskType, States
<1> HIDE DEF w, U
<1>7. U \in TaskMap /\ \A t \in Tasks : U[t] = IF t = c THEN w ELSE R[t]
  BY <1>1, <1>4, <1>5, <1>6, SMTT(30) DEF TaskMap
<1>8. \A t \in Tasks :
         /\ U[t].pid = T[t].pid /\ U[t].parent = T[t].parent
         /\ U[t].asked = T[t].asked /\ U[t].rax = T[t].rax
         /\ U[t].block_reason = T[t].block_reason
         /\ U[t].state = IF t = c THEN "DELETED" ELSE T[t].state
         /\ U[t].blocked_process = IF T[t].blocked_process = c THEN q
                                   ELSE T[t].blocked_process
  BY <1>3, <1>6, <1>7, SMTT(30)
<1>9. SameLinks(T, U)
  BY <1>3, <1>6, <1>7, SMTT(30) DEF SameLinks
<1>10. InUse(U) = InUse(T)
  BY <1>1, <1>8, SMTT(30) DEF InUse
<1>11. Owners(U, c) = Owners(T, NULL) /\ InitTask \in Owners(U, NULL)
  <2>1. InitTask \in Owners(T, NULL) /\ InUse(T) \subseteq Tasks
    BY Zenon DEF Tree, Parents, InUse
  <2>2. \A p \in InUse(T) : p \in Owners(U, c) <=> p \in Owners(T, NULL)
    BY <1>1, <1>8, <1>10, <2>1, SMTT(30) DEF Owners
  <2>3. Owners(U, c) \subseteq InUse(T) /\ Owners(T, NULL) \subseteq InUse(T)
    BY <1>10, Zenon DEF Owners
  <2>4. InitTask \in Owners(U, NULL)
    BY <1>8, <1>10, <2>1, SMTT(30) DEF Owners
  <2> QED
    BY <2>2, <2>3, <2>4, Zenon
<1>12. Ring(U) /\ Tree(U, c)
  BY <1>9, <1>10, <1>11, ShapeKeeps, SMTT(30)
<1> QED
  BY <1>7, <1>8, <1>10, <1>12, SMTT(30) DEF U, R

LEMMA ExecveStep ==
    ASSUME ProcInv, UNCHANGED world, NEW q \in Tasks, execve(q)
    PROVE  ProcInv'
<1> DEFINE c == current_task
           p == task[c].parent
           pid == task[c].pid
           T == Linked(q, p, pid)
           U == [Redirect(T, c, q) EXCEPT ![c].state = "DELETED"]
           A == Adopt(U, c, q)
<1>1. /\ At("user") /\ c \in Tasks /\ task[c].asked = 0 /\ task[q].state = "FREE"
      /\ c # InitTask /\ task' = A /\ pc'.at = "switch"
      /\ UNCHANGED <<current_task, rr_task, last_pid>>
  BY Zenon DEF execve, InUser, Free, SwitchAway, Goto
<1>2. /\ Kept(task, last_pid, NULL, NULL, NULL)
      /\ ~world.irq => Answers(task, NULL, NULL)
      /\ world \in Worlds /\ last_pid \in Nat
      /\ task \in TaskMap /\ \A t \in Tasks : task[t].state # "STOPPED"
      /\ rr_task \in InUse(task) /\ c \in InUse(task)
      /\ InUse(task) \subseteq Tasks /\ task[c] \in TaskType
      /\ task[c].state \in {"READY", "RUNNING"}
  BY <1>1, CurrentFacts, Zenon
<1>3. /\ Ring(task) /\ Tree(task, NULL) /\ Pids(task, last_pid) /\ Waits(task, NULL, NULL)
      /\ c \in Owners(task, NULL)
  BY <1>2, Zenon DEF Kept, Owners, Gone
<1>4. p \in Owners(task, NULL) /\ p # c /\ pid \in Nat
  BY <1>1, <1>2, <1>3, SMTT(30) DEF Tree, Parents, TaskType
<1>5. q # c /\ q # p /\ q \notin InUse(task) /\ NULL \notin Tasks
  BY <1>1, <1>2, <1>4, ProcessAssumption, SMTT(30) DEF InUse, Owners
<1> HIDE DEF p, pid
<1>6. /\ T \in TaskMap /\ Ring(T) /\ Tree(T, NULL)
      /\ InUse(T) = InUse(task) \cup {q} /\ Owners(T, NULL) = Owners(task, NULL) \cup {q}
      /\ T[q].state = "READY" /\ T[q].pid = pid /\ T[q].parent = p
      /\ T[q].asked = 0
      /\ \A t \in Tasks \ {q} : SameBody(task[t], T[t]) /\ T[t].parent = task[t].parent
  BY <1>1, <1>2, <1>3, <1>4, LinkedKeeps, SMTT(30)
<1> HIDE DEF T
<1>7. /\ U \in TaskMap /\ Ring(U) /\ Tree(U, c) /\ InUse(U) = InUse(T)
      /\ \A t \in Tasks :
            /\ U[t].pid = T[t].pid /\ U[t].parent = T[t].parent
            /\ U[t].asked = T[t].asked /\ U[t].rax = T[t].rax
            /\ U[t].block_reason = T[t].block_reason
            /\ U[t].state = IF t = c THEN "DELETED" ELSE T[t].state
            /\ U[t].blocked_process = IF T[t].blocked_process = c THEN q
                                      ELSE T[t].blocked_process
  <2>1. c \in Owners(T, NULL)
    BY <1>3, <1>6, Zenon
  <2> HIDE DEF c
  <2> QED
    BY <1>1, <1>6, <2>1, ReplacedKeeps, ZenonT(30)
<1> HIDE DEF U
<1>8. /\ U[q].state = "READY" /\ U[q].pid = pid /\ U[q].parent = p /\ U[q].asked = 0
      /\ InUse(U) = InUse(task) \cup {q}
  BY <1>5, <1>6, <1>7
<1>9. \A t \in Tasks \ {q} :
         /\ U[t].pid = task[t].pid /\ U[t].parent = task[t].parent
         /\ U[t].asked = task[t].asked /\ U[t].rax = task[t].rax
         /\ U[t].block_reason = task[t].block_reason
         /\ U[t].state = IF t = c THEN "DELETED" ELSE task[t].state
         /\ U[t].blocked_process = IF task[t].blocked_process = c THEN q
                                   ELSE task[t].blocked_process
  <2> HIDE DEF c
  <2> QED
    BY <1>6, <1>7 DEF SameBody
<1>10. \A t \in InUse(task) : t \in Tasks \ {q}
  BY <1>2, <1>5, Zenon
<1>11. \A t \in Tasks : U[t].state # "STOPPED"
  BY <1>2, <1>8, <1>9, Zenon
<1>12. Pids(U, last_pid)
  <2>1. \A t \in InUse(task) : /\ U[t].pid = task[t].pid
                               /\ task[t].state = "DELETED" => U[t].state = "DELETED"
    BY <1>9, <1>10, ZenonT(30)
  <2>2. \A t \in InUse(task) : U[t].pid \in 1 .. last_pid
    BY <1>3, <2>1, Zenon DEF Pids
  <2>3. U[q].pid \in 1 .. last_pid
    BY <1>2, <1>3, <1>8, ZenonT(30) DEF Pids, pid
  <2>4. \A s, t \in InUse(task) :
           U[s].pid = U[t].pid /\ s # t => "DELETED" \in {U[s].state, U[t].state}
    BY <1>3, <2>1 DEF Pids
  <2>5. \A t \in InUse(task) : U[t].pid = U[q].pid => U[t].state = "DELETED"
    <3> SUFFICES ASSUME NEW t \in InUse(task), U[t].pid = U[q].pid
                 PROVE  U[t].state = "DELETED"
      BY Zenon
    <3>1. CASE t = c
      BY <1>9, <1>10, <3>1, SMTT(30)
    <3>2. CASE t # c
      <4>1. task[t].pid = task[c].pid
        BY <1>8, <2>1, Zenon DEF pid
      <4>2. task[t].state = "DELETED"
        BY <1>2, <1>3, <3>2, <4>1, SMTT(30) DEF Pids
      <4> QED
        BY <2>1, <4>2
    <3> QED
      BY <3>1, <3>2, Zenon
  <2> QED
    BY <1>8, <2>2, <2>3, <2>4, <2>5, ZenonT(30) DEF Pids
<1>13. ASSUME NEW t \in InUse(U)
       PROVE  t \in Waiting(U) <=> t \in Waiting(task) /\ t # c
  BY <1>2, <1>8, <1>9, <1>10, SMTT(30) DEF Waiting
<1>14. \A t \in Waiting(U) : /\ t \in Waiting(task) /\ t \in Tasks \ {q} /\ t # c /\ t # NULL
  <2>1. Waiting(U) \subseteq InUse(U) /\ Waiting(task) \subseteq InUse(task)
    BY Zenon DEF Waiting
  <2> QED
    BY <1>5, <1>10, <1>13, <2>1, SMTT(30)
<1>15. Waits(U, NULL, NULL)
  <2> SUFFICES ASSUME NEW t \in Waiting(U), U[t].blocked_process # NULL
               PROVE  Asks(U, t, U[t].blocked_process)
    BY <1>14, Zenon DEF Waits, Awaited
  <2>1. t \in Waiting(task) /\ t \in Tasks \ {q} /\ t # NULL
    BY <1>14, Zenon
  <2>2. CASE task[t].blocked_process = c
    <3>1. Asks(task, t, c)
      BY <1>3, <1>5, <1>1, <2>1, <2>2, SMTT(30) DEF Waits, Awaited
    <3>2. U[t].blocked_process = q /\ U[t].asked = task[t].asked
      BY <1>9, <2>1, <2>2, SMTT(30)
    <3>3. p = t /\ pid = task[t].asked
      BY <3>1, Zenon DEF Asks, p, pid
    <3> QED
      BY <1>8, <3>2, <3>3, SMTT(30) DEF Asks
  <2>3. CASE task[t].blocked_process # c
    <3> DEFINE b == task[t].blocked_process
    <3>1. U[t].blocked_process = b /\ U[t].asked = task[t].asked
      BY <1>9, <2>1, <2>3, SMTT(30)
    <3>2. Asks(task, t, b)
      BY <1>3, <2>1, <3>1, Zenon DEF Waits, Awaited
    <3>3. b \in Tasks \ {q} /\ b # c
      BY <1>1, <2>3, <3>2, SMTT(30) DEF Asks
    <3> HIDE DEF b
    <3>4. U[b].state = task[b].state /\ U[b].parent = task[b].parent /\ U[b].pid = task[b].pid
      BY <1>9, <3>3, Zenon
    <3> QED
      BY <3>1, <3>2, <3>4, SMTT(30) DEF Asks
  <2> QED
    BY <2>2, <2>3
<1>16. Answers(task, NULL, NULL) => Answers(U, NULL, NULL)
  <2> SUFFICES ASSUME Answers(task, NULL, NULL), NEW t \in InUse(U), U[t].asked > 0
               PROVE  IF t \in Waiting(U) THEN Awaited(U, NULL, NULL, t) # NULL
                      ELSE U[t].rax \in {U[t].asked, 0, EINTR, ESRCH}
    BY Zenon DEF Answers
  <2>1. U[q].asked = 0 /\ U[c].asked = 0
    BY <1>1, <1>2, <1>5, <1>8, <1>9, SMTT(30)
  <2>2. t # q /\ t # c /\ t \in InUse(task) /\ t \in Tasks \ {q} /\ t # NULL
    <3>1. t # q /\ t # c
      BY <2>1
    <3> QED
      BY <1>5, <1>8, <1>10, <3>1, SMTT(30)
  <2>3. U[t].asked = task[t].asked /\ U[t].rax = task[t].rax
    BY <1>9, <2>2, Zenon
  <2>4. IF t \in Waiting(task) THEN task[t].blocked_process # NULL
        ELSE task[t].rax \in {task[t].asked, 0, EINTR, ESRCH}
    BY <2>2, <2>3, Zenon DEF Answers, Awaited
  <2>5. task[t].blocked_process # NULL => U[t].blocked_process # NULL
    BY <1>5, <1>9, <2>2, SMTT(30)
  <2> QED
    BY <1>13, <2>2, <2>3, <2>4, <2>5, SMTT(30) DEF Awaited
<1>17. Kept(U, last_pid, c, NULL, NULL)
  BY <1>7, <1>11, <1>12, <1>15, ZenonT(30) DEF Kept
<1>18. c \in InUse(U) /\ c \notin Owners(U, NULL) /\ q \in Owners(U, NULL) /\ q \notin Kids(U, c)
  BY <1>1, <1>2, <1>4, <1>5, <1>8, <1>9, SMTT(30) DEF Owners, Kids, Gone
<1>19. /\ Kept(A, last_pid, NULL, NULL, NULL) /\ InUse(A) = InUse(U)
       /\ Answers(U, NULL, NULL) => Answers(A, NULL, NULL)
  <2> HIDE DEF c
  <2> QED
    BY <1>17, <1>18, AdoptedKeeps, SMTT(30)
<1>20. Runs(task', current_task', rr_task', pc'.at) /\ Settles(pc'.at)
  BY <1>1, <1>2, <1>8, <1>19, SMTT(30) DEF Runs, Settles
<1> QED
  BY <1>1, <1>2, <1>16, <1>19, <1>20, SettledInv, SMTT(30)

----------------------------------------------------------------------------
(* waitpid.                                                                *)

\* How c leaves a call, or the first half of waitpid.
Leaves(U, c, u, k) ==
    /\ IF WaitsIn(U[c]) THEN u = c ELSE u \in {NULL, c}
    /\ WaitsIn(U[c]) /\ k # NULL => Asks(U, c, k)
    /\ U[c].asked > 0 => IF WaitsIn(U[c]) THEN k # NULL
                         ELSE U[c].rax \in {U[c].asked, 0, EINTR, ESRCH}

\* What a call of the current task c may change: c itself, and the states of
\* its children.
Touches(T, U, c) ==
    /\ \A t \in Tasks : Follows(T[t], U[t])
    /\ \A t \in Tasks : U[t].state = "DELETED" => T[t].state = "DELETED" \/ T[t].parent = c
    /\ \A t \in Tasks \ {c} :
          /\ WaitsIn(U[t]) <=> WaitsIn(T[t])
          /\ U[t].blocked_process = T[t].blocked_process
          /\ U[t].asked = T[t].asked /\ U[t].rax = T[t].rax

\* c did not wait before; k is the child it waits for after it, if it is in the
\* first half of waitpid.
LEMMA CallKeeps ==
    ASSUME NEW T, NEW last, Kept(T, last, NULL, NULL, NULL), NEW c \in InUse(T), ~WaitsIn(T[c]),
           NEW U \in TaskMap, Touches(T, U, c), NEW u, NEW k, Leaves(U, c, u, k)
    PROVE  /\ InUse(U) = InUse(T) /\ Kept(U, last, NULL, u, k)
           /\ Answers(T, NULL, NULL) => Answers(U, u, k)
<1>1. T \in TaskMap /\ Waits(T, NULL, NULL) /\ InUse(T) \subseteq Tasks /\ NULL \notin Tasks
  BY ProcessAssumption, Zenon DEF Kept, InUse
<1>2. /\ InUse(U) = InUse(T) /\ Ring(U) /\ Tree(U, NULL) /\ Pids(U, last)
      /\ \A t \in Tasks : U[t].state # "STOPPED"
  BY <1>1, FollowsKeeps, Zenon DEF Touches
<1>3. /\ \A t \in InUse(T) : t \in Waiting(T) <=> WaitsIn(T[t])
      /\ \A t \in InUse(T) : t \in Waiting(U) <=> WaitsIn(U[t])
      /\ Waiting(U) \subseteq InUse(T)
  BY <1>2, Zenon DEF Waiting, WaitsIn
<1>4. \A t \in InUse(T) : /\ t # NULL /\ Awaited(T, NULL, NULL, t) = T[t].blocked_process
                          /\ t # c => Awaited(U, u, k, t) = U[t].blocked_process
                          /\ WaitsIn(U[c]) => Awaited(U, u, k, c) = k
  BY <1>1, Zenon DEF Awaited, Leaves
<1>5. Waits(U, u, k)
  <2> SUFFICES ASSUME NEW t \in Waiting(U), Awaited(U, u, k, t) # NULL
               PROVE  Asks(U, t, Awaited(U, u, k, t))
    BY Zenon DEF Waits
  <2>1. t \in InUse(T) /\ t \in Tasks /\ WaitsIn(U[t])
    BY <1>1, <1>3, Zenon
  <2>2. CASE t = c
    BY <1>4, <2>1, <2>2, Zenon DEF Leaves
  <2>3. CASE t # c
    <3> DEFINE b == T[t].blocked_process
    <3>1. t \in Waiting(T) /\ Awaited(U, u, k, t) = b /\ U[t].asked = T[t].asked
      BY <1>3, <1>4, <2>1, <2>3, SMTT(30) DEF Touches
    <3>2. Asks(T, t, b)
      BY <1>1, <1>4, <2>1, <3>1, SMTT(30) DEF Waits
    <3> HIDE DEF b
    <3>3. b \in Tasks /\ T[b].parent = t /\ T[b].state \notin {"FREE", "DELETED"}
      BY <3>2, Zenon DEF Asks
    <3>4. U[b].state \notin {"FREE", "DELETED"} /\ U[b].parent = T[b].parent /\ U[b].pid = T[b].pid
      BY <2>3, <3>3, Zenon DEF Follows, Touches
    <3> QED
      BY <3>1, <3>2, <3>4, SMTT(30) DEF Asks
  <2> QED
    BY <2>2, <2>3, Zenon
<1>6. ASSUME Answers(T, NULL, NULL) PROVE Answers(U, u, k)
  <2> SUFFICES ASSUME NEW t \in InUse(T), U[t].asked > 0
               PROVE  IF t \in Waiting(U) THEN Awaited(U, u, k, t) # NULL
                      ELSE U[t].rax \in {U[t].asked, 0, EINTR, ESRCH}
    BY <1>2, Zenon DEF Answers
  <2>1. CASE t = c
    BY <1>3, <1>4, <2>1, SMTT(30) DEF Leaves
  <2>2. CASE t # c
    <3>1. /\ U[t].asked = T[t].asked /\ U[t].rax = T[t].rax
          /\ U[t].blocked_process = T[t].blocked_process
          /\ t \in Waiting(U) <=> t \in Waiting(T)
      BY <1>1, <1>3, <2>2, SMTT(30) DEF Touches
    <3>2. IF t \in Waiting(T) THEN T[t].blocked_process # NULL
          ELSE T[t].rax \in {T[t].asked, 0, EINTR, ESRCH}
      BY <1>4, <1>6, <3>1, Zenon DEF Answers
    <3> QED
      BY <1>4, <2>2, <3>1, <3>2, SMTT(30)
  <2> QED
    BY <2>1, <2>2, Zenon
<1> QED
  BY <1>2, <1>5, <1>6, Zenon DEF Kept

\* waitpid returns r at once: V is what it did to the children.
LEMMA ReturnStep ==
    ASSUME ProcInv, UNCHANGED world, InUser, NEW pid \in Int, NEW r \in Int,
           pid > 0 => r \in {pid, 0, EINTR, ESRCH},
           NEW V \in TaskMap, V[current_task] = [task[current_task] EXCEPT !.asked = pid],
           \A t \in Tasks \ {current_task} :
              /\ Follows(task[t], V[t])
              /\ V[t].state = "DELETED" => task[t].state = "DELETED" \/ task[t].parent = current_task
              /\ WaitsIn(V[t]) <=> WaitsIn(task[t])
              /\ V[t].blocked_process = task[t].blocked_process
              /\ V[t].asked = task[t].asked /\ V[t].rax = task[t].rax,
           Return(V, r)
    PROVE  ProcInv'
<1> DEFINE c == current_task
           y == task[c]
           v == V[c]
           z == [v EXCEPT !.rax = r]
<1>1. /\ At("user") /\ c \in Tasks /\ y.asked = 0
      /\ task' = [V EXCEPT ![c].rax = r] /\ pc'.at = "tail"
      /\ UNCHANGED <<current_task, rr_task, last_pid>>
  BY Zenon DEF InUser, Return, Goto
<1>2. /\ Kept(task, last_pid, NULL, NULL, NULL)
      /\ ~world.irq => Answers(task, NULL, NULL)
      /\ world \in Worlds /\ last_pid \in Nat
      /\ rr_task \in InUse(task) /\ c \in InUse(task)
      /\ y \in TaskType /\ y.state \in {"READY", "RUNNING"}
  BY <1>1, CurrentFacts, Zenon
<1>3. v \in TaskType /\ v = [y EXCEPT !.asked = pid] /\ task' = [V EXCEPT ![c] = z]
  BY <1>1, Zenon DEF TaskMap
<1> HIDE DEF v, y
<1>4. /\ z \in TaskType /\ z.state = y.state /\ z.asked = pid /\ z.rax = r
      /\ z.pid = y.pid /\ z.next = y.next /\ z.next_sibling = y.next_sibling
      /\ z.parent = y.parent /\ z.child = y.child
  <2>1. /\ v.state = y.state /\ v.asked = pid
        /\ v.pid = y.pid /\ v.next = y.next /\ v.next_sibling = y.next_sibling
        /\ v.parent = y.parent /\ v.child = y.child
    BY <1>2, <1>3, Zenon DEF TaskType
  <2>2. z = [v EXCEPT !.rax = r]
    BY Zenon
  <2> HIDE DEF z
  <2> QED
    BY <1>3, <2>1, <2>2 DEF TaskType
<1> HIDE DEF z
<1>5. task' \in TaskMap /\ \A t \in Tasks : task'[t] = IF t = c THEN z ELSE V[t]
  BY <1>1, <1>3, <1>4 DEF TaskMap
<1>6. Follows(y, z) /\ ~WaitsIn(z) /\ ~WaitsIn(y) /\ z.state # "DELETED"
  BY <1>2, <1>4, Zenon DEF Follows, WaitsIn
<1>7. /\ \A t \in Tasks : Follows(task[t], task'[t])
      /\ \A t \in Tasks : task'[t].state = "DELETED" => task[t].state = "DELETED" \/ task[t].parent = c
      /\ \A t \in Tasks \ {c} :
              /\ WaitsIn(task'[t]) <=> WaitsIn(task[t])
              /\ task'[t].blocked_process = task[t].blocked_process
              /\ task'[t].asked = task[t].asked /\ task'[t].rax = task[t].rax
      /\ ~WaitsIn(task'[c]) /\ ~WaitsIn(task[c])
      /\ task'[c].asked > 0 => task'[c].rax \in {task'[c].asked, 0, EINTR, ESRCH}
  BY <1>1, <1>4, <1>5, <1>6, SMTT(30) DEF y
<1> HIDE DEF c
<1>8. /\ InUse(task') = InUse(task) /\ Kept(task', last_pid, NULL, NULL, NULL)
      /\ Answers(task, NULL, NULL) => Answers(task', NULL, NULL)
  <2>1. Leaves(task', c, NULL, NULL)
    BY <1>7, Zenon DEF Leaves
  <2>2. Touches(task, task', c)
    BY <1>7, Zenon DEF Touches
  <2> QED
    BY <1>2, <1>5, <1>7, <2>1, <2>2, CallKeeps, ZenonT(30)
<1>9. Runs(task', current_task', rr_task', pc'.at) /\ Settles(pc'.at)
  <2>1. task'[c].state \in {"READY", "RUNNING"}
    BY <1>1, <1>2, <1>4, <1>5
  <2> QED
    BY <1>1, <1>2, <1>8, <2>1, SMTT(30) DEF Runs, Settles, c
<1> QED
  BY <1>1, <1>2, <1>8, <1>9, SettledInv, SMTT(30)

\* waitpid starts to wait for named, or for any child.
LEMMA WaitStep ==
    ASSUME ProcInv, UNCHANGED world, InUser, NEW pid \in Int, NEW k \in TaskOrNull,
           k # NULL => Asks([task EXCEPT ![current_task].asked = pid], current_task, k),
           pid > 0 => k # NULL,
           task' = [task EXCEPT ![current_task].asked = pid,
                                ![current_task].state = "BLOCKED",
                                ![current_task].block_reason = "WAITPID",
                                ![current_task].rax = SYSCALL_WAITPID],
           pc'.at = "waitpid", pc'.child = k, pc'.ws \in BOOLEAN,
           pc'.flags \in SUBSET {"WNOHANG", "WUNTRACED", "WCONTINUED"},
           UNCHANGED <<current_task, rr_task, last_pid>>
    PROVE  ProcInv'
<1> DEFINE c == current_task
           y == task[c]
           z == [y EXCEPT !.asked = pid, !.state = "BLOCKED", !.block_reason = "WAITPID",
                          !.rax = SYSCALL_WAITPID]
           V == [task EXCEPT ![c].asked = pid]
           v == [y EXCEPT !.asked = pid]
<1>1. At("user") /\ c \in Tasks
  BY Zenon DEF InUser
<1>2. /\ Kept(task, last_pid, NULL, NULL, NULL)
      /\ ~world.irq => Answers(task, NULL, NULL)
      /\ world \in Worlds /\ last_pid \in Nat
      /\ task \in TaskMap /\ \A t \in Tasks : task[t].state # "STOPPED"
      /\ rr_task \in InUse(task) /\ c \in InUse(task)
      /\ y \in TaskType /\ y.state \in {"READY", "RUNNING"}
  BY <1>1, CurrentFacts, Zenon
<1>3. task' = [task EXCEPT ![c] = z] /\ V = [task EXCEPT ![c] = v]
  BY <1>1, <1>2, Zenon DEF TaskMap
<1>4. SYSCALL_WAITPID \in Int
  BY DEF SYSCALL_WAITPID
<1> HIDE DEF y
<1>5. /\ z \in TaskType /\ z.state = "BLOCKED" /\ z.asked = pid /\ z.block_reason = "WAITPID"
      /\ z.pid = y.pid /\ z.next = y.next /\ z.next_sibling = y.next_sibling
      /\ z.parent = y.parent /\ z.child = y.child
  BY <1>2, <1>4, Zenon DEF TaskType, States
<1>6. v.asked = pid /\ v.pid = y.pid /\ v.parent = y.parent /\ v.state = y.state
  BY <1>2, Zenon DEF TaskType
<1> HIDE DEF z, v, V
<1>7. /\ task' \in TaskMap /\ \A t \in Tasks : task'[t] = IF t = c THEN z ELSE task[t]
      /\ \A t \in Tasks : V[t] = IF t = c THEN v ELSE task[t]
  <2>1. task' \in TaskMap
    BY <1>2, <1>3, <1>5, ZenonT(30) DEF TaskMap
  <2>2. \A t \in Tasks : task'[t] = IF t = c THEN z ELSE task[t]
    BY <1>2, <1>3, Zenon DEF TaskMap
  <2>3. \A t \in Tasks : V[t] = IF t = c THEN v ELSE task[t]
    BY <1>2, <1>3, Zenon DEF TaskMap
  <2> QED
    BY <2>1, <2>2, <2>3, Zenon
<1>8. Follows(y, z) /\ WaitsIn(z) /\ ~WaitsIn(y) /\ z.state # "DELETED"
  BY <1>2, <1>5, Zenon DEF Follows, WaitsIn, Gone
<1>9. /\ \A t \in Tasks : Follows(task[t], task'[t])
      /\ \A t \in Tasks : task'[t].state = "DELETED" => task[t].state = "DELETED" \/ task[t].parent = c
      /\ \A t \in Tasks \ {c} :
              /\ WaitsIn(task'[t]) <=> WaitsIn(task[t])
              /\ task'[t].blocked_process = task[t].blocked_process
              /\ task'[t].asked = task[t].asked /\ task'[t].rax = task[t].rax
      /\ WaitsIn(task'[c]) /\ ~WaitsIn(task[c])
      /\ task'[c].asked > 0 => k # NULL
  <2>1. \A t \in Tasks : Follows(task[t], task[t])
    BY <1>2, QuietSame, Zenon DEF Quiet
  <2>2. task[c] = y /\ task'[c] = z
    BY <1>1, <1>7, Zenon DEF y
  <2>3. \A t \in Tasks \ {c} : task'[t] = task[t]
    BY <1>7, ZenonT(30)
  <2> HIDE DEF c
  <2> QED
    BY <1>1, <1>5, <1>8, <2>1, <2>2, <2>3, ZenonT(30)
<1>10. k # NULL => Asks(task', c, k)
  <2> SUFFICES ASSUME k # NULL PROVE Asks(task', c, k)
    BY Zenon
  <2>1. Asks(V, c, k)
    BY Zenon DEF V
  <2>2. task'[c].asked = V[c].asked
    BY <1>1, <1>5, <1>6, <1>7
  <2>3. /\ k \in Tasks /\ V[k].pid = task'[k].pid /\ V[k].parent = task'[k].parent
        /\ V[k].state \notin {"FREE", "DELETED"} => task'[k].state \notin {"FREE", "DELETED"}
    <3>1. k \in Tasks
      BY <2>1, Zenon DEF Asks
    <3>2. CASE k = c
      BY <1>5, <1>6, <1>7, <3>1, <3>2
    <3>3. CASE k # c
      BY <1>7, <3>1, <3>3
    <3> QED
      BY <3>1, <3>2, <3>3
  <2> HIDE DEF c
  <2> QED
    BY <2>1, <2>2, <2>3, SMTT(30) DEF Asks
<1>11. /\ InUse(task') = InUse(task) /\ Kept(task', last_pid, NULL, c, k)
       /\ Answers(task, NULL, NULL) => Answers(task', c, k)
  <2>1. Leaves(task', c, c, k)
    BY <1>9, <1>10, Zenon DEF Leaves
  <2>2. Touches(task, task', c)
    BY <1>9, ZenonT(30) DEF Touches
  <2>3. /\ Kept(task, last_pid, NULL, NULL, NULL) /\ c \in InUse(task) /\ ~WaitsIn(task[c])
        /\ task' \in TaskMap
    BY <1>2, <1>7, <1>9, SMTT(30)
  <2> HIDE DEF c
  <2> QED
    BY <2>1, <2>2, <2>3, CallKeeps, SMTT(30)
<1>12. Handing' = NULL /\ Between' = c /\ Wanted' = k
  BY Zenon DEF Handing, Between, Wanted, At
<1>13. Runs(task', current_task', rr_task', pc'.at)
  <2>1. task'[c].state = "BLOCKED"
    BY <1>1, <1>5, <1>7
  <2> QED
    BY <1>2, <1>11, <2>1, SMTT(30) DEF Runs
<1> QED
  BY <1>2, <1>11, <1>12, <1>13 DEF ProcInv

LEMMA WaitpidStep ==
    ASSUME ProcInv, UNCHANGED world, NEW pid \in Int, NEW ws \in BOOLEAN,
           NEW flags \in SUBSET {"WNOHANG", "WUNTRACED", "WCONTINUED"}, waitpid(pid, flags, ws)
    PROVE  ProcInv'
<1> DEFINE c == current_task
           y == task[c]
           v == [y EXCEPT !.asked = pid]
           named == get_child(c, pid)
           target == IF pid > 0
                     THEN IF named # NULL /\ Reportable(task, named, flags) THEN named ELSE NULL
                     ELSE get_first_waitpid_target(task, c, flags)
           T == [task EXCEPT ![c].asked = pid]
           V == IF task[target].state = "ZOMBIE" THEN [T EXCEPT ![target].state = "DELETED"]
                ELSE [T EXCEPT ![target].waitpid_event = 0]
<1>1. InUser /\ At("user") /\ c \in Tasks
  BY Zenon DEF waitpid, InUser
<1>2. /\ Kept(task, last_pid, NULL, NULL, NULL)
      /\ task \in TaskMap /\ \A t \in Tasks : task[t].state # "STOPPED"
      /\ c \in InUse(task) /\ y \in TaskType /\ y.state \in {"READY", "RUNNING"}
  BY <1>1, CurrentFacts, Zenon
<1>3. c \in Owners(task, NULL) /\ Tree(task, NULL)
  BY <1>2, Zenon DEF Owners, Gone, Kept
<1>4. named # NULL => /\ named \in Kids(task, c) /\ task[named].pid = pid
                      /\ task[named].state # "DELETED"
  <2> DEFINE good == {x \in Tasks : task[x].state # "DELETED" /\ task[x].pid = pid}
             x0 == task[c].child
  <2>1. good \in SUBSET Tasks /\ named = First(task, "next_sibling", x0, good)
    BY Zenon DEF get_child
  <2>2. named \in (Kids(task, c) \cap good) \cup {NULL}
    <3> HIDE DEF good, named, c
    <3> QED
      BY <1>2, <1>3, <2>1, FirstKid, SMTT(30)
  <2> HIDE DEF named
  <2> QED
    BY <2>2, Zenon
<1>5. target # NULL => target \in Kids(task, c) /\ (pid > 0 => task[target].pid = pid)
  <2>1. CASE pid > 0
    <3>1. target # NULL => target = named
      BY <2>1, Zenon
    <3> HIDE DEF target, named
    <3> QED
      BY <1>4, <3>1
  <2>2. CASE ~(pid > 0)
    <3> DEFINE good == {x \in Tasks : Reportable(task, x, flags)}
               x0 == task[c].child
    <3>1. good \in SUBSET Tasks /\ target = First(task, "next_sibling", x0, good)
      BY <2>2, SMTT(30) DEF get_first_waitpid_target
    <3>2. target \in (Kids(task, c) \cap good) \cup {NULL}
      <4> HIDE DEF good, target, c
      <4> QED
        BY <1>2, <1>3, <3>1, FirstKid
    <3> HIDE DEF target, good
    <3> QED
      BY <2>2, <3>2, Zenon
  <2> QED
    BY <2>1, <2>2, Zenon
<1>6. \/ Return(T, ESRCH)
      \/ target # NULL /\ Return(V, task[target].pid)
      \/ Return(T, 0)
      \/ Return(T, EINTR)
      \/ /\ pid > 0 => named # NULL
         /\ task' = [T EXCEPT ![c].state = "BLOCKED", ![c].block_reason = "WAITPID",
                              ![c].rax = SYSCALL_WAITPID]
         /\ pc' = [at |-> "waitpid", sti |-> TRUE, flags |-> flags, ws |-> ws,
                   child |-> IF pid > 0 THEN named ELSE NULL]
         /\ UNCHANGED <<current_task, rr_task, last_pid>>
  BY Zenon DEF waitpid
<1> HIDE DEF named, target
<1>7. T = [task EXCEPT ![c] = v] /\ v \in TaskType
  <2>1. T = [task EXCEPT ![c] = v]
    BY <1>1, <1>2, Zenon DEF TaskMap
  <2>2. v \in TaskType
    <3> HIDE DEF y
    <3> QED
      BY <1>2, Zenon DEF TaskType
  <2> QED
    BY <2>1, <2>2, Zenon
<1>8. T \in TaskMap /\ T[c] = v /\ \A t \in Tasks \ {c} : T[t] = task[t]
  <2> HIDE DEF v, T
  <2> QED
    BY <1>1, <1>2, <1>7, SMTT(30) DEF TaskMap
<1> DEFINE Same(t, x) == /\ Follows(task[t], x)
                         /\ x.state = "DELETED" => task[t].state = "DELETED" \/ task[t].parent = c
                         /\ WaitsIn(x) <=> WaitsIn(task[t])
                         /\ x.blocked_process = task[t].blocked_process
                         /\ x.asked = task[t].asked /\ x.rax = task[t].rax
<1>9. \A t \in Tasks : Same(t, task[t])
  BY <1>2, QuietSame, SMTT(30) DEF Quiet
<1>10. ASSUME NEW r \in {ESRCH, 0, EINTR}, Return(T, r) PROVE ProcInv'
  <2>1. r \in Int /\ (pid > 0 => r \in {pid, 0, EINTR, ESRCH})
    BY <1>10 DEF ESRCH, EINTR
  <2>2. \A t \in Tasks \ {c} : Same(t, T[t])
    BY <1>8, <1>9, SMTT(30)
  <2>3. T[c] = [task[c] EXCEPT !.asked = pid]
    BY <1>8, Zenon
  <2> HIDE DEF T
  <2> QED
    BY <1>1, <1>8, <1>10, <2>1, <2>2, <2>3, ReturnStep, SMTT(30)
<1>11. ASSUME target # NULL, Return(V, task[target].pid) PROVE ProcInv'
  <2> DEFINE b == task[target]
             w == V[target]
             r == b.pid
  <2>1. /\ target \in Tasks /\ target # c /\ b \in TaskType /\ b.parent = c
        /\ pid > 0 => r = pid
    BY <1>2, <1>3, <1>5, <1>11, SMTT(30) DEF Kids, InUse, TaskMap, Tree, Parents
  <2>2. T[target] = b
    BY <1>8, <2>1, Zenon
  <2>3. IF b.state = "ZOMBIE" THEN V = [T EXCEPT ![target].state = "DELETED"]
        ELSE V = [T EXCEPT ![target].waitpid_event = 0]
    BY Zenon
  <2> HIDE DEF T, V
  <2>4. /\ w = IF b.state = "ZOMBIE" THEN [b EXCEPT !.state = "DELETED"]
               ELSE [b EXCEPT !.waitpid_event = 0]
        /\ \A t \in Tasks \ {target} : V[t] = T[t]
        /\ V = [T EXCEPT ![target] = w]
    BY <1>8, <2>1, <2>2, <2>3, SMTT(30) DEF TaskMap
  <2>5. w \in TaskType /\ Same(target, w)
    <3>1. b.state # "STOPPED" /\ b = task[target]
      BY <1>2, <2>1, Zenon
    <3> HIDE DEF b, w, c
    <3>2. CASE b.state = "ZOMBIE" /\ w = [b EXCEPT !.state = "DELETED"]
      BY <2>1, <3>1, <3>2, SMTT(30) DEF TaskType, States, Follows, WaitsIn, Gone
    <3>3. CASE w = [b EXCEPT !.waitpid_event = 0]
      BY <2>1, <3>1, <3>3, SMTT(30) DEF TaskType, Follows, WaitsIn
    <3> QED
      BY <2>4, <3>2, <3>3, Zenon
  <2>6. V \in TaskMap
    <3> HIDE DEF w
    <3> QED
      BY <1>8, <2>4, <2>5 DEF TaskMap
  <2>7. \A t \in Tasks \ {c} : Same(t, V[t])
    BY <1>8, <1>9, <2>4, <2>5, ZenonT(30)
  <2>8. V[c] = [task[c] EXCEPT !.asked = pid]
    BY <1>1, <1>8, <2>1, <2>4, SMTT(30)
  <2>9. r \in Int /\ (pid > 0 => r \in {pid, 0, EINTR, ESRCH})
    BY <2>1 DEF TaskType
  <2> QED
    BY <1>1, <1>11, <2>6, <2>7, <2>8, <2>9, ReturnStep, SMTT(30)
<1>12. ASSUME pid > 0 => named # NULL,
              task' = [T EXCEPT ![c].state = "BLOCKED", ![c].block_reason = "WAITPID",
                                ![c].rax = SYSCALL_WAITPID],
              pc' = [at |-> "waitpid", sti |-> TRUE, flags |-> flags, ws |-> ws,
                     child |-> IF pid > 0 THEN named ELSE NULL],
              UNCHANGED <<current_task, rr_task, last_pid>>
       PROVE  ProcInv'
  <2> DEFINE k == IF pid > 0 THEN named ELSE NULL
  <2>1. /\ pc'.at = "waitpid" /\ pc'.child = k /\ pc'.ws = ws /\ pc'.flags = flags
    BY <1>12, Zenon
  <2>2. k \in TaskOrNull /\ (pid > 0 => k # NULL)
    BY <1>4, <1>12, SMTT(30) DEF Kids, InUse, TaskOrNull
  <2>3. k # NULL => Asks(T, c, k)
    <3> SUFFICES ASSUME k # NULL PROVE Asks(T, c, k)
      BY Zenon
    <3>1. /\ k \in Tasks /\ k # c /\ task[k].parent = c /\ task[k].pid = pid
          /\ task[k].state \notin {"FREE", "DELETED"}
      BY <1>3, <1>4, SMTT(30) DEF Kids, InUse, Tree, Parents
    <3>2. T[k] = task[k] /\ T[c].asked = pid
      <4>1. v.asked = pid
        <5> HIDE DEF y
        <5> QED
          BY <1>2, Zenon DEF TaskType
      <4> HIDE DEF v, T
      <4> QED
        BY <1>8, <3>1, <4>1, SMTT(30)
    <3> HIDE DEF T, k
    <3> QED
      BY <3>1, <3>2, Zenon DEF Asks
  <2>4. task' = [task EXCEPT ![c].asked = pid, ![c].state = "BLOCKED",
                             ![c].block_reason = "WAITPID", ![c].rax = SYSCALL_WAITPID]
    BY <1>1, <1>2, <1>12, SMTT(30) DEF TaskMap
  <2> HIDE DEF k
  <2> QED
    BY <1>1, <1>12, <2>1, <2>2, <2>3, <2>4, WaitStep, ZenonT(30)
<1> QED
  BY <1>6, <1>10, <1>11, <1>12

----------------------------------------------------------------------------
(* Every step, and the theorems.                                           *)

IInv == Unstopped => ProcInv

LEMMA InitInv == Init => ProcInv
<1> SUFFICES ASSUME Init PROVE ProcInv
  BY Zenon
<1> DEFINE z == [Blank EXCEPT !.state = "READY", !.pid = 1, !.next = InitTask,
                              !.parent = InitTask]
           r == [t \in Tasks |-> 0]
<1>1. /\ \A t \in Tasks : task[t] = IF t = InitTask THEN z ELSE Blank
      /\ DOMAIN task = Tasks /\ task = [t \in Tasks |-> task[t]]
      /\ current_task = InitTask /\ rr_task = InitTask /\ last_pid = 1
      /\ pc.at = "user" /\ world \in Worlds
  BY Zenon DEF Init, User
<1>2. InitTask \in Tasks /\ NULL \notin Tasks /\ InitTask \in TaskOrNull /\ NULL \in TaskOrNull
  BY ProcessAssumption, Zenon DEF TaskOrNull
<1>3. Blank \in TaskType /\ Blank.state = "FREE" /\ Blank.asked = 0 /\ Blank.child = NULL
  BY <1>2 DEF Blank, TaskType, States
<1>4. /\ z \in TaskType /\ z.state = "READY" /\ z.pid = 1 /\ z.next = InitTask
      /\ z.parent = InitTask /\ z.child = NULL /\ z.asked = 0
  <2> DEFINE a == [Blank EXCEPT !.state = "READY"]
             b == [a EXCEPT !.pid = 1]
             d == [b EXCEPT !.next = InitTask]
  <2>1. z = [d EXCEPT !.parent = InitTask] /\ 1 \in Nat /\ "READY" \in States
    BY Zenon DEF States
  <2>2. a \in TaskType /\ a.state = "READY" /\ a.child = NULL /\ a.asked = 0
    BY <1>3, <2>1, Zenon DEF TaskType
  <2> HIDE DEF a, z
  <2>3. b \in TaskType /\ b.state = "READY" /\ b.child = NULL /\ b.asked = 0 /\ b.pid = 1
    BY <2>1, <2>2, Zenon DEF TaskType
  <2> HIDE DEF b
  <2>4. /\ d \in TaskType /\ d.state = "READY" /\ d.child = NULL /\ d.asked = 0 /\ d.pid = 1
        /\ d.next = InitTask
    BY <1>2, <2>3, Zenon DEF TaskType
  <2> HIDE DEF d
  <2> QED
    BY <1>2, <2>1, <2>4, ZenonT(30) DEF TaskType
<1> HIDE DEF z
<1>5. task \in TaskMap
  BY <1>1, <1>3, <1>4, Zenon DEF TaskMap
<1>6. InUse(task) = {InitTask} /\ task[InitTask] = z
  BY <1>1, <1>2, <1>3, <1>4, ZenonT(30) DEF InUse
<1>7. Linkable(task, "next") /\ Linkable(task, "next_sibling")
  BY <1>5, Links, Zenon
<1>8. r \in [Tasks -> Nat] /\ r \in [Tasks -> 0 .. 0] /\ \A t \in Tasks : r[t] = 0
  OBVIOUS
<1> HIDE DEF r
<1>9. Ring(task)
  <2>1. Above(InUse(task), r, InitTask) = {}
    BY <1>2, <1>6, <1>8, SMTT(30) DEF Above
  <2>2. Ordered(task, "next", InUse(task), r, InitTask)
    BY <1>2, <1>4, <1>6, <2>1, ZenonT(30) DEF Ordered, LeastOf
  <2>3. \A u \in InUse(task) : r[InitTask] <= r[u]
    BY <1>2, <1>6, <1>8, SMTT(30)
  <2> QED
    BY <1>6, <1>7, <1>8, <2>2, <2>3, SMTT(30) DEF Ring, RingBy
<1>10. Tree(task, NULL)
  <2>1. Owners(task, NULL) = {InitTask}
    BY <1>4, <1>6, SMTT(30) DEF Owners, Gone
  <2>2. Kids(task, InitTask) = {}
    BY <1>6, Zenon DEF Kids
  <2>3. Head(task, task[InitTask].child, {}, r)
    BY <1>4, <1>6, Zenon DEF Head, Ordered, LeastOf
  <2>4. TreeBy(task, NULL, r)
    BY <2>1, <2>2, <2>3, SMTT(30) DEF TreeBy
  <2>5. Parents(task, NULL)
    BY <1>4, <1>6, <2>1, SMTT(30) DEF Parents
  <2> QED
    BY <1>7, <1>8, <2>4, <2>5, ZenonT(30) DEF Tree
<1>11. Pids(task, last_pid) /\ Waiting(task) = {}
  BY <1>1, <1>4, <1>6, SMTT(30) DEF Pids, Waiting
<1>12. Waits(task, NULL, NULL) /\ Answers(task, NULL, NULL)
  BY <1>4, <1>6, <1>11, SMTT(30) DEF Waits, Answers
<1>13. \A t \in Tasks : task[t].state # "STOPPED"
  BY <1>1, <1>3, <1>4, ZenonT(30)
<1>14. Kept(task, last_pid, NULL, NULL, NULL)
  BY <1>5, <1>9, <1>10, <1>11, <1>12, <1>13, SMTT(30) DEF Kept
<1>15. Handing = NULL /\ Between = NULL /\ Wanted = NULL /\ ~At("waitpid")
  BY <1>1, Zenon DEF Handing, Between, Wanted, At
<1>16. Runs(task, current_task, rr_task, pc.at)
  BY <1>1, <1>4, <1>6, SMTT(30) DEF Runs
<1> QED
  BY <1>1, <1>12, <1>14, <1>15, <1>16, SMTT(30) DEF ProcInv

\* What a world allows.
LEMMA WorldFacts ==
    ASSUME world \in Worlds
    PROVE  /\ \A ms \in 1 .. world.delay : ms \in Int
           /\ world.options \subseteq SUBSET {"WNOHANG", "WUNTRACED", "WCONTINUED"}
           /\ world.statuses \subseteq BOOLEAN
<1>1. world \in [tasks : SUBSET Tasks, pids : 1 .. MaxPid,
                 sigs : SUBSET {"TERM", "STOP", "CONT"},
                 options : SUBSET SUBSET {"WNOHANG", "WUNTRACED", "WCONTINUED"},
                 statuses : SUBSET BOOLEAN, delay : 0 .. MaxDelay, irq : BOOLEAN]
  BY ProcessAssumption, Zenon
<1>2. /\ world.options \in SUBSET SUBSET {"WNOHANG", "WUNTRACED", "WCONTINUED"}
      /\ world.statuses \in SUBSET BOOLEAN
  BY <1>1, Zenon
<1>3. \A ms \in 1 .. world.delay : ms \in Int
  OBVIOUS
<1> QED
  BY <1>2, <1>3, SMTT(30)

LEMMA StepInv ==
    ASSUME ProcInv, Unstopped, Next
    PROVE  ProcInv'
<1>1. UNCHANGED world /\ world \in Worlds /\ last_pid \in Nat
  BY Zenon DEF Next, ProcInv
<1>2. /\ \A ms \in 1 .. world.delay : ms \in Int
      /\ world.options \subseteq SUBSET {"WNOHANG", "WUNTRACED", "WCONTINUED"}
      /\ world.statuses \subseteq BOOLEAN
  BY <1>1, WorldFacts, Zenon
<1>3. CASE switch_task
  BY <1>1, <1>3, SwitchStep, SMTT(30)
<1>4. CASE syscall_end
  BY <1>1, <1>4, SyscallEndStep, SMTT(30)
<1>5. CASE exit_zombie
  BY <1>1, <1>5, ExitZombieStep
<1>6. CASE exit_reparent
  BY <1>1, <1>6, ExitReparentStep
<1>7. CASE exit \/ other_call
  BY <1>1, <1>7, ExitStep, SMTT(30)
<1>8. CASE spawn_fails
  BY <1>1, <1>8, SpawnFailsStep
<1>9. CASE yield
  BY <1>1, <1>9, YieldStep
<1>10. CASE waitpid_block
  BY <1>1, <1>10, WaitpidBlockStep
<1>11. CASE take_result
  BY <1>1, <1>11, TakeResultStep
<1>12. CASE \E q \in Tasks : fork(q) \/ execve(q)
  BY <1>1, <1>12, ForkStep, ExecveStep, SMTT(30)
<1>13. CASE \E ms \in 1 .. world.delay : sleep(ms)
  BY <1>1, <1>2, <1>13, SleepStep, SMTT(30)
<1>14. CASE \E pid \in {-1} \cup 2 .. last_pid, flags \in world.options, ws \in world.statuses :
               waitpid(pid, flags, ws)
  <2>1. PICK pid \in {-1} \cup 2 .. last_pid, flags \in world.options, ws \in world.statuses :
               waitpid(pid, flags, ws)
    BY <1>14, Zenon
  <2>2. pid \in Int
    BY <1>1
  <2>3. ws \in BOOLEAN /\ flags \in SUBSET {"WNOHANG", "WUNTRACED", "WCONTINUED"}
    BY <1>2, Zenon
  <2> QED
    BY <1>1, <2>1, <2>2, <2>3, WaitpidStep, SMTT(30)
<1>15. CASE \E sig \in world.sigs : kill(sig) \/ irq_kill(sig)
  <2>1. PICK sig \in world.sigs : kill(sig) \/ irq_kill(sig)
    BY <1>15, Zenon
  <2>2. sig # "STOP"
    BY SMTT(30) DEF Unstopped
  <2> QED
    BY <1>1, <2>1, <2>2, KillStep, IrqKillStep, SMTT(30)
<1>16. CASE irq_tick
  BY <1>1, <1>16, IrqTickStep
<1>17. CASE irq_preempt
  BY <1>1, <1>17, IrqPreemptStep
<1> QED
  BY <1>3, <1>4, <1>5, <1>6, <1>7, <1>8, <1>9, <1>10, <1>11, <1>12, <1>13, <1>14, <1>15,
     <1>16, <1>17, SMTT(30) DEF Next, Step

\* The invariant of the scheduler, for any number of tasks and any order of
\* calls, ticks and signals other than stop signals.
THEOREM SchedulerInvariant == Spec => []IInv
<1>1. Init => IInv
  BY InitInv, Zenon DEF IInv
<1>2. IInv /\ [Next]_<<vars, world>> => IInv'
  <2> SUFFICES ASSUME IInv, [Next]_<<vars, world>>, Unstopped' PROVE ProcInv'
    BY Zenon DEF IInv
  <2>1. UNCHANGED world
    BY Zenon DEF Next, vars
  <2>2. Unstopped /\ ProcInv
    BY <2>1, Zenon DEF Unstopped, IInv
  <2>3. CASE Next
    BY <2>2, <2>3, StepInv, Zenon
  <2>4. CASE UNCHANGED <<vars, world>>
    BY <2>2, <2>4, Zenon DEF vars, ProcInv, Handing, Between, Wanted, At
  <2> QED
    BY <2>3, <2>4, Zenon
<1> QED
  BY <1>1, <1>2, PTL DEF Spec

LEMMA RingFollows == ProcInv => RingIsWhole
<1> SUFFICES ASSUME ProcInv PROVE RingIsWhole
  BY Zenon
<1>1. /\ rr_task \in InUse(task) /\ current_task \in InUse(task) \cup {IdleTask}
      /\ Ring(task)
  BY Zenon DEF ProcInv, Runs, Kept
<1>2. Linkable(task, "next") /\ InitTask \in InUse(task) /\ InUse(task) \subseteq Tasks
  BY <1>1, Zenon DEF Ring, InUse
<1>3. PICK r \in [Tasks -> Nat] : RingBy(task, r)
  BY <1>1, Zenon DEF Ring
<1> DEFINE S == InUse(task)
<1>4. /\ \A u \in S : r[InitTask] <= r[u] /\ r[u] \in Nat
      /\ Ordered(task, "next", S, r, InitTask)
  BY <1>2, <1>3, Zenon DEF RingBy
<1>5. Nodes(task, "next", InitTask) = S
  <2> HIDE DEF S
  <2>1. InitTask \in S
    BY <1>2, Zenon DEF S
  <2> QED
    BY <1>2, <1>4, <2>1, NodesOfRing, SMTT(30)
<1>6. \A t \in S : LeastOf(task[t].next, Above(S, r, t), r, InitTask)
  BY <1>4, Zenon DEF Ordered
<1>7. \A t \in S : task[t].next \in S
  BY <1>2, <1>6, Zenon DEF LeastOf, Above
<1>8. ASSUME NEW s \in S, NEW t \in S, task[s].next = task[t].next, r[s] < r[t] PROVE FALSE
  <2> DEFINE x == task[s].next
  <2>1. t \in Above(S, r, s)
    BY <1>4, <1>8, Zenon DEF Above
  <2>2. x \in Above(S, r, s) /\ r[x] <= r[t]
    BY <1>6, <2>1, Zenon DEF LeastOf
  <2>3. r[x] > r[s] /\ x \in S /\ r[x] \in Nat /\ r[s] \in Nat /\ r[t] \in Nat
    BY <1>4, <2>2, Zenon DEF Above
  <2>4. LeastOf(x, Above(S, r, t), r, InitTask)
    BY <1>6, <1>8, Zenon
  <2>5. x \notin Above(S, r, t)
    BY <2>2, <2>3, SMTT(30) DEF Above
  <2>6. x = InitTask
    BY <2>4, <2>5, Zenon DEF LeastOf
  <2>7. r[x] <= r[s]
    BY <1>4, <2>6, SMTT(30)
  <2> HIDE DEF x
  <2> QED
    BY <2>3, <2>7
<1>9. \A s, t \in S : task[s].next = task[t].next => s = t
  <2> SUFFICES ASSUME NEW s \in S, NEW t \in S, task[s].next = task[t].next, s # t PROVE FALSE
    BY Zenon
  <2>1. r[s] \in Nat /\ r[t] \in Nat /\ r[s] # r[t]
    BY <1>4, Zenon DEF Ordered
  <2>2. r[s] < r[t] \/ r[t] < r[s]
    BY <2>1, SMTT(30)
  <2> QED
    BY <1>8, <2>2, SMTT(30)
<1> QED
  BY <1>1, <1>5, <1>7, <1>9, SMTT(30) DEF RingIsWhole

LEMMA TreeFollows == IInv => TreeMatchesParents
<1> SUFFICES ASSUME ProcInv, NEW p \in InUse(task)
             PROVE  /\ task[p].parent \in InUse(task)
                    /\ task[task[p].parent].state \in Gone =>
                           At("zombie") /\ current_task = task[p].parent
                    /\ task[p].state \notin Gone =>
                           /\ Nodes(task, "next_sibling", task[p].child) =
                                 {t \in InUse(task) \ {InitTask} : task[t].parent = p}
                           /\ Walk(task, "next_sibling", task[p].child)[Cardinality(Tasks)]
                                 = NULL
  BY Zenon DEF IInv, TreeMatchesParents
<1>1. Tree(task, Handing) /\ task \in TaskMap
  BY Zenon DEF ProcInv, Kept
<1>2. task[p].parent \in Owners(task, Handing)
  BY <1>1, Zenon DEF Tree, Parents
<1>3. task[p].parent \in InUse(task) /\ task[p].parent # NULL
  BY <1>2, ProcessAssumption, Zenon DEF Owners, InUse
<1>4. task[task[p].parent].state \in Gone => At("zombie") /\ current_task = task[p].parent
  BY <1>2, <1>3, Zenon DEF Owners, Handing
<1>5. ASSUME task[p].state \notin Gone
      PROVE  /\ Nodes(task, "next_sibling", task[p].child) = Kids(task, p)
             /\ Walk(task, "next_sibling", task[p].child)[Cardinality(Tasks)] = NULL
  <2>1. PICK B \in Nat : \E r \in [Tasks -> 0 .. B] : TreeBy(task, Handing, r)
    BY <1>1, Zenon DEF Tree
  <2>2. PICK r \in [Tasks -> 0 .. B] : TreeBy(task, Handing, r)
    BY <2>1, Zenon
  <2>3. r \in [Tasks -> Nat]
    BY <2>1, <2>2, SMTT(30)
  <2>4. p \in Owners(task, Handing)
    BY <1>5, Zenon DEF Owners
  <2> DEFINE S == Kids(task, p)
             x == task[p].child
  <2>5. Head(task, x, S, r) /\ Linkable(task, "next_sibling")
    BY <1>1, <2>2, <2>4, Links, SMTT(30) DEF TreeBy
  <2> HIDE DEF S, x
  <2>6. Nodes(task, "next_sibling", x) = S
        /\ Walk(task, "next_sibling", x)[Cardinality(Tasks)] = NULL
    BY <2>3, <2>5, NodesOfList, SMTT(30)
  <2> QED
    BY <2>6, Zenon DEF S, x
<1> QED
  BY <1>3, <1>4, <1>5, SMTT(30) DEF Kids

\* The ring holds every task and nothing else, and current_task and rr_task
\* point into it, for any number of tasks, as long as no signal stops one.
THEOREM RingStaysWhole == Spec => [](Unstopped => RingIsWhole)
<1>1. IInv => (Unstopped => RingIsWhole)
  BY RingFollows, Zenon DEF IInv
<1> QED
  BY <1>1, SchedulerInvariant, PTL

\* The lists of children are the tree of parents, through fork, execve, exit,
\* waitpid and gc_tasks in any order.
THEOREM TreesMatchParents == Spec => []TreeMatchesParents
BY TreeFollows, SchedulerInvariant, PTL

\* No two tasks that can be found have the same pid.
THEOREM PidsNameOneTask == Spec => [](Unstopped => PidNamesOneTask)
<1>1. IInv => (Unstopped => PidNamesOneTask)
  BY SMTT(30) DEF IInv, ProcInv, Kept, Pids, PidNamesOneTask
<1> QED
  BY <1>1, SchedulerInvariant, PTL

\* A task that waits for one child waits for a structure that is that child,
\* after every execve, exit and gc_tasks.
THEOREM WaitersHaveTheirChild == Spec => []WaitsForItsChild
<1>1. IInv => WaitsForItsChild
  <2> SUFFICES ASSUME ProcInv, NEW t \in Waiting(task), Settled(t),
                      task[t].blocked_process # NULL
               PROVE  LET b == task[t].blocked_process
                      IN  /\ task[b].state \notin {"FREE", "DELETED"}
                          /\ task[b].parent = t /\ task[b].pid = task[t].asked
    BY Zenon DEF IInv, WaitsForItsChild
  <2>1. Waits(task, Between, Wanted)
    BY Zenon DEF ProcInv, Kept
  <2>2. t # Between
    BY ProcessAssumption, Zenon DEF Between, Settled, Waiting, InUse
  <2>3. Asks(task, t, task[t].blocked_process)
    BY <2>1, <2>2, SMTT(30) DEF Waits, Awaited
  <2> QED
    BY <2>3, Zenon DEF Asks
<1> QED
  BY <1>1, SchedulerInvariant, PTL

\* waitpid for one child returns that child's pid, 0 or an error, unless an
\* interrupt splits it.
THEOREM WaitpidAnswers == Spec => []CalmWaitpidAnswersAsked
<1>1. IInv => CalmWaitpidAnswersAsked
  <2> SUFFICES ASSUME ProcInv, ~world.irq, At("user"), current_task \in Tasks,
                      task[current_task].asked > 0
               PROVE  task[current_task].rax \in {task[current_task].asked, 0, EINTR, ESRCH}
    BY Zenon DEF IInv, CalmWaitpidAnswersAsked, WaitpidAnswersAsked
  <2>1. /\ current_task \in InUse(task) /\ Answers(task, NULL, NULL)
        /\ task[current_task].state \in {"READY", "RUNNING"}
    BY CurrentFacts, Zenon
  <2> QED
    BY <2>1, Zenon DEF Answers, Waiting
<1> QED
  BY <1>1, SchedulerInvariant, PTL
=============================================================================
