----------------------------- MODULE KernelProps -----------------------------
(***************************************************************************)
(* What the kernel of Kernel.tla has to get right.                          *)
(***************************************************************************)
EXTENDS Kernel, Sums

\* Every variable holds a value of its kind.
TypeOK ==
  /\ ring \in Seq(Tasks)
  /\ cursor \in Tasks \cup {NULL}
  /\ current \in Tasks \cup {NULL}
  /\ need_resched \in BOOLEAN
  /\ state \in [Tasks -> TaskStates]
  /\ chan \in [Tasks -> {NULL, CONSOLE}]
  /\ trap_frame \in [Tasks -> Frames]
  /\ switch_count \in [Contexts -> 0..(CountMod - 1)]
  /\ loaded \in Tasks \cup {NULL}
  /\ on_cpu \in Contexts
  /\ irq_on \in BOOLEAN
  /\ pc \in [Contexts -> TaskPc \cup BootPc]
  /\ pc[BOOT] \in BootPc
  /\ \A t \in Tasks : pc[t] \in TaskPc
  /\ trap \in [Contexts -> TrapPc]
  /\ lock \in BOOLEAN
  /\ ld \in LdiscType
  /\ rx \in 0..RxDepth

\* There is one processor, so whoever spins on a taken lock spins for ever.
\* Neither console_dev_feed nor console_dev_ops_read, first time or back from
\* sleep(), ever finds the console's lock taken.
NeverSpins ==
  \A c \in Contexts :
    InTrap(c, "serial") \/ At(c, "acquire") => ~lock

\* No lost wakeup: while a finished line is there, no task sleeps on it,
\* except in the interrupt handler between the feed and its wakeup().
NoLostWakeup ==
  /\ ldisc_ready(ld)
  /\ \A c \in Contexts : trap[c] \notin {"fed", "ready"}
  => \A t \in Tasks : ~(state[t] = "BLOCKED" /\ chan[t] = CONSOLE)

\* The processor runs the task the scheduler believes it runs: only current
\* is RUNNING, a task's stack is only ever entered as current with its own
\* kernel stack and address space loaded, and it is then RUNNING, on its way
\* out of sleep()'s or exit's last steps.
RunsCurrent ==
  /\ \A t \in Tasks : state[t] = "RUNNING" => current = t /\ on_cpu = t
  /\ current # NULL => on_cpu = current \/ At(BOOT, "returned")
  /\ on_cpu # BOOT => /\ current = on_cpu
                      /\ loaded = on_cpu
                      /\ \/ state[on_cpu] = "RUNNING"
                         \/ state[on_cpu] = "BLOCKED" /\ pc[on_cpu] = "sleeping"
                         \/ state[on_cpu] = "DEAD" /\ pc[on_cpu] \in {"exiting", "done", "exit"}

\* A task switched out by sched_on_trap_exit leaves, when it runs again,
\* through the frame it entered by, though nested traps and other system
\* calls of its own rewrote task->trap_frame in between; a task that never
\* ran leaves through the frame task_create_user built.
LeavesByOwnFrame ==
  \A t \in Tasks :
    /\ trap[t] = "off" => trap_frame[t] = FrameOf(t)
    /\ trap[t] = "none" /\ pc[t] \in {"off", "new"} => trap_frame[t] = "user"

\* No kpanic() of sched.c can fire, the two stack guard checks apart (stack
\* contents are not modelled): a trap is left on the current task's stack; sched() is called masked and from a
\* task; sleep() is resumed masked; a task comes back to the scheduler as the
\* one it dispatched.
NoPanic ==
  /\ \A t \in Tasks :
       /\ InTrap(t, "exit") \/ At(t, "exit") => current = t /\ loaded = t /\ ~irq_on
       /\ At(t, "sleeping") \/ At(t, "asleep") => current = t /\ ~irq_on
  /\ At(BOOT, "returned") => current = cursor /\ ~irq_on
  /\ InTrap(BOOT, "exit") => current = NULL

\* The scheduler thread waits for an interrupt only when no queued task is
\* READY and one is alive, and powers off only when all of them are DEAD.
IdlesOnlyWhenNothingReady ==
  /\ At(BOOT, "idle") => Ready = {} /\ sched_any_alive
  /\ At(BOOT, "halted") => ~sched_any_alive

\* BOOT's switch count is the sum of the tasks' counts, minus one while a
\* task is dispatched: every dispatch is paid back by one return.
SwitchCountsBalance ==
  (SumOver(Tasks, switch_count) - (IF current = NULL THEN 0 ELSE 1) - switch_count[BOOT])
    % CountMod = 0

\* exit is final: a DEAD task stays DEAD, never returns to user mode, and
\* once off the processor never gets it back, whichever interrupts hit
\* between the two assignments of sched_exit_current.
DeadNeverRunsAgain ==
  [][\A t \in Tasks :
       state[t] = "DEAD" => /\ state'[t] = "DEAD"
                            /\ pc'[t] # "user"
                            /\ on_cpu # t => on_cpu' # t]_vars

\* What the comment on task->trap_frame says: it is rewritten on every kernel
\* entry, so inside the kernel it is the frame of the innermost entry.
TrapFrameRewrittenOnEntry ==
  \A t \in Tasks :
    on_cpu = t /\ pc[t] \notin {"new", "user"} =>
      trap_frame[t] = IF trap[t] = "none" THEN "user" ELSE "nested"

-----------------------------------------------------------------------------
\* Round robin starves nobody: a queued READY task is eventually dispatched.
ReadyRuns ==
  \A t \in Tasks : (t \in Queued /\ state[t] = "READY") ~> (state[t] = "RUNNING")

\* When the last task has exited, the machine powers off.
LastExitPowersOff ==
  (pc[BOOT] # "boot" /\ ~sched_any_alive) ~> At(BOOT, "halted")

\* The console implements LineSource: reads hand out finished lines exactly
\* once, in non-empty pieces, and a reader is served while a line is there.
Lines == INSTANCE LineSource WITH
  Readers <- Tasks,
  LineMax <- LDISC_BUF_SIZE,
  avail   <- IF ldisc_ready(ld) THEN Len(ld.buf) - ld.consumed ELSE 0,
  waiting <- {t \in Tasks : pc[t] \in {"masking", "acquire", "test", "sleeping", "asleep"}}

ServesLines == Lines!Spec
=============================================================================
