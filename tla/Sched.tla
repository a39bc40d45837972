-------------------------------- MODULE Sched --------------------------------
(***************************************************************************)
(* The scheduler of proc/sched.c: the static variables of that file, the    *)
(* fields of struct task it works on, and what each of its functions does   *)
(* to them.  Who calls these functions, from which interrupt or system      *)
(* call and with which interrupts masked, is Kernel.tla's subject.          *)
(***************************************************************************)
EXTENDS RoundRobin, Integers, FiniteSets

CONSTANTS Tasks,     \* the tasks main may create
          NULL,      \* the null pointer
          BOOT,      \* the scheduler's own task, never in the run queue
          CountMod   \* switch counts wrap at this value, 2^64 in the code

ASSUME SchedAssumption ==
  /\ IsFiniteSet(Tasks)
  /\ NULL \notin Tasks /\ BOOT \notin Tasks /\ NULL # BOOT
  /\ CountMod \in Nat \ {0}

VARIABLES
  ring,          \* the run queue, in order from run_queue_head
  cursor,        \* where round robin resumes looking
  current,       \* the dispatched task, NULL while the scheduler thread runs
  need_resched,
  state,         \* task->state
  chan,          \* task->chan
  trap_frame,    \* task->trap_frame, see Frames
  switch_count,  \* task->switch_count, BOOT's included
  loaded         \* whose kernel stack top (TSS.rsp0, percpu.kernel_rsp) and
                 \* address space the CPU has, NULL for the boot ones

schedVars == <<ring, cursor, current, need_resched, state, chan, trap_frame,
               switch_count, loaded>>

\* TASK_ZOMBIE exists in the header but nothing assigns it.
TaskStates == {"DEAD", "READY", "RUNNING", "BLOCKED"}

\* What a struct trap_frame pointer can point at: the frame at the top of the
\* task's kernel stack (arch_task_user_frame), the frame of an interrupt that
\* hit the task inside the kernel, or the place of such a frame after it was
\* popped.
Frames == {"user", "nested", "dangling"}

Contexts == Tasks \cup {BOOT}

Queued == Range(ring)

Ready == {t \in Queued : state[t] = "READY"}

sched_pick_next == FirstReady(ring, cursor, Ready, NULL)

sched_any_alive == \E t \in Queued : state[t] # "DEAD"

SchedInit ==
  /\ ring = <<>>
  /\ cursor = NULL
  /\ current = NULL
  /\ need_resched = FALSE
  /\ state = [t \in Tasks |-> "READY"]
  /\ chan = [t \in Tasks |-> NULL]
  /\ trap_frame = [t \in Tasks |-> "user"]
  /\ switch_count = [c \in Contexts |-> 0]
  /\ loaded = NULL

sched_add_task(t) ==
  /\ ring' = AddAfterHead(ring, t)
  /\ UNCHANGED <<cursor, current, need_resched, state, chan, trap_frame,
                 switch_count, loaded>>

sched_on_timer_tick ==
  /\ need_resched' = TRUE
  /\ UNCHANGED <<ring, cursor, current, state, chan, trap_frame, switch_count, loaded>>

\* sched_exit_current is two assignments, and interrupts are on between them.
ExitFlagDead ==
  /\ state' = [state EXCEPT ![current] = "DEAD"]
  /\ UNCHANGED <<ring, cursor, current, need_resched, chan, trap_frame,
                 switch_count, loaded>>

ExitAskResched ==
  /\ need_resched' = TRUE
  /\ UNCHANGED <<ring, cursor, current, state, chan, trap_frame, switch_count, loaded>>

\* The part of sched_on_trap_exit that does not switch: record the frame.
TrapExitStay(frame) ==
  /\ ~need_resched
  /\ trap_frame' = [trap_frame EXCEPT ![current] = frame]
  /\ UNCHANGED <<ring, cursor, current, need_resched, state, chan, switch_count, loaded>>

\* Mutants of TrapExitSwitch: the task stays RUNNING; its frame is not
\* recorded; any task, DEAD ones included, becomes READY.
SwitchStaysRunning(frame) ==
  /\ need_resched
  /\ need_resched' = FALSE
  /\ trap_frame' = [trap_frame EXCEPT ![current] = frame]
  /\ UNCHANGED <<ring, cursor, current, state, chan, switch_count, loaded>>

SwitchForgetsFrame(frame) ==
  /\ need_resched
  /\ need_resched' = FALSE
  /\ state' = [state EXCEPT ![current] = IF @ = "RUNNING" THEN "READY" ELSE @]
  /\ UNCHANGED <<ring, cursor, current, chan, trap_frame, switch_count, loaded>>

SwitchRevives(frame) ==
  /\ need_resched
  /\ need_resched' = FALSE
  /\ trap_frame' = [trap_frame EXCEPT ![current] = frame]
  /\ state' = [state EXCEPT ![current] = "READY"]
  /\ UNCHANGED <<ring, cursor, current, chan, switch_count, loaded>>

\* The part that does, up to the call of sched().
TrapExitSwitch(frame) ==
  /\ need_resched
  /\ need_resched' = FALSE
  /\ trap_frame' = [trap_frame EXCEPT ![current] = frame]
  /\ state' = [state EXCEPT ![current] = IF @ = "RUNNING" THEN "READY" ELSE @]
  /\ UNCHANGED <<ring, cursor, current, chan, switch_count, loaded>>

\* sleep(), up to the call of sched(); its lock is the caller's.
SleepOn(ch) ==
  /\ chan' = [chan EXCEPT ![current] = ch]
  /\ state' = [state EXCEPT ![current] = "BLOCKED"]
  /\ UNCHANGED <<ring, cursor, current, need_resched, trap_frame, switch_count, loaded>>

\* sleep(), from the return of sched() to the lock.
SleepOver(t) ==
  /\ chan' = [chan EXCEPT ![t] = NULL]
  /\ UNCHANGED <<ring, cursor, current, need_resched, state, trap_frame,
                 switch_count, loaded>>

\* Mutant of wakeup: it stops at the first sleeper.
WakeupFirst(ch) ==
  LET sleepers == {t \in Queued : state[t] = "BLOCKED" /\ chan[t] = ch}
  IN  /\ \/ sleepers = {} /\ UNCHANGED state
         \/ \E t \in sleepers : state' = [state EXCEPT ![t] = "READY"]
      /\ UNCHANGED <<ring, cursor, current, need_resched, chan, trap_frame,
                     switch_count, loaded>>

wakeup(ch) ==
  /\ state' = [t \in Tasks |-> IF t \in Queued /\ state[t] = "BLOCKED" /\ chan[t] = ch
                               THEN "READY" ELSE state[t]]
  /\ UNCHANGED <<ring, cursor, current, need_resched, chan, trap_frame,
                 switch_count, loaded>>

\* Mutant of Dispatch: the cursor never moves.
DispatchKeepsCursor ==
  /\ sched_pick_next # NULL
  /\ current' = sched_pick_next
  /\ loaded' = sched_pick_next
  /\ state' = [state EXCEPT ![sched_pick_next] = "RUNNING"]
  /\ switch_count' = [switch_count EXCEPT ![sched_pick_next] = (@ + 1) % CountMod]
  /\ UNCHANGED <<ring, cursor, need_resched, chan, trap_frame>>

\* scheduler(): from picking a task to the switch onto its stack.
Dispatch ==
  /\ sched_pick_next # NULL
  /\ cursor' = sched_pick_next
  /\ current' = sched_pick_next
  /\ loaded' = sched_pick_next
  /\ state' = [state EXCEPT ![sched_pick_next] = "RUNNING"]
  /\ switch_count' = [switch_count EXCEPT ![sched_pick_next] = (@ + 1) % CountMod]
  /\ UNCHANGED <<ring, need_resched, chan, trap_frame>>

\* scheduler(): back on its own stack, after the task's sched().
TakeBack ==
  /\ switch_count' = [switch_count EXCEPT ![BOOT] = (@ + 1) % CountMod]
  /\ current' = NULL
  /\ UNCHANGED <<ring, cursor, need_resched, state, chan, trap_frame, loaded>>
=============================================================================
