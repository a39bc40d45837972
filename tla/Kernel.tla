------------------------------- MODULE Kernel -------------------------------
(***************************************************************************)
(* The running kernel on its one processor: user tasks making system calls, *)
(* the timer and serial interrupts that hit them anywhere interrupts are    *)
(* on, the console driver (drivers/console_dev.c) with its lock and line    *)
(* discipline, and the scheduler thread (scheduler() in proc/sched.c).      *)
(*                                                                          *)
(* The processor stands on one kernel stack at a time (on_cpu).  On every   *)
(* stack, pc says where the task's own code is and trap where the handler   *)
(* of an interrupt that hit it is; only what runs on on_cpu moves.  One     *)
(* action is one stretch of code no interrupt can split.                    *)
(***************************************************************************)
EXTENDS Sched, Ldisc

CONSTANTS ReadSizes,   \* sizes user programs pass to read(), 0 left out
          RxDepth      \* bytes the UART can hold

ASSUME KernelAssumption == ReadSizes \subseteq Nat \ {0} /\ RxDepth \in Nat

VARIABLES
  on_cpu,   \* whose kernel stack the processor stands on
  irq_on,   \* interrupts are unmasked (RFLAGS.IF, DAIF.I)
  pc,       \* where each task's own code is, see TaskPc and BootPc
  trap,     \* where the interrupt handler on each stack is, see TrapPc
  lock,     \* the console's spinlock is taken
  ld,       \* the console's line discipline
  rx        \* bytes waiting in the UART

cpuVars == <<on_cpu, irq_on, pc, trap>>
conVars == <<lock, ld, rx>>
vars == <<schedVars, cpuVars, conVars>>

\* new: never ran, its switch_frame leads to task_trampoline.  user: in user
\* mode.  entered: in a system call, interrupts on.  masking, acquire, test,
\* sleeping, asleep, drained: in console_dev_ops_read.  exiting: between the
\* two assignments of sched_exit_current.  done: the system call's body
\* returned.  exit: before sched_on_trap_exit.  off: switched out by it.
TaskPc == {"new", "user", "entered", "masking", "acquire", "test", "sleeping",
           "asleep", "drained", "exiting", "done", "exit", "off"}

\* boot: main.  loop: top of the scheduler's loop.  idle: in arch_idle, no
\* interrupt taken yet.  woken: one was.  returned: a task switched back.
\* halted: powered off.
BootPc == {"boot", "loop", "idle", "woken", "returned", "halted"}

\* none: no interrupt on this stack.  serial: at the top of the receive loop.
\* fed: console_dev_feed holds the lock.  ready: it found a finished line and
\* dropped the lock.  exit: before sched_on_trap_exit.  off: switched out.
TrapPc == {"none", "serial", "fed", "ready", "exit", "off"}

\* What console readers sleep on: the address of the ldisc.
CONSOLE == "ld"

At(c, where) == on_cpu = c /\ trap[c] = "none" /\ pc[c] = where

InTrap(c, where) == on_cpu = c /\ trap[c] = where

Goto(c, where) == pc' = [pc EXCEPT ![c] = where]

TrapGoto(c, where) == trap' = [trap EXCEPT ![c] = where]

\* The frame an interrupt on t's stack has pushed: over the user frame's
\* place when it came from user mode, below the system call otherwise.
FrameOf(t) == IF pc[t] = "user" THEN "user" ELSE "nested"

\* A trap_frame pointer once the frame it points at has been popped.
Popped(frame) == IF frame = "user" THEN "user" ELSE "dangling"

Init ==
  /\ SchedInit
  /\ on_cpu = BOOT
  /\ irq_on = FALSE
  /\ pc = [c \in Contexts |-> IF c = BOOT THEN "boot" ELSE "new"]
  /\ trap = [c \in Contexts |-> "none"]
  /\ lock = FALSE
  /\ ld = ldisc_init
  /\ rx = 0

-----------------------------------------------------------------------------
(* Leaving a trap *)

\* The restore tail: registers, pc and interrupt mask come from the frame.
\* All frames were pushed with interrupts on.
TrapReturn(t, frame) ==
  /\ irq_on' = TRUE
  /\ trap' = [trap EXCEPT ![t] = "none"]
  /\ pc' = IF frame = "nested" THEN pc ELSE [pc EXCEPT ![t] = "user"]
  /\ UNCHANGED on_cpu

\* sched(): park this stack, continue the scheduler's.
SwitchToScheduler ==
  /\ on_cpu' = BOOT
  /\ UNCHANGED irq_on

\* The tail of an interrupt handler, sched_on_trap_exit included.
IrqExit(c) ==
  /\ InTrap(c, "exit")
  /\ UNCHANGED conVars
  /\ \/ /\ current = NULL
        /\ irq_on' = TRUE
        /\ TrapGoto(c, "none")
        /\ pc' = [pc EXCEPT ![c] = IF @ = "idle" THEN "woken" ELSE @]
        /\ UNCHANGED <<schedVars, on_cpu>>
     \/ /\ current # NULL
        /\ TrapExitStay(Popped(FrameOf(c)))
        /\ TrapReturn(c, FrameOf(c))
     \/ /\ current # NULL
        /\ TrapExitSwitch(FrameOf(c))
        /\ SwitchToScheduler
        /\ TrapGoto(c, "off")
        /\ Goto(BOOT, "returned")

\* The tail of the system call handler.
SyscallExit(t) ==
  /\ At(t, "exit")
  /\ UNCHANGED conVars
  /\ \/ TrapExitStay("user") /\ TrapReturn(t, "user")
     \/ /\ TrapExitSwitch("user")
        /\ SwitchToScheduler
        /\ pc' = [pc EXCEPT ![t] = "off", ![BOOT] = "returned"]
        /\ UNCHANGED trap

\* A task resumed inside sched_on_trap_exit, or one that never ran: leave
\* through the frame recorded in the task.
ResumeTrapExit(t) ==
  /\ \/ InTrap(t, "off")
     \/ At(t, "off")
     \/ At(t, "new")
  /\ TrapReturn(t, trap_frame[t])
  /\ trap_frame' = [trap_frame EXCEPT ![t] = Popped(@)]
  /\ UNCHANGED <<ring, cursor, current, need_resched, state, chan, switch_count,
                 loaded, conVars>>

-----------------------------------------------------------------------------
(* Interrupts *)

\* A byte reaches the UART; it is lost when the UART is full.
ByteArrives ==
  /\ pc[BOOT] \notin {"boot", "halted"}
  /\ rx < RxDepth
  /\ rx' = rx + 1
  /\ UNCHANGED <<schedVars, cpuVars, lock, ld>>

\* An interrupt is taken on whatever stack the processor stands on, and
\* masks interrupts until its handler returns.
Interrupt(where) ==
  /\ irq_on
  /\ irq_on' = FALSE
  /\ TrapGoto(on_cpu, where)
  /\ UNCHANGED <<on_cpu, pc>>

TimerIrq == Interrupt("exit") /\ sched_on_timer_tick /\ UNCHANGED conVars

SerialIrq == rx > 0 /\ Interrupt("serial") /\ UNCHANGED <<schedVars, conVars>>

\* An interrupt with nothing to do, or a spurious one.
OtherIrq == Interrupt("exit") /\ UNCHANGED <<schedVars, conVars>>

\* Mutant of SerialByte: the UART is read without asking whether it has a byte.
SerialByteUnasked(c) ==
  /\ InTrap(c, "serial")
  /\ rx' = rx - 1
  /\ UNCHANGED <<schedVars, cpuVars, lock, ld>>

\* The receive loop takes a byte: console_dev_feed, up to the unlock.
SerialByte(c) ==
  /\ InTrap(c, "serial")
  /\ rx > 0
  /\ rx' = rx - 1
  /\ \/ UNCHANGED <<trap, lock, ld>>      \* Ctrl-P: dump the tasks
     \/ /\ ~lock
        /\ lock' = TRUE
        /\ \E byte \in Bytes \ {"ctrlp"} : ld' = ldisc_feed(ld, byte)
        /\ TrapGoto(c, "fed")
  /\ UNCHANGED <<schedVars, on_cpu, irq_on, pc>>

FeedUnlock(c) ==
  /\ InTrap(c, "fed")
  /\ lock' = FALSE
  /\ TrapGoto(c, IF ldisc_ready(ld) THEN "ready" ELSE "serial")
  /\ UNCHANGED <<schedVars, on_cpu, irq_on, pc, ld, rx>>

FeedWakeup(c) ==
  /\ InTrap(c, "ready")
  /\ wakeup(CONSOLE)
  /\ TrapGoto(c, "serial")
  /\ UNCHANGED <<on_cpu, irq_on, pc, conVars>>

SerialDone(c) ==
  /\ InTrap(c, "serial")
  /\ rx = 0
  /\ TrapGoto(c, "exit")
  /\ UNCHANGED <<schedVars, on_cpu, irq_on, pc, conVars>>

-----------------------------------------------------------------------------
(* System calls *)

\* The program executes syscall or svc; the handler turns interrupts on.
Syscall(t) ==
  /\ At(t, "user")
  /\ Goto(t, "entered")
  /\ UNCHANGED <<schedVars, on_cpu, irq_on, trap, conVars>>

\* syscall_dispatch: a console read that passes its argument checks, an
\* exit, or any call that touches neither scheduler nor console input.
SyscallDispatch(t) ==
  /\ At(t, "entered")
  /\ \/ Goto(t, "masking") /\ UNCHANGED schedVars
     \/ Goto(t, "exiting") /\ ExitFlagDead
     \/ Goto(t, "done") /\ UNCHANGED schedVars
  /\ UNCHANGED <<on_cpu, irq_on, trap, conVars>>

SysExitTail(t) ==
  /\ At(t, "exiting")
  /\ ExitAskResched
  /\ Goto(t, "done")
  /\ UNCHANGED <<on_cpu, irq_on, trap, conVars>>

\* Mutant of SyscallMask: interrupts stay on.
SyscallStaysOpen(t) ==
  /\ At(t, "done")
  /\ Goto(t, "exit")
  /\ UNCHANGED <<schedVars, on_cpu, irq_on, trap, conVars>>

\* The system call handler after the dispatch: arch_irq_disable.
SyscallMask(t) ==
  /\ At(t, "done")
  /\ irq_on' = FALSE
  /\ Goto(t, "exit")
  /\ UNCHANGED <<schedVars, on_cpu, trap, conVars>>

\* Mutant of ReadMask: spinlock_lock in place of spinlock_lock_irqsave.
ReadStaysOpen(t) ==
  /\ At(t, "masking")
  /\ Goto(t, "acquire")
  /\ UNCHANGED <<schedVars, on_cpu, irq_on, trap, conVars>>

\* spinlock_lock_irqsave: mask first, then spin.
ReadMask(t) ==
  /\ At(t, "masking")
  /\ irq_on' = FALSE
  /\ Goto(t, "acquire")
  /\ UNCHANGED <<schedVars, on_cpu, trap, conVars>>

ReadLock(t) ==
  /\ At(t, "acquire")
  /\ ~lock
  /\ lock' = TRUE
  /\ Goto(t, "test")
  /\ UNCHANGED <<schedVars, on_cpu, irq_on, trap, ld, rx>>

\* The loop of console_dev_ops_read: drain a finished line or sleep.
ReadDrain(t) ==
  /\ At(t, "test")
  /\ ldisc_ready(ld)
  /\ \E size \in ReadSizes : ld' = ldisc_drain(ld, size)
  /\ Goto(t, "drained")
  /\ UNCHANGED <<schedVars, on_cpu, irq_on, trap, lock, rx>>

ReadSleep(t) ==
  /\ At(t, "test")
  /\ ~ldisc_ready(ld)
  /\ SleepOn(CONSOLE)
  /\ lock' = FALSE
  /\ Goto(t, "sleeping")
  /\ UNCHANGED <<on_cpu, irq_on, trap, ld, rx>>

\* sleep() calls sched().
SleepSwitch(t) ==
  /\ At(t, "sleeping")
  /\ SwitchToScheduler
  /\ pc' = [pc EXCEPT ![t] = "asleep", ![BOOT] = "returned"]
  /\ UNCHANGED <<schedVars, trap, conVars>>

\* Mutant of SleepResume: the reader drains without testing again, an if in
\* place of the while.
SleepResumeDrains(t) ==
  /\ At(t, "asleep")
  /\ SleepOver(t)
  /\ lock' = TRUE
  /\ \E size \in ReadSizes : ld' = ldisc_drain(ld, size)
  /\ Goto(t, "drained")
  /\ UNCHANGED <<on_cpu, irq_on, trap, rx>>

\* sched() returned into sleep(), which goes for its lock again.
SleepResume(t) ==
  /\ At(t, "asleep")
  /\ SleepOver(t)
  /\ Goto(t, "acquire")
  /\ UNCHANGED <<on_cpu, irq_on, trap, conVars>>

\* spinlock_unlock_irqrestore: the mask saved was that of a system call, on.
ReadUnlock(t) ==
  /\ At(t, "drained")
  /\ lock' = FALSE
  /\ irq_on' = TRUE
  /\ Goto(t, "done")
  /\ UNCHANGED <<schedVars, on_cpu, trap, ld, rx>>

-----------------------------------------------------------------------------
(* Boot and the scheduler thread *)

\* main hands a task it created to the scheduler.
BootAdd(t) ==
  /\ At(BOOT, "boot")
  /\ t \notin Queued
  /\ sched_add_task(t)
  /\ UNCHANGED <<cpuVars, conVars>>

\* main turns input on and enters scheduler(), with its one task at least.
BootDone ==
  /\ At(BOOT, "boot")
  /\ ring # <<>>
  /\ irq_on' = FALSE
  /\ Goto(BOOT, "loop")
  /\ UNCHANGED <<schedVars, on_cpu, trap, conVars>>

SchedulerDispatch ==
  /\ At(BOOT, "loop")
  /\ Dispatch
  /\ on_cpu' = sched_pick_next
  /\ UNCHANGED <<irq_on, pc, trap, conVars>>

SchedulerTakeBack ==
  /\ At(BOOT, "returned")
  /\ TakeBack
  /\ Goto(BOOT, "loop")
  /\ UNCHANGED <<on_cpu, irq_on, trap, conVars>>

\* Mutant of SchedulerIdle: it idles whenever nothing is READY.
SchedulerIdlesForDead ==
  /\ At(BOOT, "loop")
  /\ sched_pick_next = NULL
  /\ irq_on' = TRUE
  /\ Goto(BOOT, "idle")
  /\ UNCHANGED <<schedVars, on_cpu, trap, conVars>>

\* arch_idle: unmask and wait in one step no interrupt can split.
SchedulerIdle ==
  /\ At(BOOT, "loop")
  /\ sched_pick_next = NULL
  /\ sched_any_alive
  /\ irq_on' = TRUE
  /\ Goto(BOOT, "idle")
  /\ UNCHANGED <<schedVars, on_cpu, trap, conVars>>

\* arch_idle ends once an interrupt was taken: mask again.
SchedulerWake ==
  /\ At(BOOT, "woken")
  /\ irq_on' = FALSE
  /\ Goto(BOOT, "loop")
  /\ UNCHANGED <<schedVars, on_cpu, trap, conVars>>

SchedulerShutdown ==
  /\ At(BOOT, "loop")
  /\ sched_pick_next = NULL
  /\ ~sched_any_alive
  /\ Goto(BOOT, "halted")
  /\ UNCHANGED <<schedVars, on_cpu, irq_on, trap, conVars>>

\* arch_halt, when powering off did not work.
Halted == At(BOOT, "halted") /\ UNCHANGED vars

-----------------------------------------------------------------------------
\* Interrupt handlers, with interrupts masked throughout.
HandlerStep ==
  \E c \in Contexts : \/ SerialByte(c) \/ FeedUnlock(c) \/ FeedWakeup(c)
                      \/ SerialDone(c) \/ IrqExit(c)

\* What t does in the kernel with interrupts masked, and with them on.
MaskedStep(t) ==
  \/ ResumeTrapExit(t) \/ SyscallExit(t) \/ ReadLock(t) \/ ReadDrain(t)
  \/ ReadSleep(t) \/ SleepSwitch(t) \/ SleepResume(t) \/ ReadUnlock(t)

OpenStep(t) ==
  \/ SyscallDispatch(t) \/ SysExitTail(t) \/ SyscallMask(t) \/ ReadMask(t)

SchedulerStep ==
  \/ BootDone \/ SchedulerDispatch \/ SchedulerTakeBack
  \/ SchedulerIdle \/ SchedulerWake \/ SchedulerShutdown

Next ==
  \/ ByteArrives \/ TimerIrq \/ SerialIrq \/ OtherIrq
  \/ HandlerStep
  \/ \E t \in Tasks : BootAdd(t) \/ Syscall(t) \/ MaskedStep(t) \/ OpenStep(t)
  \/ SchedulerStep
  \/ Halted

Spec == Init /\ [][Next]_vars

\* The processor executes what it stands on; the receive loop is faster than
\* the serial line, so it ends; the timer keeps firing; and interrupts leave
\* time for the code they interrupt.  User programs and devices owe nothing:
\* no fairness on Syscall, ByteArrives or OtherIrq.
Fairness ==
  /\ WF_vars(HandlerStep)
  /\ WF_vars(\E t \in Tasks : MaskedStep(t))
  /\ \A t \in Tasks : SF_vars(OpenStep(t))
  /\ SF_vars(SchedulerStep)
  /\ SF_vars(TimerIrq)
  /\ []<>(trap[on_cpu] \notin {"serial", "fed", "ready"})

FairSpec == Spec /\ Fairness
=============================================================================
