-------------------------- MODULE KernelStepProofs --------------------------
(***************************************************************************)
(* Every step of an interrupt handler, every way out of one, and every step *)
(* of a task inside a system call keeps the inductive invariant of          *)
(* KernelInv.tla; and none of them takes a task back from its exit.         *)
(***************************************************************************)
EXTENDS KernelInv, TLAPS

USE ZenonT(60)

\* A line stays a line whatever is typed.
LEMMA FeedType ==
  ASSUME NEW d \in LdiscType, NEW byte \in Bytes
  PROVE  ldisc_feed(d, byte) \in LdiscType
<1>1. d.buf \in Seq(LineBytes) /\ d.consumed \in Nat /\ d.complete \in BOOLEAN
  BY DEF LdiscType
<1>2. d.buf # <<>> => SubSeq(d.buf, 1, Len(d.buf) - 1) \in Seq(LineBytes)
  BY <1>1, SMTT(60)
<1>3. Append(d.buf, "nl") \in Seq(LineBytes)
  BY <1>1, SMTT(60) DEF LineBytes
<1>4. byte \in Chars => Append(d.buf, byte) \in Seq(LineBytes)
  BY <1>1, SMTT(60) DEF LineBytes
<1> QED
  BY <1>1, <1>2, <1>3, <1>4 DEF ldisc_feed, Storable, LdiscType

\* A byte reaches the UART.
LEMMA ByteArrivesInv ==
  ASSUME IInv, ByteArrives
  PROVE  IInv'
<1> USE SchedAssumption DEF IInv, TypeOK, CpuInv, Contexts, Parked, OpenPc, TaskPc, BootPc, TrapPc,
         ByteArrives, schedVars, cpuVars
<1>1. TypeOK'
  BY KernelAssumption, SMTT(60) DEF TaskStates
<1>2. CpuInv' /\ LockInv'
  BY DEF LockInv
<1>3. StateInv' /\ WakeInv'
  BY DEF StateInv, WakeInv, Queued, TaskStates, ldisc_ready
<1>4. LeavesByOwnFrame'
  BY DEF LeavesByOwnFrame, FrameOf
<1>5. IdlesOnlyWhenNothingReady'
  BY SMTT(60) DEF IdlesOnlyWhenNothingReady, At, Ready, sched_any_alive, Queued
<1> HIDE DEF TypeOK, CpuInv
<1> QED
  BY <1>1, <1>2, <1>3, <1>4, <1>5

\* The timer interrupt asks for a reschedule.
LEMMA TimerIrqInv ==
  ASSUME IInv, TimerIrq
  PROVE  IInv'
<1> USE SchedAssumption DEF IInv, TypeOK, CpuInv, Contexts, Parked, OpenPc, TaskPc, BootPc, TrapPc,
         TimerIrq, Interrupt, sched_on_timer_tick, conVars, TrapGoto
<1>1. TypeOK'
  BY ZenonT(60) DEF TaskStates
<1>2. CpuInv' /\ LockInv'
  BY ZenonT(60) DEF LockInv
<1>3. StateInv' /\ WakeInv'
  BY DEF StateInv, WakeInv, Queued, TaskStates, ldisc_ready
<1>4. LeavesByOwnFrame'
  BY DEF LeavesByOwnFrame, FrameOf
<1>5. IdlesOnlyWhenNothingReady'
  BY DEF IdlesOnlyWhenNothingReady, At, Ready, sched_any_alive, Queued
<1> HIDE DEF TypeOK, CpuInv
<1> QED
  BY <1>1, <1>2, <1>3, <1>4, <1>5

\* The serial interrupt enters the receive loop.
LEMMA SerialIrqInv ==
  ASSUME IInv, SerialIrq
  PROVE  IInv'
<1> USE SchedAssumption DEF IInv, TypeOK, CpuInv, Contexts, Parked, OpenPc, TaskPc, BootPc, TrapPc,
         SerialIrq, Interrupt, schedVars, conVars, TrapGoto
<1>1. TypeOK'
  BY ZenonT(60) DEF TaskStates
<1>2. CpuInv' /\ LockInv'
  BY ZenonT(60) DEF LockInv
<1>3. StateInv' /\ WakeInv'
  BY SMTT(60) DEF StateInv, WakeInv, Queued, TaskStates, ldisc_ready
<1>4. LeavesByOwnFrame'
  BY DEF LeavesByOwnFrame, FrameOf
<1>5. IdlesOnlyWhenNothingReady'
  BY DEF IdlesOnlyWhenNothingReady, At, Ready, sched_any_alive, Queued
<1> HIDE DEF TypeOK, CpuInv
<1> QED
  BY <1>1, <1>2, <1>3, <1>4, <1>5

\* An interrupt with nothing to do.
LEMMA OtherIrqInv ==
  ASSUME IInv, OtherIrq
  PROVE  IInv'
<1> USE SchedAssumption DEF IInv, TypeOK, CpuInv, Contexts, Parked, OpenPc, TaskPc, BootPc, TrapPc,
         OtherIrq, Interrupt, schedVars, conVars, TrapGoto
<1>1. TypeOK'
  BY ZenonT(60) DEF TaskStates
<1>2. CpuInv' /\ LockInv'
  BY ZenonT(60) DEF LockInv
<1>3. StateInv' /\ WakeInv'
  BY DEF StateInv, WakeInv, Queued, TaskStates, ldisc_ready
<1>4. LeavesByOwnFrame'
  BY DEF LeavesByOwnFrame, FrameOf
<1>5. IdlesOnlyWhenNothingReady'
  BY DEF IdlesOnlyWhenNothingReady, At, Ready, sched_any_alive, Queued
<1> HIDE DEF TypeOK, CpuInv
<1> QED
  BY <1>1, <1>2, <1>3, <1>4, <1>5

\* The receive loop takes a byte.
LEMMA SerialByteInv ==
  ASSUME IInv, NEW c \in Contexts, SerialByte(c)
  PROVE  IInv'
<1> USE SchedAssumption DEF IInv, TypeOK, CpuInv, Contexts, Parked, OpenPc, TaskPc, BootPc, TrapPc,
         SerialByte, schedVars, InTrap, TrapGoto
<1>1. TypeOK'
  <2> HIDE DEF CpuInv
  <2>1. ld' \in LdiscType
    BY FeedType, SMTT(60)
  <2>2. rx' \in 0..RxDepth
    BY KernelAssumption, SMTT(60)
  <2>3. trap' \in [Contexts -> TrapPc] /\ lock' \in BOOLEAN
    <3>1. CASE UNCHANGED <<trap, lock, ld>>
      BY <3>1
    <3>2. CASE lock' = TRUE /\ TrapGoto(c, "fed")
      BY <3>2
    <3> QED
      BY <3>1, <3>2
  <2>4. UNCHANGED <<schedVars, on_cpu, irq_on, pc>>
    OBVIOUS
  <2> HIDE DEF SerialByte
  <2> QED
    BY <2>1, <2>2, <2>3, <2>4
<1>2. CpuInv' /\ LockInv'
  BY SMTT(60) DEF LockInv
<1>3. StateInv' /\ WakeInv'
  BY SMTT(60) DEF StateInv, WakeInv, Queued, TaskStates, ldisc_ready
<1>4. LeavesByOwnFrame'
  BY SMTT(60) DEF LeavesByOwnFrame, FrameOf
<1>5. IdlesOnlyWhenNothingReady'
  BY DEF IdlesOnlyWhenNothingReady, At, Ready, sched_any_alive, Queued
<1> HIDE DEF TypeOK, CpuInv
<1> QED
  BY <1>1, <1>2, <1>3, <1>4, <1>5

\* console_dev_feed drops the lock.
LEMMA FeedUnlockInv ==
  ASSUME IInv, NEW c \in Contexts, FeedUnlock(c)
  PROVE  IInv'
<1> USE SchedAssumption DEF IInv, TypeOK, CpuInv, Contexts, Parked, OpenPc, TaskPc, BootPc, TrapPc,
         FeedUnlock, schedVars, InTrap, TrapGoto
<1>1. TypeOK'
  BY ZenonT(60) DEF TaskStates
<1>2. CpuInv' /\ LockInv'
  BY DEF LockInv
<1>3. StateInv' /\ WakeInv'
  BY DEF StateInv, WakeInv, Queued, TaskStates, ldisc_ready
<1>4. LeavesByOwnFrame'
  BY DEF LeavesByOwnFrame, FrameOf
<1>5. IdlesOnlyWhenNothingReady'
  BY DEF IdlesOnlyWhenNothingReady, At, Ready, sched_any_alive, Queued
<1> HIDE DEF TypeOK, CpuInv
<1> QED
  BY <1>1, <1>2, <1>3, <1>4, <1>5

\* wakeup() makes every sleeper READY.
LEMMA FeedWakeupInv ==
  ASSUME IInv, NEW c \in Contexts, FeedWakeup(c)
  PROVE  IInv'
<1> USE SchedAssumption DEF IInv, TypeOK, CpuInv, Contexts, Parked, OpenPc, TaskPc, BootPc, TrapPc,
         FeedWakeup, wakeup, conVars, InTrap, TrapGoto
<1>1. TypeOK'
  BY DEF TaskStates
<1>2. CpuInv' /\ LockInv'
  BY DEF LockInv
<1>3. StateInv' /\ WakeInv'
  BY ZenonT(60) DEF StateInv, WakeInv, Queued, TaskStates, ldisc_ready
<1>4. LeavesByOwnFrame'
  BY DEF LeavesByOwnFrame, FrameOf
<1>5. IdlesOnlyWhenNothingReady'
  BY DEF IdlesOnlyWhenNothingReady, At, Ready, sched_any_alive, Queued
<1> HIDE DEF TypeOK, CpuInv
<1> QED
  BY <1>1, <1>2, <1>3, <1>4, <1>5

\* The receive loop ends.
LEMMA SerialDoneInv ==
  ASSUME IInv, NEW c \in Contexts, SerialDone(c)
  PROVE  IInv'
<1> USE SchedAssumption DEF IInv, TypeOK, CpuInv, Contexts, Parked, OpenPc, TaskPc, BootPc, TrapPc,
         SerialDone, schedVars, conVars, InTrap, TrapGoto
<1>1. TypeOK'
  BY DEF TaskStates
<1>2. CpuInv' /\ LockInv'
  BY DEF LockInv
<1>3. StateInv' /\ WakeInv'
  BY DEF StateInv, WakeInv, Queued, TaskStates, ldisc_ready
<1>4. LeavesByOwnFrame'
  BY DEF LeavesByOwnFrame, FrameOf
<1>5. IdlesOnlyWhenNothingReady'
  BY DEF IdlesOnlyWhenNothingReady, At, Ready, sched_any_alive, Queued
<1> HIDE DEF TypeOK, CpuInv
<1> QED
  BY <1>1, <1>2, <1>3, <1>4, <1>5

\* An interrupt handler ends: on the scheduler thread, back into the task it
\* hit, or off the processor.
LEMMA IrqExitInv ==
  ASSUME IInv, NEW c \in Contexts, IrqExit(c)
  PROVE  IInv'
<1> USE SchedAssumption DEF IInv, TypeOK, CpuInv, Contexts, Parked, OpenPc, TaskPc, BootPc, TrapPc
<1>0. on_cpu = c /\ trap[c] = "exit" /\ UNCHANGED <<lock, ld, rx>>
  BY DEF IrqExit, InTrap, conVars
<1>1. CASE current = NULL
  <2>0. /\ c = BOOT /\ irq_on' = TRUE /\ trap' = [trap EXCEPT ![BOOT] = "none"]
        /\ pc' = [pc EXCEPT ![BOOT] = "woken"]
        /\ UNCHANGED <<schedVars, on_cpu>>
    BY <1>0, <1>1 DEF IrqExit, TrapGoto
  <2> USE DEF schedVars
  <2>1. TypeOK'
    BY <1>0, <1>1, <2>0 DEF TaskStates, Frames
  <2>2. CpuInv'
    BY <1>0, <1>1, <2>0 DEF StateInv
  <2>3. LockInv'
    BY <1>0, <1>1, <2>0 DEF LockInv
  <2>4. StateInv'
    BY <1>0, <1>1, <2>0 DEF StateInv, Queued, TaskStates
  <2>5. WakeInv'
    BY <1>0, <1>1, <2>0 DEF WakeInv, ldisc_ready
  <2>6. LeavesByOwnFrame'
    BY <1>0, <1>1, <2>0 DEF LeavesByOwnFrame, FrameOf
  <2>7. IdlesOnlyWhenNothingReady'
    BY <1>0, <1>1, <2>0 DEF IdlesOnlyWhenNothingReady, At, Ready, sched_any_alive, Queued
  <2> HIDE DEF TypeOK, CpuInv
  <2> QED
    BY <2>1, <2>2, <2>3, <2>4, <2>5, <2>6, <2>7
<1>2. CASE current # NULL /\ ~need_resched
  <2>0. /\ c \in Tasks /\ c = current /\ irq_on' = TRUE
        /\ trap' = [trap EXCEPT ![c] = "none"]
        /\ trap_frame' = [trap_frame EXCEPT ![c] = Popped(FrameOf(c))]
        /\ pc' = pc
        /\ UNCHANGED <<ring, cursor, current, need_resched, state, chan, switch_count, loaded, on_cpu>>
    BY <1>0, <1>2, SMTT(60) DEF IrqExit, TrapExitStay, TrapExitSwitch, TrapReturn, FrameOf
  <2>f. Popped(FrameOf(c)) \in Frames
    BY DEF Popped, FrameOf, Frames
  <2>1. TypeOK'
    BY <1>0, <1>2, <2>0, <2>f DEF TaskStates, Frames
  <2>2. CpuInv'
    BY <1>0, <1>2, <2>0, <2>f DEF StateInv
  <2>3. LockInv'
    BY <1>0, <1>2, <2>0, <2>f DEF LockInv
  <2>4. StateInv'
    BY <1>0, <1>2, <2>0, <2>f DEF StateInv, Queued, TaskStates
  <2>5. WakeInv'
    BY <1>0, <1>2, <2>0, <2>f DEF WakeInv, ldisc_ready
  <2>6. LeavesByOwnFrame'
    BY <1>0, <1>2, <2>0, <2>f DEF LeavesByOwnFrame, FrameOf
  <2>7. IdlesOnlyWhenNothingReady'
    BY <1>0, <1>2, <2>0, <2>f DEF IdlesOnlyWhenNothingReady, At, Ready, sched_any_alive, Queued
  <2> HIDE DEF TypeOK, CpuInv
  <2> QED
    BY <2>1, <2>2, <2>3, <2>4, <2>5, <2>6, <2>7
<1>3. CASE current # NULL /\ need_resched
  <2>0. /\ c \in Tasks /\ c = current /\ on_cpu' = BOOT
        /\ trap' = [trap EXCEPT ![c] = "off"]
        /\ pc' = [pc EXCEPT ![BOOT] = "returned"]
        /\ need_resched' = FALSE
        /\ trap_frame' = [trap_frame EXCEPT ![c] = FrameOf(c)]
        /\ state' = [state EXCEPT ![c] = IF @ = "RUNNING" THEN "READY" ELSE @]
        /\ UNCHANGED <<ring, cursor, current, chan, switch_count, loaded, irq_on>>
    BY <1>0, <1>3 DEF IrqExit, TrapExitStay, TrapExitSwitch, SwitchToScheduler, TrapGoto, Goto
  <2>f. FrameOf(c) \in Frames
    BY DEF FrameOf, Frames
  <2>1. TypeOK'
    BY <1>0, <1>3, <2>0, <2>f DEF TaskStates, Frames
  <2>2. CpuInv'
    BY <1>0, <1>3, <2>0, <2>f DEF StateInv
  <2>3. LockInv'
    BY <1>0, <1>3, <2>0, <2>f DEF LockInv
  <2>4. StateInv'
    BY <1>0, <1>3, <2>0, <2>f DEF StateInv, Queued, TaskStates
  <2>5. WakeInv'
    BY <1>0, <1>3, <2>0, <2>f DEF WakeInv, ldisc_ready
  <2>6. LeavesByOwnFrame'
    BY <1>0, <1>3, <2>0, <2>f, SMTT(60) DEF LeavesByOwnFrame, FrameOf
  <2>7. IdlesOnlyWhenNothingReady'
    BY <1>0, <1>3, <2>0, <2>f DEF IdlesOnlyWhenNothingReady, At, Ready, sched_any_alive, Queued
  <2> HIDE DEF TypeOK, CpuInv
  <2> QED
    BY <2>1, <2>2, <2>3, <2>4, <2>5, <2>6, <2>7
<1> QED
  BY <1>1, <1>2, <1>3

\* A task leaves through its recorded frame, which is its own.
LEMMA ResumeTrapExitInv ==
  ASSUME IInv, NEW t \in Tasks, ResumeTrapExit(t)
  PROVE  IInv'
<1> USE SchedAssumption DEF IInv, TypeOK, CpuInv, Contexts, Parked, OpenPc, TaskPc, BootPc, TrapPc
<1>0. /\ on_cpu = t /\ current = t /\ irq_on' = TRUE
      /\ trap' = [trap EXCEPT ![t] = "none"]
      /\ trap_frame' = [trap_frame EXCEPT ![t] = Popped(@)]
      /\ UNCHANGED <<ring, cursor, current, need_resched, state, chan, switch_count, loaded,
                     on_cpu, lock, ld, rx>>
  BY DEF ResumeTrapExit, InTrap, At, TrapReturn, conVars
<1>f. Popped(trap_frame[t]) \in Frames
  BY DEF Popped, Frames
<1>1. CASE trap[t] = "off"
  <2>0. pc' = pc
    BY <1>0, <1>1, SMTT(60) DEF ResumeTrapExit, TrapReturn, LeavesByOwnFrame, FrameOf
  <2>1. TypeOK'
    BY <1>0, <1>f, <1>1, <2>0 DEF TaskStates, Frames
  <2>2. CpuInv'
    BY <1>0, <1>f, <1>1, <2>0 DEF StateInv
  <2>3. LockInv'
    BY <1>0, <1>f, <1>1, <2>0 DEF LockInv
  <2>4. StateInv'
    BY <1>0, <1>f, <1>1, <2>0 DEF StateInv, Queued, TaskStates
  <2>5. WakeInv'
    BY <1>0, <1>f, <1>1, <2>0 DEF WakeInv, ldisc_ready
  <2>6. LeavesByOwnFrame'
    BY <1>0, <1>f, <1>1, <2>0 DEF LeavesByOwnFrame, FrameOf
  <2>7. IdlesOnlyWhenNothingReady'
    BY <1>0, <1>f, <1>1, <2>0 DEF IdlesOnlyWhenNothingReady, At, Ready, sched_any_alive, Queued
  <2> HIDE DEF TypeOK, CpuInv
  <2> QED
    BY <2>1, <2>2, <2>3, <2>4, <2>5, <2>6, <2>7
<1>2. CASE trap[t] = "none" /\ pc[t] \in {"off", "new"}
  <2>0. pc' = [pc EXCEPT ![t] = "user"]
    BY <1>0, <1>2 DEF ResumeTrapExit, TrapReturn, LeavesByOwnFrame
  <2>1. TypeOK'
    BY <1>0, <1>f, <1>2, <2>0 DEF TaskStates, Frames
  <2>2. CpuInv'
    BY <1>0, <1>f, <1>2, <2>0 DEF StateInv
  <2>3. LockInv'
    BY <1>0, <1>f, <1>2, <2>0 DEF LockInv
  <2>4. StateInv'
    BY <1>0, <1>f, <1>2, <2>0 DEF StateInv, Queued, TaskStates
  <2>5. WakeInv'
    BY <1>0, <1>f, <1>2, <2>0 DEF WakeInv, ldisc_ready
  <2>6. LeavesByOwnFrame'
    BY <1>0, <1>f, <1>2, <2>0 DEF LeavesByOwnFrame, FrameOf
  <2>7. IdlesOnlyWhenNothingReady'
    BY <1>0, <1>f, <1>2, <2>0 DEF IdlesOnlyWhenNothingReady, At, Ready, sched_any_alive, Queued
  <2> HIDE DEF TypeOK, CpuInv
  <2> QED
    BY <2>1, <2>2, <2>3, <2>4, <2>5, <2>6, <2>7
<1> QED
  BY <1>1, <1>2 DEF ResumeTrapExit, InTrap, At

\* A line stays a line whatever is read from it.
LEMMA DrainType ==
  ASSUME NEW d \in LdiscType, NEW size \in Nat
  PROVE  ldisc_drain(d, size) \in LdiscType
<1>1. d.buf \in Seq(LineBytes) /\ d.consumed \in Nat /\ d.complete \in BOOLEAN
  BY DEF LdiscType
<1>2. Len(d.buf) \in Nat
  BY <1>1, SMTT(60)
<1>3. CASE d.consumed + DrainCount(d, size) = Len(d.buf)
  BY <1>3, SMTT(60) DEF ldisc_drain, ldisc_init, LdiscType
<1>4. CASE d.consumed + DrainCount(d, size) # Len(d.buf)
  <2>1. d.complete => d.consumed + DrainCount(d, size) \in Nat
    BY <1>1, <1>2, <1>4, SMTT(60) DEF DrainCount
  <2> QED
    BY <1>1, <1>4, <2>1 DEF ldisc_drain, LdiscType
<1> QED
  BY <1>3, <1>4

\* A task enters the kernel.
LEMMA SyscallInv ==
  ASSUME IInv, NEW t \in Tasks, Syscall(t)
  PROVE  IInv'
<1> USE SchedAssumption DEF IInv, TypeOK, CpuInv, Contexts, Parked, OpenPc, TaskPc, BootPc, TrapPc,
         Syscall, schedVars, conVars, At, Goto
<1>1. TypeOK'
  BY DEF TaskStates
<1>2. CpuInv' /\ LockInv'
  BY DEF LockInv
<1>3. StateInv' /\ WakeInv'
  BY DEF StateInv, WakeInv, Queued, TaskStates, ldisc_ready
<1>4. LeavesByOwnFrame'
  BY DEF LeavesByOwnFrame, FrameOf
<1>5. IdlesOnlyWhenNothingReady'
  BY DEF IdlesOnlyWhenNothingReady, At, Ready, sched_any_alive, Queued
<1> HIDE DEF TypeOK, CpuInv
<1> QED
  BY <1>1, <1>2, <1>3, <1>4, <1>5

\* A system call is dispatched; exit flags its own task and no other.
LEMMA SyscallDispatchInv ==
  ASSUME IInv, NEW t \in Tasks, SyscallDispatch(t)
  PROVE  IInv'
<1> USE SchedAssumption DEF IInv, TypeOK, CpuInv, Contexts, Parked, OpenPc, TaskPc, BootPc, TrapPc,
         SyscallDispatch, schedVars, conVars, At, Goto
<1>0. current = t /\ on_cpu = t
  OBVIOUS
<1>1. TypeOK'
  <2> HIDE DEF CpuInv
  <2>1. CASE Goto(t, "exiting") /\ ExitFlagDead
    <3>1. state' \in [Tasks -> TaskStates]
      BY <1>0, <2>1 DEF TaskStates, ExitFlagDead
    <3>2. /\ pc' \in [Contexts -> TaskPc \cup BootPc]
          /\ pc'[BOOT] \in BootPc /\ \A c \in Tasks : pc'[c] \in TaskPc
      BY <2>1
    <3>3. UNCHANGED <<ring, cursor, current, need_resched, chan, trap_frame, switch_count,
                      loaded, on_cpu, irq_on, trap, lock, ld, rx>>
      BY <2>1 DEF ExitFlagDead
    <3> HIDE DEF SyscallDispatch, Goto, At, IInv, Contexts
    <3>4. TypeOK
      BY DEF IInv
    <3> QED
      BY <3>1, <3>2, <3>3, <3>4
  <2>2. CASE Goto(t, "masking") /\ UNCHANGED schedVars
    BY <2>2
  <2>3. CASE Goto(t, "done") /\ UNCHANGED schedVars
    BY <2>3
  <2> HIDE DEF TypeOK
  <2> QED
    BY <2>1, <2>2, <2>3
<1>2. CpuInv' /\ LockInv'
  BY SMTT(60) DEF LockInv, ExitFlagDead
<1>3. StateInv' /\ WakeInv'
  BY SMTT(60) DEF StateInv, WakeInv, Queued, TaskStates, ldisc_ready, ExitFlagDead
<1>4. LeavesByOwnFrame'
  BY SMTT(60) DEF LeavesByOwnFrame, FrameOf, ExitFlagDead
<1>5. IdlesOnlyWhenNothingReady'
  BY <1>0 DEF IdlesOnlyWhenNothingReady
<1> HIDE DEF TypeOK, CpuInv
<1> QED
  BY <1>1, <1>2, <1>3, <1>4, <1>5

\* The second assignment of sched_exit_current.
LEMMA SysExitTailInv ==
  ASSUME IInv, NEW t \in Tasks, SysExitTail(t)
  PROVE  IInv'
<1> USE SchedAssumption DEF IInv, TypeOK, CpuInv, Contexts, Parked, OpenPc, TaskPc, BootPc, TrapPc,
         SysExitTail, ExitAskResched, conVars, At, Goto
<1>1. TypeOK'
  BY DEF TaskStates
<1>2. CpuInv' /\ LockInv'
  BY DEF LockInv
<1>3. StateInv' /\ WakeInv'
  BY DEF StateInv, WakeInv, Queued, TaskStates, ldisc_ready
<1>4. LeavesByOwnFrame'
  BY DEF LeavesByOwnFrame, FrameOf
<1>5. IdlesOnlyWhenNothingReady'
  BY DEF IdlesOnlyWhenNothingReady, At, Ready, sched_any_alive, Queued
<1> HIDE DEF TypeOK, CpuInv
<1> QED
  BY <1>1, <1>2, <1>3, <1>4, <1>5

\* The system call handler masks interrupts.
LEMMA SyscallMaskInv ==
  ASSUME IInv, NEW t \in Tasks, SyscallMask(t)
  PROVE  IInv'
<1> USE SchedAssumption DEF IInv, TypeOK, CpuInv, Contexts, Parked, OpenPc, TaskPc, BootPc, TrapPc,
         SyscallMask, schedVars, conVars, At, Goto
<1>1. TypeOK'
  BY ZenonT(60) DEF TaskStates
<1>2. CpuInv' /\ LockInv'
  BY DEF LockInv
<1>3. StateInv' /\ WakeInv'
  BY DEF StateInv, WakeInv, Queued, TaskStates, ldisc_ready
<1>4. LeavesByOwnFrame'
  BY DEF LeavesByOwnFrame, FrameOf
<1>5. IdlesOnlyWhenNothingReady'
  BY DEF IdlesOnlyWhenNothingReady, At, Ready, sched_any_alive, Queued
<1> HIDE DEF TypeOK, CpuInv
<1> QED
  BY <1>1, <1>2, <1>3, <1>4, <1>5

\* A system call ends: back into the program, or off the processor.
LEMMA SyscallExitInv ==
  ASSUME IInv, NEW t \in Tasks, SyscallExit(t)
  PROVE  IInv'
<1> USE SchedAssumption DEF IInv, TypeOK, CpuInv, Contexts, Parked, OpenPc, TaskPc, BootPc, TrapPc
<1>0. /\ on_cpu = t /\ current = t /\ trap[t] = "none" /\ pc[t] = "exit"
      /\ UNCHANGED <<lock, ld, rx>>
  BY DEF SyscallExit, At, conVars
<1>1. CASE ~need_resched
  <2>0. /\ irq_on' = TRUE /\ trap' = [trap EXCEPT ![t] = "none"]
        /\ pc' = [pc EXCEPT ![t] = "user"]
        /\ trap_frame' = [trap_frame EXCEPT ![t] = "user"]
        /\ UNCHANGED <<ring, cursor, current, need_resched, state, chan, switch_count, loaded, on_cpu>>
    BY <1>0, <1>1 DEF SyscallExit, TrapExitStay, TrapExitSwitch, TrapReturn
  <2>1. TypeOK'
    BY <1>0, <1>1, <2>0 DEF TaskStates, Frames
  <2>2. CpuInv'
    BY <1>0, <1>1, <2>0 DEF StateInv
  <2>3. LockInv'
    BY <1>0, <1>1, <2>0 DEF LockInv
  <2>4. StateInv'
    BY <1>0, <1>1, <2>0 DEF StateInv, Queued, TaskStates
  <2>5. WakeInv'
    BY <1>0, <1>1, <2>0 DEF WakeInv, ldisc_ready
  <2>6. LeavesByOwnFrame'
    BY <1>0, <1>1, <2>0, SMTT(60) DEF LeavesByOwnFrame, FrameOf
  <2>7. IdlesOnlyWhenNothingReady'
    BY <1>0, <1>1, <2>0 DEF IdlesOnlyWhenNothingReady, At, Ready, sched_any_alive, Queued
  <2> HIDE DEF TypeOK, CpuInv
  <2> QED
    BY <2>1, <2>2, <2>3, <2>4, <2>5, <2>6, <2>7
<1>2. CASE need_resched
  <2>0. /\ on_cpu' = BOOT /\ pc' = [pc EXCEPT ![t] = "off", ![BOOT] = "returned"]
        /\ need_resched' = FALSE
        /\ trap_frame' = [trap_frame EXCEPT ![t] = "user"]
        /\ state' = [state EXCEPT ![t] = IF @ = "RUNNING" THEN "READY" ELSE @]
        /\ UNCHANGED <<ring, cursor, current, chan, switch_count, loaded, irq_on, trap>>
    BY <1>0, <1>2 DEF SyscallExit, TrapExitStay, TrapExitSwitch, SwitchToScheduler
  <2>1. TypeOK'
    BY <1>0, <1>2, <2>0 DEF TaskStates, Frames
  <2>2. CpuInv'
    BY <1>0, <1>2, <2>0 DEF StateInv
  <2>3. LockInv'
    BY <1>0, <1>2, <2>0 DEF LockInv
  <2>4. StateInv'
    BY <1>0, <1>2, <2>0, SMTT(60) DEF StateInv, Queued, TaskStates
  <2>5. WakeInv'
    BY <1>0, <1>2, <2>0 DEF WakeInv, ldisc_ready
  <2>6. LeavesByOwnFrame'
    BY <1>0, <1>2, <2>0 DEF LeavesByOwnFrame, FrameOf
  <2>7. IdlesOnlyWhenNothingReady'
    BY <1>0, <1>2, <2>0 DEF IdlesOnlyWhenNothingReady, At, Ready, sched_any_alive, Queued
  <2> HIDE DEF TypeOK, CpuInv
  <2> QED
    BY <2>1, <2>2, <2>3, <2>4, <2>5, <2>6, <2>7
<1> QED
  BY <1>1, <1>2

\* spinlock_lock_irqsave masks interrupts.
LEMMA ReadMaskInv ==
  ASSUME IInv, NEW t \in Tasks, ReadMask(t)
  PROVE  IInv'
<1> USE SchedAssumption DEF IInv, TypeOK, CpuInv, Contexts, Parked, OpenPc, TaskPc, BootPc, TrapPc,
         ReadMask, schedVars, conVars, At, Goto
<1>1. TypeOK'
  BY ZenonT(60) DEF TaskStates
<1>2. CpuInv' /\ LockInv'
  BY DEF LockInv
<1>3. StateInv' /\ WakeInv'
  BY DEF StateInv, WakeInv, Queued, TaskStates, ldisc_ready
<1>4. LeavesByOwnFrame'
  BY DEF LeavesByOwnFrame, FrameOf
<1>5. IdlesOnlyWhenNothingReady'
  BY DEF IdlesOnlyWhenNothingReady, At, Ready, sched_any_alive, Queued
<1> HIDE DEF TypeOK, CpuInv
<1> QED
  BY <1>1, <1>2, <1>3, <1>4, <1>5

\* A reader takes the lock, which is free.
LEMMA ReadLockInv ==
  ASSUME IInv, NEW t \in Tasks, ReadLock(t)
  PROVE  IInv'
<1> USE SchedAssumption DEF IInv, TypeOK, CpuInv, Contexts, Parked, OpenPc, TaskPc, BootPc, TrapPc,
         ReadLock, schedVars, At, Goto
<1>1. TypeOK'
  BY DEF TaskStates
<1>2. CpuInv' /\ LockInv'
  BY DEF LockInv
<1>3. StateInv' /\ WakeInv'
  BY DEF StateInv, WakeInv, Queued, TaskStates, ldisc_ready
<1>4. LeavesByOwnFrame'
  BY DEF LeavesByOwnFrame, FrameOf
<1>5. IdlesOnlyWhenNothingReady'
  BY DEF IdlesOnlyWhenNothingReady, At, Ready, sched_any_alive, Queued
<1> HIDE DEF TypeOK, CpuInv
<1> QED
  BY <1>1, <1>2, <1>3, <1>4, <1>5

\* The reader takes bytes of a finished line.
LEMMA ReadDrainInv ==
  ASSUME IInv, NEW t \in Tasks, ReadDrain(t)
  PROVE  IInv'
<1> USE SchedAssumption DEF IInv, TypeOK, CpuInv, Contexts, Parked, OpenPc, TaskPc, BootPc, TrapPc,
         ReadDrain, schedVars, At, Goto
<1>1. TypeOK'
  <2>1. ld' \in LdiscType
    BY DrainType, KernelAssumption, SMTT(60)
  <2> QED
    BY <2>1 DEF TaskStates
<1>2. CpuInv' /\ LockInv'
  BY DEF LockInv
<1>3. StateInv' /\ WakeInv'
  BY DEF StateInv, WakeInv, Queued, TaskStates, ldisc_ready
<1>4. LeavesByOwnFrame'
  BY DEF LeavesByOwnFrame, FrameOf
<1>5. IdlesOnlyWhenNothingReady'
  BY DEF IdlesOnlyWhenNothingReady, At, Ready, sched_any_alive, Queued
<1> HIDE DEF TypeOK, CpuInv
<1> QED
  BY <1>1, <1>2, <1>3, <1>4, <1>5

\* A reader goes to sleep: it is BLOCKED before it drops the lock.
LEMMA ReadSleepInv ==
  ASSUME IInv, NEW t \in Tasks, ReadSleep(t)
  PROVE  IInv'
<1> USE SchedAssumption DEF IInv, TypeOK, CpuInv, Contexts, Parked, OpenPc, TaskPc, BootPc, TrapPc,
         ReadSleep, SleepOn, At, Goto
<1>1. TypeOK'
  BY ZenonT(60) DEF TaskStates
<1>2. CpuInv' /\ LockInv'
  BY DEF LockInv
<1>3. StateInv' /\ WakeInv'
  BY SMTT(60) DEF StateInv, WakeInv, Queued, TaskStates, ldisc_ready
<1>4. LeavesByOwnFrame'
  BY DEF LeavesByOwnFrame, FrameOf
<1>5. IdlesOnlyWhenNothingReady'
  BY DEF IdlesOnlyWhenNothingReady, At, Ready, sched_any_alive, Queued
<1> HIDE DEF TypeOK, CpuInv
<1> QED
  BY <1>1, <1>2, <1>3, <1>4, <1>5

\* The sleeper leaves the processor.
LEMMA SleepSwitchInv ==
  ASSUME IInv, NEW t \in Tasks, SleepSwitch(t)
  PROVE  IInv'
<1> USE SchedAssumption DEF IInv, TypeOK, CpuInv, Contexts, Parked, OpenPc, TaskPc, BootPc, TrapPc,
         SleepSwitch, schedVars, conVars, At, SwitchToScheduler
<1>1. TypeOK'
  BY ZenonT(60) DEF TaskStates
<1>2. CpuInv' /\ LockInv'
  BY SMTT(60) DEF LockInv
<1>3. StateInv' /\ WakeInv'
  BY SMTT(60) DEF StateInv, WakeInv, Queued, TaskStates, ldisc_ready
<1>4. LeavesByOwnFrame'
  BY DEF LeavesByOwnFrame, FrameOf
<1>5. IdlesOnlyWhenNothingReady'
  BY DEF IdlesOnlyWhenNothingReady, At, Ready, sched_any_alive, Queued
<1> HIDE DEF TypeOK, CpuInv
<1> QED
  BY <1>1, <1>2, <1>3, <1>4, <1>5

\* The sleeper is back.
LEMMA SleepResumeInv ==
  ASSUME IInv, NEW t \in Tasks, SleepResume(t)
  PROVE  IInv'
<1> USE SchedAssumption DEF IInv, TypeOK, CpuInv, Contexts, Parked, OpenPc, TaskPc, BootPc, TrapPc,
         SleepResume, SleepOver, conVars, At, Goto
<1>1. TypeOK'
  BY DEF TaskStates
<1>2. CpuInv' /\ LockInv'
  BY DEF LockInv
<1>3. StateInv' /\ WakeInv'
  BY SMTT(60) DEF StateInv, WakeInv, Queued, TaskStates, ldisc_ready
<1>4. LeavesByOwnFrame'
  BY DEF LeavesByOwnFrame, FrameOf
<1>5. IdlesOnlyWhenNothingReady'
  BY DEF IdlesOnlyWhenNothingReady, At, Ready, sched_any_alive, Queued
<1> HIDE DEF TypeOK, CpuInv
<1> QED
  BY <1>1, <1>2, <1>3, <1>4, <1>5

\* The reader leaves its critical section.
LEMMA ReadUnlockInv ==
  ASSUME IInv, NEW t \in Tasks, ReadUnlock(t)
  PROVE  IInv'
<1> USE SchedAssumption DEF IInv, TypeOK, CpuInv, Contexts, Parked, OpenPc, TaskPc, BootPc, TrapPc,
         ReadUnlock, schedVars, At, Goto
<1>1. TypeOK'
  BY ZenonT(60) DEF TaskStates
<1>2. CpuInv' /\ LockInv'
  BY DEF LockInv
<1>3. StateInv' /\ WakeInv'
  BY DEF StateInv, WakeInv, Queued, TaskStates, ldisc_ready
<1>4. LeavesByOwnFrame'
  BY DEF LeavesByOwnFrame, FrameOf
<1>5. IdlesOnlyWhenNothingReady'
  BY DEF IdlesOnlyWhenNothingReady, At, Ready, sched_any_alive, Queued
<1> HIDE DEF TypeOK, CpuInv
<1> QED
  BY <1>1, <1>2, <1>3, <1>4, <1>5


\* One step of exit's finality, for one task.
DeadStays(t) ==
  state[t] = "DEAD" => /\ state'[t] = "DEAD"
                       /\ pc'[t] # "user"
                       /\ on_cpu # t => on_cpu' # t

\* A DEAD task is off the processor, or in the last steps of its exit with a
\* reschedule asked for; either way no step of a task or of an interrupt takes
\* it back to its program.
LEMMA DeadTaskStep ==
  ASSUME IInv, NEW t \in Tasks,
         \/ HandlerStep \/ ByteArrives \/ TimerIrq \/ SerialIrq \/ OtherIrq \/ Halted \/ UNCHANGED vars
         \/ \E u \in Tasks : BootAdd(u) \/ Syscall(u) \/ MaskedStep(u) \/ OpenStep(u)
  PROVE  DeadStays(t)
<1> SUFFICES ASSUME state[t] = "DEAD"
             PROVE  state'[t] = "DEAD" /\ pc'[t] # "user" /\ (on_cpu # t => on_cpu' # t)
  BY DEF DeadStays
<1>a. ByteArrives \/ TimerIrq \/ SerialIrq \/ OtherIrq \/ Halted \/ UNCHANGED vars
        => UNCHANGED <<state, pc, on_cpu>>
  BY DEF ByteArrives, TimerIrq, sched_on_timer_tick, SerialIrq, OtherIrq, Halted,
     Interrupt, vars, schedVars, cpuVars
<1> USE SchedAssumption DEF IInv, TypeOK, Contexts
<1>0. /\ pc[t] \in {"exiting", "done", "exit", "off"} /\ t # BOOT
      /\ t = on_cpu => /\ current = t /\ pc[t] # "off" /\ trap[t] # "off"
                       /\ pc[t] # "exiting" => need_resched
  BY DEF StateInv, CpuInv
<1>1. CASE UNCHANGED <<state, pc, on_cpu>>
  BY <1>0, <1>1
<1>2. CASE HandlerStep
  <2>1. PICK c \in Contexts : \/ SerialByte(c) \/ FeedUnlock(c) \/ FeedWakeup(c)
                              \/ SerialDone(c) \/ IrqExit(c)
    BY <1>2 DEF HandlerStep
  <2>2. CASE SerialByte(c) \/ FeedUnlock(c) \/ SerialDone(c)
    BY <1>1, <2>2 DEF SerialByte, FeedUnlock, SerialDone, schedVars
  <2>3. CASE FeedWakeup(c)
    BY <1>0, <2>3 DEF FeedWakeup, wakeup
  <2>4. CASE IrqExit(c)
    <3>1. CASE current = NULL
      BY <1>0, <2>4, <3>1 DEF IrqExit, InTrap, schedVars, CpuInv
    <3>2. CASE current # NULL /\ ~need_resched
      <4>1. UNCHANGED <<state, on_cpu>> /\ pc' = IF FrameOf(c) = "nested" THEN pc ELSE [pc EXCEPT ![c] = "user"]
        BY <2>4, <3>2 DEF IrqExit, TrapExitStay, TrapExitSwitch, TrapReturn
      <4>2. pc[c] = "user" \/ FrameOf(c) = "nested"
        BY DEF FrameOf
      <4> QED
        BY <1>0, <4>1, <4>2
    <3>3. CASE current # NULL /\ need_resched
      <4>1. /\ on_cpu' = BOOT /\ pc' = [pc EXCEPT ![BOOT] = "returned"]
            /\ state' = [state EXCEPT ![current] = IF @ = "RUNNING" THEN "READY" ELSE @]
        BY <2>4, <3>3 DEF IrqExit, TrapExitStay, TrapExitSwitch, SwitchToScheduler, Goto
      <4> QED
        BY <1>0, <4>1
    <3> QED
      BY <3>1, <3>2, <3>3
  <2> QED
    BY <2>1, <2>2, <2>3, <2>4
<1>3. ASSUME NEW u \in Tasks, BootAdd(u) \/ Syscall(u)
      PROVE  state'[t] = "DEAD" /\ pc'[t] # "user" /\ (on_cpu # t => on_cpu' # t)
  BY <1>0, <1>3 DEF BootAdd, sched_add_task, cpuVars, Syscall, schedVars, Goto
<1>4. ASSUME NEW u \in Tasks, MaskedStep(u)
      PROVE  state'[t] = "DEAD" /\ pc'[t] # "user" /\ (on_cpu # t => on_cpu' # t)
  <2>1. CASE ResumeTrapExit(u)
    <3>1. u # t
      BY <1>0, <2>1 DEF ResumeTrapExit, InTrap, At
    <3> QED
      BY <1>0, <2>1, <3>1 DEF ResumeTrapExit, TrapReturn
  <2>2. CASE SyscallExit(u)
    <3>1. current = u /\ on_cpu = u /\ pc[u] = "exit"
      BY <2>2 DEF SyscallExit, At, CpuInv
    <3>2. CASE ~need_resched
      BY <1>0, <2>2, <3>1, <3>2 DEF SyscallExit, TrapExitStay, TrapExitSwitch, TrapReturn
    <3>3. CASE need_resched
      <4>1. /\ on_cpu' = BOOT /\ pc' = [pc EXCEPT ![u] = "off", ![BOOT] = "returned"]
            /\ state' = [state EXCEPT ![u] = IF @ = "RUNNING" THEN "READY" ELSE @]
        BY <2>2, <3>1, <3>3 DEF SyscallExit, TrapExitStay, TrapExitSwitch, SwitchToScheduler
      <4> QED
        BY <1>0, <4>1
    <3> QED
      BY <3>2, <3>3
  <2>3. CASE ReadLock(u) \/ ReadDrain(u) \/ SleepResume(u) \/ ReadUnlock(u)
    BY <1>0, <2>3 DEF ReadLock, ReadDrain, SleepResume, SleepOver, ReadUnlock, schedVars, Goto
  <2>4. CASE ReadSleep(u)
    <3>1. current = u /\ pc[u] = "test"
      BY <2>4 DEF ReadSleep, At, CpuInv
    <3> QED
      BY <1>0, <2>4, <3>1 DEF ReadSleep, SleepOn, Goto
  <2>5. CASE SleepSwitch(u)
    BY <1>0, <2>5 DEF SleepSwitch, SwitchToScheduler, schedVars
  <2> QED
    BY <1>4, <2>1, <2>2, <2>3, <2>4, <2>5 DEF MaskedStep
<1>5. ASSUME NEW u \in Tasks, OpenStep(u)
      PROVE  state'[t] = "DEAD" /\ pc'[t] # "user" /\ (on_cpu # t => on_cpu' # t)
  <2>1. CASE SyscallDispatch(u)
    BY <1>0, <2>1 DEF SyscallDispatch, ExitFlagDead, schedVars, Goto
  <2>2. CASE SysExitTail(u) \/ SyscallMask(u) \/ ReadMask(u)
    BY <1>0, <2>2 DEF SysExitTail, ExitAskResched, SyscallMask, ReadMask, schedVars, Goto
  <2> QED
    BY <1>5, <2>1, <2>2 DEF OpenStep
<1> HIDE DEF TypeOK, IInv
<1> QED
  BY <1>a, <1>1, <1>2, <1>3, <1>4, <1>5
=============================================================================
