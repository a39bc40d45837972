------------------------------ MODULE KernelInv ------------------------------
(***************************************************************************)
(* The inductive invariant behind the safety properties of KernelProps.tla. *)
(***************************************************************************)
EXTENDS KernelProps

\* Code of a task that runs with interrupts on.
OpenPc == {"user", "entered", "masking", "exiting", "done"}

\* A stack the processor does not stand on waits in sched() or is brand new.
Parked(t) ==
  \/ trap[t] = "off"
  \/ trap[t] = "none" /\ pc[t] \in {"new", "off", "asleep"}

\* Who stands where, and exactly when interrupts are on.
CpuInv ==
  /\ on_cpu # BOOT => /\ current = on_cpu /\ loaded = on_cpu
                      /\ pc[BOOT] = "loop" /\ trap[BOOT] = "none"
  /\ on_cpu = BOOT => (current # NULL <=> pc[BOOT] = "returned")
  /\ current # NULL => cursor = current
  /\ trap[BOOT] # "off"
  /\ trap[BOOT] # "none" => pc[BOOT] \in {"idle", "woken"}
  /\ \A t \in Tasks : /\ t # on_cpu => Parked(t)
                      /\ trap[t] # "none" => pc[t] \in OpenPc
  /\ irq_on <=> trap[on_cpu] = "none" /\ pc[on_cpu] \in OpenPc \cup {"idle", "woken"}

\* The lock is taken exactly inside the two critical sections.
LockInv ==
  lock <=> \/ trap[on_cpu] = "fed"
           \/ trap[on_cpu] = "none" /\ pc[on_cpu] \in {"test", "drained"}

\* How a task's state goes with where its code is.
StateInv ==
  \A t \in Tasks :
    /\ pc[t] # "new" \/ t = on_cpu => t \in Queued
    /\ state[t] = "RUNNING" => t = on_cpu
    /\ state[t] = "READY" => t # on_cpu
    /\ state[t] = "BLOCKED" => /\ pc[t] = IF t = on_cpu THEN "sleeping" ELSE "asleep"
                               /\ chan[t] = CONSOLE
    /\ state[t] = "DEAD" => pc[t] \in {"exiting", "done", "exit", "off"}
    /\ state[t] = "DEAD" /\ t = on_cpu => /\ pc[t] # "off" /\ trap[t] # "off"
                                          /\ pc[t] # "exiting" => need_resched
    /\ pc[t] = "exiting" => state[t] = "DEAD"
    /\ pc[t] = "sleeping" => state[t] = "BLOCKED"

\* A sleeper misses a finished line only during the feed that finished it.
WakeInv ==
  ldisc_ready(ld) /\ trap[on_cpu] \notin {"fed", "ready"} =>
    \A t \in Tasks : state[t] # "BLOCKED"

IInv ==
  /\ TypeOK /\ CpuInv /\ LockInv /\ StateInv /\ WakeInv
  /\ LeavesByOwnFrame /\ IdlesOnlyWhenNothingReady
=============================================================================
