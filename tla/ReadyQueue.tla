----------------------------- MODULE ReadyQueue -----------------------------
(***************************************************************************)
(* The run queue as Sched.tla uses it: a sequence, with RoundRobin's two    *)
(* operators.  RunQueue.tla, the pointers of proc/sched.c, implements it.   *)
(***************************************************************************)
EXTENDS RoundRobin

CONSTANTS Tasks, NULL

VARIABLES ring, cursor, state

Init ==
  /\ ring = <<>>
  /\ cursor = NULL
  /\ state = [t \in Tasks |-> "READY"]

Add(t) ==
  /\ t \notin Range(ring)
  /\ ring' = AddAfterHead(ring, t)
  /\ UNCHANGED <<cursor, state>>

Pick ==
  LET t == FirstReady(ring, cursor, {u \in Range(ring) : state[u] = "READY"}, NULL)
  IN  /\ t # NULL
      /\ cursor' = t
      /\ state' = [state EXCEPT ![t] = "RUNNING"]
      /\ UNCHANGED ring

SetState(t) ==
  /\ state' \in {[state EXCEPT ![t] = s] : s \in {"READY", "BLOCKED", "DEAD"}}
  /\ UNCHANGED <<ring, cursor>>

Next == Pick \/ \E t \in Tasks : Add(t) \/ SetState(t)

Spec == Init /\ [][Next]_<<ring, cursor, state>>
=============================================================================
