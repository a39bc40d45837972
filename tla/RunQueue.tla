------------------------------ MODULE RunQueue ------------------------------
(***************************************************************************)
(* The run queue of proc/sched.c at the level of its pointers: a circular   *)
(* list through task->next, entered at run_queue_head, walked from cursor.  *)
(* The rest of the scheduler is reduced to the state changes it makes.      *)
(***************************************************************************)
EXTENDS Naturals, Sequences, FiniteSets

CONSTANTS Tasks, NULL

ASSUME TasksAssumption == IsFiniteSet(Tasks) /\ NULL \notin Tasks

VARIABLES
  run_queue_head, next, cursor, state,
  waited   \* history: dispatches of others since the task became READY

vars == <<run_queue_head, next, cursor, state, waited>>

\* The list as a walk: the task k links after from, NULL once a link is NULL.
Walk(from, k) ==
  LET at[i \in 0..k] == IF i = 0 THEN from
                        ELSE IF at[i - 1] = NULL THEN NULL ELSE next[at[i - 1]]
  IN  at[k]

Steps == 1..(Cardinality(Tasks) + 1)

\* Where the walk from a task first meets it again, 0 if it does not.
LapOf(from) ==
  IF \E k \in Steps : Walk(from, k) = from
  THEN CHOOSE k \in Steps : Walk(from, k) = from /\ \A j \in 1..(k - 1) : Walk(from, j) # from
  ELSE 0

\* The list, in order from the head.
Listed ==
  IF run_queue_head = NULL THEN <<>>
  ELSE [k \in 1..LapOf(run_queue_head) |-> Walk(run_queue_head, k - 1)]

Members == {t \in Tasks : next[t] # NULL}

Init ==
  /\ run_queue_head = NULL
  /\ next = [t \in Tasks |-> NULL]
  /\ cursor = NULL
  /\ state = [t \in Tasks |-> "READY"]
  /\ waited = [t \in Tasks |-> 0]

\* Mutant of sched_add_task: head->next is overwritten before it is read.
AddLinksLate(t) ==
  /\ t \notin Members
  /\ IF run_queue_head = NULL
     THEN /\ run_queue_head' = t
          /\ next' = [next EXCEPT ![t] = t]
     ELSE /\ next' = [next EXCEPT ![run_queue_head] = t, ![t] = t]
          /\ UNCHANGED run_queue_head
  /\ UNCHANGED <<cursor, state, waited>>

sched_add_task(t) ==
  /\ t \notin Members
  /\ IF run_queue_head = NULL
     THEN /\ run_queue_head' = t
          /\ next' = [next EXCEPT ![t] = t]
     ELSE /\ next' = [next EXCEPT ![t] = next[run_queue_head], ![run_queue_head] = t]
          /\ UNCHANGED run_queue_head
  /\ UNCHANGED <<cursor, state, waited>>

\* Mutant of sched_pick_next: the start is tried first, not last.
PickTriesStartFirst ==
  LET start == IF cursor # NULL THEN cursor ELSE run_queue_head
      hit(k) == state[Walk(start, k)] = "READY"
      lap == 0..(LapOf(start) - 1)
  IN  IF run_queue_head = NULL \/ ~\E k \in lap : hit(k) THEN NULL
      ELSE Walk(start, CHOOSE k \in lap : hit(k) /\ \A j \in 0..(k - 1) : ~hit(j))

\* The do-while loop: stop at the first READY task, or back at the start.
sched_pick_next ==
  LET start == IF cursor # NULL THEN cursor ELSE run_queue_head
      hit(k) == state[Walk(start, k)] = "READY"
      lap == 1..LapOf(start)
  IN  IF run_queue_head = NULL \/ ~\E k \in lap : hit(k) THEN NULL
      ELSE Walk(start, CHOOSE k \in lap : hit(k) /\ \A j \in 1..(k - 1) : ~hit(j))

\* Mutant of Pick: the cursor never moves.
PickKeepsCursor ==
  LET t == sched_pick_next
  IN  /\ \A u \in Tasks : state[u] # "RUNNING"
      /\ t # NULL
      /\ state' = [state EXCEPT ![t] = "RUNNING"]
      /\ waited' = [u \in Tasks |-> IF u # t /\ u \in Members /\ state[u] = "READY"
                                    THEN waited[u] + 1 ELSE waited[u]]
      /\ UNCHANGED <<run_queue_head, next, cursor>>

\* scheduler() dispatches what it picked.
Pick ==
  LET t == sched_pick_next
  IN  /\ \A u \in Tasks : state[u] # "RUNNING"
      /\ t # NULL
      /\ cursor' = t
      /\ state' = [state EXCEPT ![t] = "RUNNING"]
      /\ waited' = [u \in Tasks |-> IF u # t /\ u \in Members /\ state[u] = "READY"
                                    THEN waited[u] + 1 ELSE waited[u]]
      /\ UNCHANGED <<run_queue_head, next>>

\* Mutant of Leave: an exiting task becomes a ZOMBIE nothing handles.
LeaveZombie(t) ==
  /\ state[t] = "RUNNING"
  /\ \E s \in {"READY", "BLOCKED", "ZOMBIE"} : state' = [state EXCEPT ![t] = s]
  /\ waited' = [waited EXCEPT ![t] = 0]
  /\ UNCHANGED <<run_queue_head, next, cursor>>

\* The dispatched task is preempted, falls asleep or exits; a sleeper wakes.
Leave(t) ==
  /\ state[t] = "RUNNING"
  /\ \E s \in {"READY", "BLOCKED", "DEAD"} : state' = [state EXCEPT ![t] = s]
  /\ waited' = [waited EXCEPT ![t] = 0]
  /\ UNCHANGED <<run_queue_head, next, cursor>>

Wake(t) ==
  /\ state[t] = "BLOCKED"
  /\ state' = [state EXCEPT ![t] = "READY"]
  /\ UNCHANGED <<run_queue_head, next, cursor, waited>>

\* main adds tasks before it starts the scheduler.
Next ==
  \/ Pick
  \/ \E t \in Tasks : \/ cursor = NULL /\ sched_add_task(t)
                      \/ Leave(t)
                      \/ Wake(t)

Spec == Init /\ [][Next]_vars

-----------------------------------------------------------------------------
\* Every variable holds a value of its kind.
TypeOK ==
  /\ run_queue_head \in Tasks \cup {NULL}
  /\ next \in [Tasks -> Tasks \cup {NULL}]
  /\ cursor \in Tasks \cup {NULL}
  /\ state \in [Tasks -> {"DEAD", "READY", "RUNNING", "BLOCKED"}]
  /\ waited \in [Tasks -> Nat]

\* Following next from any queued task visits every queued task exactly once
\* and comes back, so no loop over the list runs for ever or misses a task.
OneRing ==
  \A t \in Members : /\ LapOf(t) = Cardinality(Members)
                     /\ {Walk(t, k) : k \in 1..LapOf(t)} = Members

\* A READY task waits for at most one dispatch of each other queued task.
BoundedWait ==
  \A t \in Members : state[t] = "READY" => waited[t] < Cardinality(Members)

\* The pointers implement the sequence the scheduler's model is built on:
\* the same insertions, and the same task picked in every state.
Ring == INSTANCE ReadyQueue WITH ring <- Listed

ImplementsReadyQueue == Ring!Spec
=============================================================================
