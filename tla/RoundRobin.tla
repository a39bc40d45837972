----------------------------- MODULE RoundRobin -----------------------------
(***************************************************************************)
(* The run queue of proc/sched.c as a value.  The code links the tasks in   *)
(* a circular list (task->next); here the list is the sequence of tasks met *)
(* when it is followed from run_queue_head.  RunQueue.tla models the        *)
(* pointers and shows that they implement these two operators.              *)
(***************************************************************************)
EXTENDS Naturals, Sequences, Functions

\* sched_add_task: the first task becomes the head, any later one is linked
\* right behind the head.
AddAfterHead(ring, t) ==
  IF ring = <<>> THEN <<t>> ELSE <<Head(ring), t>> \o Tail(ring)

\* The k-th task met by following next from position i.
Ahead(ring, i, k) == ring[((i + k - 1) % Len(ring)) + 1]

\* The position round robin resumes from: the cursor, or the head.
StartAt(ring, cursor) ==
  IF cursor \in Range(ring)
  THEN CHOOSE i \in DOMAIN ring : ring[i] = cursor
  ELSE 1

\* Mutant of FirstReady: the loop stops before it tries the cursor's task.
FirstReadySkipsStart(ring, cursor, ready, none) ==
  LET i == StartAt(ring, cursor)
      hit(k) == Ahead(ring, i, k) \in ready
      lap == 1..(Len(ring) - 1)
  IN  IF \E k \in lap : hit(k)
      THEN Ahead(ring, i, CHOOSE k \in lap : hit(k) /\ \A j \in 1..(k - 1) : ~hit(j))
      ELSE none

\* sched_pick_next: the first member of ready met after the cursor, the
\* cursor's own task being the last one tried; none if no task of the ring is.
FirstReady(ring, cursor, ready, none) ==
  LET i == StartAt(ring, cursor)
      hit(k) == Ahead(ring, i, k) \in ready
  IN  IF \E k \in 1..Len(ring) : hit(k)
      THEN Ahead(ring, i, CHOOSE k \in 1..Len(ring) :
                            hit(k) /\ \A j \in 1..(k - 1) : ~hit(j))
      ELSE none
=============================================================================
