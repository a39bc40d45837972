----------------------------- MODULE LineSource -----------------------------
(***************************************************************************)
(* What the console promises its readers, without locks, interrupts or      *)
(* scheduling: there is at most one finished line; it appears whole; each   *)
(* read takes a non-empty piece of what is left of it; and while a line is  *)
(* there and somebody asks, somebody is served.                             *)
(***************************************************************************)
EXTENDS Naturals

CONSTANTS Readers, LineMax

VARIABLES avail,     \* bytes of the finished line nobody took yet
          waiting    \* readers inside read()

Init == avail = 0 /\ waiting = {}

Finish ==
  /\ avail = 0
  /\ avail' \in 1..LineMax
  /\ UNCHANGED waiting

Ask(r) ==
  /\ r \notin waiting
  /\ waiting' = waiting \cup {r}
  /\ UNCHANGED avail

Serve(r) ==
  /\ r \in waiting
  /\ waiting' = waiting \ {r}
  /\ \E k \in 1..avail : avail' = avail - k

Next == Finish \/ \E r \in Readers : Ask(r) \/ Serve(r)

Spec ==
  /\ Init
  /\ [][Next]_<<avail, waiting>>
  /\ WF_<<avail, waiting>>(\E r \in Readers : Serve(r))
=============================================================================
