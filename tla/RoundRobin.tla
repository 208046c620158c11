----------------------------- MODULE RoundRobin -----------------------------
(***************************************************************************)
(* What the scheduler of multitasking.c promises: the threads form a ring  *)
(* in the order in which they were created, a new thread enters at the end *)
(* of the ring (just before the first one), and the turn only ever moves   *)
(* to the successor of the thread that has it.                             *)
(***************************************************************************)
EXTENDS Naturals, Sequences, Functions

CONSTANTS Tasks, \* the threads that may ever be created
          None   \* the turn before scheduling starts

VARIABLES ring, \* sequence of the threads that take turns
          turn  \* the thread whose turn it is

vars == <<ring, turn>>

Init == ring = <<>> /\ turn = None

Succ(i) == IF i = Len(ring) THEN 1 ELSE i + 1

\* A thread enters the ring, once.
Enter(t) ==
  /\ t \notin Range(ring)
  /\ ring' = Append(ring, t)
  /\ UNCHANGED turn

\* Scheduling starts with the first thread.
Start ==
  /\ turn = None
  /\ ring # <<>>
  /\ turn' = ring[1]
  /\ UNCHANGED ring

\* The turn passes to the next thread in the ring.
Pass ==
  /\ \E i \in DOMAIN ring : turn = ring[i] /\ turn' = ring[Succ(i)]
  /\ UNCHANGED ring

Next == Start \/ Pass \/ \E t \in Tasks : Enter(t)

Spec == Init /\ [][Next]_vars /\ WF_vars(Start) /\ WF_vars(Pass)
=============================================================================
