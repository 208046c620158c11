------------------------------- MODULE Timer -------------------------------
(***************************************************************************)
(* kernel/timer.c: sleep against the tick counter.                         *)
(*                                                                         *)
(* The sum of the counter and ms is stored in an int and then compared     *)
(* with the unsigned counter, as unsigned: both are numbers from 0 to      *)
(* MaxCount, which is 2^32 - 1 in the program.                             *)
(***************************************************************************)
EXTENDS Integers, TLAPS

CONSTANTS MaxCount, Durations

VARIABLES
  pit_ticks,
  pc,        \* "awake" or "asleep": in the loop of sleep
  ticks,     \* the local variable of sleep
  ms,        \* its argument
  begun,     \* history: the counter at the call
  elapsed    \* history: interrupts since the call

vars == <<pit_ticks, pc, ticks, ms, begun, elapsed>>

\* A count and a duration of the program's types; sleep is called with no negative one.
TimerTypes == MaxCount \in Nat /\ Durations \subseteq 0..MaxCount

Sum(count, duration) ==
  IF count + duration > MaxCount THEN count + duration - MaxCount - 1 ELSE count + duration

Init ==
  /\ pit_ticks = 0 /\ pc = "awake"
  /\ ticks = 0 /\ ms = 0 /\ begun = 0 /\ elapsed = 0

\* The timer's interrupt comes at any time, also while sleep does not run.
inc_pit_ticks ==
  /\ pit_ticks' = Sum(pit_ticks, 1)
  /\ elapsed' = IF pc = "asleep" THEN elapsed + 1 ELSE elapsed
  /\ UNCHANGED <<pc, ticks, ms, begun>>

sleep ==
  /\ pc = "awake" /\ pc' = "asleep"
  /\ \E duration \in Durations : ms' = duration /\ ticks' = Sum(pit_ticks, duration)
  /\ begun' = pit_ticks /\ elapsed' = 0 /\ UNCHANGED pit_ticks

\* The loop ends; as long as it does not, a turn of it changes nothing.
wake == pc = "asleep" /\ ~(ticks > pit_ticks) /\ pc' = "awake" /\ UNCHANGED <<pit_ticks, ticks, ms, begun, elapsed>>

Next == inc_pit_ticks \/ sleep \/ wake

Spec == Init /\ [][Next]_vars

-----------------------------------------------------------------------------
\* If the counter does not wrap while it counts to the deadline, sleep does not
\* return before as many interrupts have come as it was told to wait for, even
\* when the thread was not scheduled for a long time in between.
SleepsLongEnough ==
  (pc = "awake" /\ begun + ms <= MaxCount) => elapsed >= ms

\* If the counter would wrap, sleep does not wait at all.
WrapEndsSleep ==
  (pc = "asleep" /\ elapsed = 0 /\ begun + ms > MaxCount) => ~(ticks > pit_ticks)

TypeOK ==
  /\ pit_ticks \in 0..MaxCount /\ ticks \in 0..MaxCount /\ begun \in 0..MaxCount
  /\ ms \in 0..MaxCount /\ elapsed \in Nat /\ pc \in {"awake", "asleep"}

\* Until the deadline the counter is as far as the interrupts since the call.
Counting ==
  pc = "asleep" =>
    /\ ticks = Sum(begun, ms)
    /\ (begun + elapsed <= MaxCount) => pit_ticks = begun + elapsed

IInv == TypeOK /\ Counting /\ SleepsLongEnough

\* The invariant holds at first, and every step keeps it.
LEMMA Initially == ASSUME TimerTypes PROVE Init => IInv
BY DEF TimerTypes, Init, IInv, TypeOK, Counting, SleepsLongEnough

LEMMA Inductive == ASSUME TimerTypes, IInv, [Next]_vars PROVE IInv'
<1> USE DEF TimerTypes, IInv
<1>1. CASE inc_pit_ticks
  BY <1>1 DEF inc_pit_ticks, TypeOK, Counting, SleepsLongEnough, Sum
<1>2. CASE sleep
  BY <1>2 DEF sleep, TypeOK, Counting, SleepsLongEnough, Sum
<1>3. CASE wake
  BY <1>3 DEF wake, TypeOK, Counting, SleepsLongEnough, Sum
<1>4. CASE UNCHANGED vars
  BY <1>4 DEF vars, TypeOK, Counting, SleepsLongEnough
<1>. QED BY <1>1, <1>2, <1>3, <1>4 DEF Next

(***************************************************************************)
(* sleep waits for as many interrupts as it was told to, unless the        *)
(* counter would wrap.                                                     *)
(***************************************************************************)
THEOREM SleepsEnough == ASSUME TimerTypes PROVE Spec => []SleepsLongEnough
<1>1. Init => IInv BY Initially
<1>2. IInv /\ [Next]_vars => IInv' BY Inductive
<1>3. IInv => SleepsLongEnough BY DEF IInv
<1>. QED BY <1>1, <1>2, <1>3, PTL DEF Spec

(***************************************************************************)
(* A sleep that would take the counter past its end is no sleep: the loop  *)
(* ends at its first test.                                                 *)
(***************************************************************************)
THEOREM WrapIsNoSleep == ASSUME TimerTypes PROVE Spec => []WrapEndsSleep
<1>1. Init => IInv BY Initially
<1>2. IInv /\ [Next]_vars => IInv' BY Inductive
<1>3. IInv => WrapEndsSleep BY DEF TimerTypes, IInv, TypeOK, Counting, WrapEndsSleep, Sum
<1>. QED BY <1>1, <1>2, <1>3, PTL DEF Spec
=============================================================================
