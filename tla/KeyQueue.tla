------------------------------ MODULE KeyQueue ------------------------------
(***************************************************************************)
(* What the key buffer of drivers/tty.c promises: a first-in first-out     *)
(* queue that is never longer than KEY_BUFFER_SIZE.  There is no test for  *)
(* a full buffer, so a key that does not fit does not lose itself: it      *)
(* loses every key before it.                                              *)
(***************************************************************************)
EXTENDS Naturals, Sequences

CONSTANTS Codes,          \* scan codes
          KEY_BUFFER_SIZE

VARIABLE queue

Init == queue = <<>>

Fits(k) == Len(queue) < KEY_BUFFER_SIZE /\ queue' = Append(queue, k)

\* The tail catches up with the head: the buffer looks empty.
Lapped == Len(queue) = KEY_BUFFER_SIZE - 1 /\ queue' = <<>>

\* The tail passes the head: only the new key is left.
Passed(k) == Len(queue) = KEY_BUFFER_SIZE /\ queue' = <<k>>

Press(k) == Fits(k) \/ Lapped \/ Passed(k)

Take == queue # <<>> /\ queue' = Tail(queue)

Next == Take \/ \E k \in Codes : Press(k)

Spec == Init /\ [][Next]_queue
=============================================================================
