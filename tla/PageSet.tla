------------------------------ MODULE PageSet ------------------------------
(***************************************************************************)
(* What the physical page allocator of memory_manager.c promises, however  *)
(* it keeps its list: it hands out runs of free pages, a single page as    *)
(* long as there is one, and takes back pages that are not free.           *)
(***************************************************************************)
EXTENDS Integers

CONSTANT Pages

VARIABLES free,    \* the pages that nobody owns
          wanted,  \* how many pages are being asked for, or 0
          granted  \* the last answer

Run(base, count) == base..(base + count - 1)

\* A request for several pages may find enough pages but no run of them.
Answers(count) ==
  {p \in Pages : Run(p, count) \subseteq free}
     \cup (IF count = 1 /\ free # {} THEN {} ELSE {-1})

Init == free = {} /\ wanted = 0 /\ granted = -1

Ask(count) == wanted = 0 /\ wanted' = count /\ UNCHANGED <<free, granted>>

Answer ==
  /\ wanted > 0 /\ wanted' = 0
  /\ granted' \in Answers(wanted)
  /\ free' = IF granted' = -1 THEN free ELSE free \ Run(granted', wanted)

Return(base, count) ==
  /\ wanted = 0 /\ Run(base, count) \intersect free = {}
  /\ free' = free \cup Run(base, count)
  /\ UNCHANGED <<wanted, granted>>

Next == Answer \/ \E count \in Pages \ {0} : Ask(count) \/ \E base \in Pages : Return(base, count)

Spec == Init /\ [][Next]_<<free, wanted, granted>>
=============================================================================
