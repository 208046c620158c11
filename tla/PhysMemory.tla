----------------------------- MODULE PhysMemory -----------------------------
(***************************************************************************)
(* The physical page allocator of memory_manager.c: a circular, doubly     *)
(* linked list of free blocks, kept in the first page of each block.       *)
(* Addresses are page numbers.                                             *)
(*                                                                         *)
(* Only the kernel thread allocates, so phys_memory_mutex is never waited  *)
(* for and a call runs to its end; a step is one turn of a loop over the   *)
(* list.                                                                   *)
(***************************************************************************)
EXTENDS Integers, Sequences, FiniteSets

CONSTANTS
  NPages,      \* pages of memory
  LowPages,    \* of them below 0x100000, which the allocator never gets
  AddressPages,\* pages that a phyaddr, an address of 32 bits, tells apart (2^20)
  MaxCount,    \* pages that are asked for at once at most
  MemoryMaps   \* maps the BIOS may report: sequences of [type, base, count]

\* The entries that init_memory_manager takes, and those of them that do not
\* begin where another one ends.
Accepted(map) == {i \in DOMAIN map : map[i].type = 1 /\ map[i].base >= LowPages}
Regions(map) ==
  {i \in Accepted(map) : \A j \in Accepted(map) : map[j].base + map[j].count # map[i].base}

\* What init_memory_manager takes begins at a page and ends below 4 GB: the low
\* 32 bits of an address above name a page of low memory.  A map goes upwards,
\* and describes at most three regions: with a fourth the list is damaged
\* (Inserted).
ASSUME PagesAssumption ==
  /\ NPages \in Nat /\ LowPages \in 1..NPages /\ MaxCount \in 1..(NPages - 1)
  /\ AddressPages \in Nat /\ AddressPages >= NPages
  /\ MemoryMaps \subseteq Seq([type : Nat, base : Nat, count : Nat])
ASSUME MapsAssumption ==
  \A map \in MemoryMaps :
    /\ \A i \in Accepted(map) : map[i].count > 0 /\ map[i].base + map[i].count <= NPages
    /\ \A i, j \in Accepted(map) : i < j => map[i].base + map[i].count <= map[j].base
    /\ Cardinality(Regions(map)) <= 3

VARIABLES
  head,              \* free_phys_memory_pointer
  block,             \* what each page has at its start: [next, prev, size]
  free_page_count,
  call,              \* the function running: [fn, base, count, cur]
  memory_map,        \* entries that init_memory_manager has still to look at
  result,            \* what alloc_phys_pages returned last
  usable, lent       \* history: pages given to the allocator; runs handed out

vars == <<head, block, free_page_count, call, memory_map, result, usable, lent>>

Page == 0..(NPages - 1)
Nothing == -1
Run(base, count) == base..(base + count - 1)
Free == usable \ UNION {Run(r[1], r[2]) : r \in lent}

NoCall == [fn |-> "none", base |-> 0, count |-> 0, cur |-> Nothing]
Idle == call = NoCall

Garbage == [next |-> 0, prev |-> 0, size |-> 0]

-----------------------------------------------------------------------------
(* The list.                                                               *)

\* Mutant: with the two links exchanged.
Linked_Swapped(b, base, next, prev, size) ==
  [b EXCEPT ![base] = [next |-> prev, prev |-> next, size |-> size]]
Linked(b, base, next, prev, size) ==
  [b EXCEPT ![base] = [next |-> next, prev |-> prev, size |-> size]]

\* Mutant: the block before it keeps its link.
Unlinked_Half(cur) == [block EXCEPT ![block[cur].next].prev = block[cur].prev]
Unlinked(cur) ==
  LET next == block[cur].next
      prev == block[cur].prev
  IN  [[block EXCEPT ![next].prev = prev] EXCEPT ![prev].next = next]

\* The pages follow the block cur.  If they close the gap to the next block,
\* that one is joined, too.
Appended(cur, count) ==
  LET b == [block EXCEPT ![cur].size = @ + count]
      next1 == block[cur].next
      next2 == b[next1].next
  IN  IF next1 # cur + b[cur].size THEN b
      ELSE [[b EXCEPT ![next2].prev = cur]
               EXCEPT ![cur].next = next2, ![cur].size = @ + b[next1].size]

\* The pages precede the block cur.
Prepended(cur, base, count) ==
  LET c == block[cur]
  IN  Linked([[block EXCEPT ![c.next].prev = base] EXCEPT ![c.prev].next = base],
             base, c.next, c.prev, count + c.size)

\* A block of its own.  The code takes cur's next block for its previous one.
Inserted(cur, base, count) ==
  LET prev == block[cur].next
  IN  Linked([[block EXCEPT ![cur].prev = base] EXCEPT ![prev].next = base],
             base, cur, prev, count)

-----------------------------------------------------------------------------
(* alloc_phys_pages.                                                       *)

alloc_phys_pages(count) ==
  /\ Idle /\ memory_map = <<>>
  /\ call' = [fn |-> "alloc", base |-> 0, count |-> count, cur |-> head]
  /\ UNCHANGED <<head, block, free_page_count, memory_map, result, usable, lent>>

\* Mutant: the count is kept.
CountAfter_Kept(page) == free_page_count
CountAfter(page) == free_page_count - IF page = Nothing THEN 0 ELSE call.count

Returns(page) ==
  /\ call' = NoCall /\ result' = page /\ free_page_count' = CountAfter(page)
  /\ lent' = IF page = Nothing THEN lent ELSE lent \cup {<<page, call.count>>}
  /\ UNCHANGED <<memory_map, usable>>

TooFew == free_page_count < call.count \/ head = Nothing

AllocRefused == call.fn = "alloc" /\ TooFew /\ Returns(Nothing) /\ UNCHANGED <<head, block>>

Searching == call.fn = "alloc" /\ ~TooFew

\* A block is free no longer.
HeadWithout(cur) ==
  IF cur # head THEN head ELSE IF block[cur].next = cur THEN Nothing ELSE block[cur].next

\* The owner of the pages writes over what was the block's start.
AllocWhole ==
  /\ Searching /\ block[call.cur].size = call.count
  /\ block' = [Unlinked(call.cur) EXCEPT ![call.cur] = Garbage]
  /\ head' = HeadWithout(call.cur)
  /\ Returns(call.cur)

\* The end of the block is handed out.  Mutant: its start, where the links are.
TailOf_Start(cur) == cur
TailOf(cur) == cur + block[cur].size - call.count

AllocTail ==
  /\ Searching /\ block[call.cur].size > call.count
  /\ block' = [block EXCEPT ![call.cur].size = @ - call.count]
  /\ Returns(TailOf(call.cur))
  /\ UNCHANGED head

AllocNext ==
  /\ Searching /\ block[call.cur].size < call.count
  /\ IF block[call.cur].next = head THEN Returns(Nothing)
     ELSE /\ call' = [call EXCEPT !.cur = block[@].next]
          /\ UNCHANGED <<free_page_count, memory_map, result, usable, lent>>
  /\ UNCHANGED <<head, block>>

-----------------------------------------------------------------------------
(* free_phys_pages.                                                        *)

Freed(base, count) ==
  /\ free_page_count' = free_page_count + count
  /\ usable' = usable \cup Run(base, count) /\ lent' = lent \ {<<base, count>>}
  /\ call' = NoCall /\ UNCHANGED result

\* Up to the loop.
free_phys_pages(base, count) ==
  IF head = Nothing
  THEN /\ block' = Linked(block, base, base, base, count)
       /\ head' = base /\ Freed(base, count)
  ELSE /\ call' = [fn |-> "free", base |-> base, count |-> count, cur |-> head]
       /\ UNCHANGED <<head, block, free_page_count, result, usable, lent>>

Follows == call.fn = "free" /\ call.cur + block[call.cur].size = call.base
Precedes == call.fn = "free" /\ ~Follows /\ call.base + call.count = call.cur
Between == /\ call.fn = "free" /\ ~Follows /\ ~Precedes
           /\ call.cur > call.base \/ block[call.cur].next = head

LowerHead == head' = IF call.base < head THEN call.base ELSE head
FreeDone == LowerHead /\ Freed(call.base, call.count) /\ UNCHANGED memory_map

FreeAppend == Follows /\ block' = Appended(call.cur, call.count) /\ FreeDone
FreePrepend == Precedes /\ block' = Prepended(call.cur, call.base, call.count) /\ FreeDone
FreeInsert == Between /\ block' = Inserted(call.cur, call.base, call.count) /\ FreeDone
FreeNext ==
  /\ call.fn = "free" /\ ~Follows /\ ~Precedes /\ ~Between
  /\ call' = [call EXCEPT !.cur = block[@].next]
  /\ UNCHANGED <<head, block, free_page_count, memory_map, result, usable, lent>>

-----------------------------------------------------------------------------

\* base and length of an entry have 64 bits, the parameters of free_phys_pages 32.
PAGE_SIZE == 4096
Phyaddr(base) == base % AddressPages
SizeT(count) == count % (AddressPages * PAGE_SIZE)

\* The loop of init_memory_manager over the map.
init_memory_manager ==
  /\ Idle /\ memory_map # <<>>
  /\ memory_map' = Tail(memory_map)
  /\ LET entry == Head(memory_map)
     IN  IF entry.type = 1 /\ entry.base >= LowPages
         THEN free_phys_pages(Phyaddr(entry.base), SizeT(entry.count))
         ELSE UNCHANGED <<head, block, free_page_count, call, result, usable, lent>>

\* The blocks of the list: the smallest set with its head that no link leaves.
Closed(blocks) == \A b \in blocks : block[b].next \in blocks
Blocks ==
  IF head = Nothing THEN {}
  ELSE {p \in Page : \A s \in SUBSET Page : head \in s /\ Closed(s) => p \in s}

(* What a caller may free without harm, which is more than the callers in  *)
(* the kernel do: they free only what could not be mapped when memory had  *)
(* run out.  Not tolerated: pages just below the only block, and, when     *)
(* there are three blocks or more, pages that do not follow the first one. *)
Tolerated(base, count) ==
  CASE Cardinality(Blocks) = 1 -> base + count # head
    [] Cardinality(Blocks) >= 3 -> head + block[head].size = base
    [] OTHER -> TRUE

FreeAgain ==
  /\ Idle /\ memory_map = <<>> /\ UNCHANGED memory_map
  /\ \E r \in lent : Tolerated(r[1], r[2]) /\ free_phys_pages(r[1], r[2])

Init ==
  /\ head = Nothing /\ free_page_count = 0 /\ call = NoCall /\ result = Nothing
  /\ block = [p \in Page |-> Garbage]
  /\ memory_map \in MemoryMaps /\ usable = {} /\ lent = {}

Step == \/ AllocRefused \/ AllocWhole \/ AllocTail \/ AllocNext
        \/ FreeAppend \/ FreePrepend \/ FreeInsert \/ FreeNext

Next == Step \/ init_memory_manager \/ FreeAgain \/ \E count \in 1..MaxCount : alloc_phys_pages(count)

Spec == Init /\ [][Next]_vars

(* The kernel thread is scheduled again and again.                         *)
FairSpec == Spec /\ WF_vars(Step)
=============================================================================
