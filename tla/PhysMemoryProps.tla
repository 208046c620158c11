-------------------------- MODULE PhysMemoryProps --------------------------
(***************************************************************************)
(* What must be true of the physical page allocator.                       *)
(***************************************************************************)
EXTENDS PhysMemory

TypeOK ==
  /\ head \in Page \cup {Nothing} /\ result \in Page \cup {Nothing}
  /\ block \in [Page -> [next : Page, prev : Page, size : 0..NPages]]
  /\ free_page_count \in 0..NPages
  /\ call \in [fn : {"none", "alloc", "free"}, base : Page, count : 0..NPages,
               cur : Page \cup {Nothing}]
  /\ usable \subseteq Page /\ lent \subseteq Page \X (1..MaxCount)

(***************************************************************************)
(* Every free page is in exactly one block of the list, no page that was   *)
(* handed out is in any, and free_page_count is their number.  The list    *)
(* can be walked in both directions: alloc_phys_pages unlinks a block      *)
(* through its prev.                                                       *)
(***************************************************************************)
ListIsExact ==
  /\ UNION {Run(b, block[b].size) : b \in Blocks} = Free
  /\ \A b, c \in Blocks :
        b # c => Run(b, block[b].size) \intersect Run(c, block[c].size) = {}
  /\ free_page_count = Cardinality(Free)
  /\ \A b \in Blocks : /\ block[b].next \in Blocks /\ block[block[b].next].prev = b
                       /\ block[b].prev \in Blocks /\ block[block[b].prev].next = b

(***************************************************************************)
(* The allocator is the set of pages of PageSet.tla: it never hands out a  *)
(* page twice, and refuses a single page only when none is free.           *)
(***************************************************************************)
PS == INSTANCE PageSet WITH
        Pages <- Page, free <- Free, granted <- result,
        wanted <- IF call.fn = "alloc" THEN call.count ELSE 0
IsPageSet == PS!Spec

(***************************************************************************)
(* No walk over the list goes round for ever.                              *)
(***************************************************************************)
CallReturns == ~Idle ~> Idle

-----------------------------------------------------------------------------
(* The inductive invariant from which PhysMemoryProofs proves them.        *)

(* In f the links of the blocks of ring are each other's inverse, and go   *)
(* through all of them.  Together the blocks are the pages.                *)
IsRing(f, ring) ==
  /\ \A b \in ring : /\ f[b].next \in ring /\ f[f[b].next].prev = b
                     /\ f[b].prev \in ring /\ f[f[b].prev].next = b
  /\ \A s \in SUBSET ring : s # {} /\ (\A b \in s : f[b].next \in s) => s = ring
Holds(f, ring, pages) ==
  /\ \A b \in ring : f[b].size > 0 /\ b + f[b].size <= NPages
  /\ \A b, c \in ring : b = c \/ b + f[b].size <= c \/ c + f[c].size <= b
  /\ \A p \in Page : p \in pages <=> \E b \in ring : p \in Run(b, f[b].size)

ListInv ==
  /\ Blocks \subseteq Page /\ head \in Blocks \cup {Nothing}
  /\ IsRing(block, Blocks) /\ Holds(block, Blocks, Free)
  /\ free_page_count = Cardinality(Free)

LentInv ==
  \A r \in lent : /\ Run(r[1], r[2]) \subseteq usable
                 /\ \A s \in lent : r = s \/ Run(r[1], r[2]) \cap Run(s[1], s[2]) = {}

(* The walk of free_phys_pages will still come to b, whose end the pages   *)
(* touch.                                                                  *)
Ahead(b) ==
  /\ b \in Blocks /\ b + block[b].size = call.base
  /\ \A s \in SUBSET Blocks :
       call.cur \in s /\ (\A c \in s : block[c].next \in s \cup {head}) => b \in s

(* There are few enough blocks to insert one, but not the one block that   *)
(* must not be prepended to; or it will come to neither.                   *)
Harmless ==
  \/ /\ \E a, b \in Blocks : Blocks = {a, b}
     /\ Blocks = {call.cur} => call.base + call.count # call.cur
  \/ \E b \in Blocks : Ahead(b) /\ (b = call.cur \/ \A c \in Blocks : c < call.base)

CallInv ==
  /\ call.fn = "none" => Idle
  /\ call.fn = "alloc" => /\ memory_map = <<>> /\ call.count \in 1..MaxCount
                          /\ IF head = Nothing THEN call.cur = Nothing ELSE call.cur \in Blocks
  /\ call.fn = "free" =>
       /\ call.cur \in Blocks /\ (call.cur # head => head < call.base)
       /\ call.count \in 1..(NPages - 1) /\ call.base + call.count <= NPages
       /\ \/ memory_map = <<>> /\ <<call.base, call.count>> \in lent
          \/ lent = {} /\ Run(call.base, call.count) \cap usable = {}
       /\ Harmless

(* While the map is read: so many of its entries have been seen, and every *)
(* block is the beginning of one of the regions among them.                *)
MapSeen(map) ==
  LET seen == Len(map) - Len(memory_map)
  IN  /\ seen >= 0 /\ \A i \in 1..Len(memory_map) : memory_map[i] = map[seen + i]
      /\ \A p \in usable : \E i \in Accepted(map) : i <= seen /\ p \in Run(map[i].base, map[i].count)
      /\ \A i \in Accepted(map) :
           i < seen \/ (i = seen /\ Idle) => Run(map[i].base, map[i].count) \subseteq usable
      /\ \A b \in Blocks : \E i \in Regions(map) : i <= seen /\ b = map[i].base
      /\ call.fn = "free" =>
           /\ seen \in Accepted(map) /\ call.base = map[seen].base /\ call.count = map[seen].count
           /\ seen \in Regions(map) \/ \E b \in Blocks : Ahead(b)
MapInv ==
  /\ memory_map \in Seq([type : Nat, base : Nat, count : Nat])
  /\ memory_map # <<>> => lent = {} /\ \E map \in MemoryMaps : MapSeen(map)

MemoryInv == TypeOK /\ ListInv /\ LentInv /\ CallInv /\ MapInv
=============================================================================
