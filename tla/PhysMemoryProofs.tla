-------------------------- MODULE PhysMemoryProofs --------------------------
(***************************************************************************)
(* Proofs about the physical page allocator: MemoryInv of PhysMemoryProps  *)
(* is an inductive invariant, so the list is exactly the free pages for    *)
(* every size of memory, and the allocator implements PageSet.             *)
(***************************************************************************)
EXTENDS PhysMemoryProps, FiniteSetTheorems, SequenceTheorems, TLAPS

Headers == [next : Page, prev : Page, size : 0..NPages]

-----------------------------------------------------------------------------
(* One field of one header is written.                                     *)

LEMMA WritesNext ==
  ASSUME NEW f \in [Page -> Headers], NEW x \in Page, NEW v \in Page,
         NEW g, g = [f EXCEPT ![x].next = v]
  PROVE  /\ g \in [Page -> Headers]
         /\ \A p \in Page : /\ g[p].next = (IF p = x THEN v ELSE f[p].next)
                            /\ g[p].prev = f[p].prev /\ g[p].size = f[p].size
BY DEF Headers

LEMMA WritesPrev ==
  ASSUME NEW f \in [Page -> Headers], NEW x \in Page, NEW v \in Page,
         NEW g, g = [f EXCEPT ![x].prev = v]
  PROVE  /\ g \in [Page -> Headers]
         /\ \A p \in Page : /\ g[p].prev = (IF p = x THEN v ELSE f[p].prev)
                            /\ g[p].next = f[p].next /\ g[p].size = f[p].size
BY DEF Headers

LEMMA WritesSize ==
  ASSUME NEW f \in [Page -> Headers], NEW x \in Page, NEW v \in 0..NPages,
         NEW g, g = [f EXCEPT ![x].size = v]
  PROVE  /\ g \in [Page -> Headers]
         /\ \A p \in Page : /\ g[p].size = (IF p = x THEN v ELSE f[p].size)
                            /\ g[p].next = f[p].next /\ g[p].prev = f[p].prev
BY DEF Headers

LEMMA WritesHeader ==
  ASSUME NEW f \in [Page -> Headers], NEW x \in Page, NEW n \in Page, NEW v \in Page,
         NEW s \in 0..NPages, NEW g, g = Linked(f, x, n, v, s)
  PROVE  /\ g \in [Page -> Headers]
         /\ g[x].next = n /\ g[x].prev = v /\ g[x].size = s
         /\ \A p \in Page \ {x} : g[p] = f[p]
BY DEF Headers, Linked

-----------------------------------------------------------------------------
(* Rings of any length.                                                    *)

\* The blocks that the links lead to from one of a ring are the ring.
LEMMA RingIsReached ==
  ASSUME NEW f, NEW ring \in SUBSET Page, NEW h \in ring, IsRing(f, ring)
  PROVE  ring = {p \in Page : \A s \in SUBSET Page :
                   h \in s /\ (\A b \in s : f[b].next \in s) => p \in s}
<1>1. ASSUME NEW p \in ring, NEW s \in SUBSET Page, h \in s, \A b \in s : f[b].next \in s
      PROVE  p \in s
  <2>1. s \cap ring \in SUBSET ring /\ s \cap ring # {}
    BY <1>1
  <2>2. \A b \in s \cap ring : f[b].next \in s \cap ring
    BY <1>1 DEF IsRing
  <2>3. s \cap ring = ring
    BY <2>1, <2>2 DEF IsRing
  <2>. QED
    BY <2>3
<1>2. \A b \in ring : f[b].next \in ring
  BY DEF IsRing
<1>. QED
  BY <1>1, <1>2

\* A ring has one block if that is its own next.
LEMMA OneBlock ==
  ASSUME NEW f, NEW ring, NEW c \in ring, IsRing(f, ring)
  PROVE  f[c].next = c <=> ring = {c}
<1>1. ASSUME f[c].next = c
      PROVE  ring = {c}
  <2>1. {c} \in SUBSET ring /\ {c} # {} /\ \A b \in {c} : f[b].next \in {c}
    BY <1>1
  <2>. QED
    BY <2>1 DEF IsRing
<1>. QED
  BY <1>1 DEF IsRing

\* alloc_phys_pages takes the block c out; free_phys_pages joins it to the one before.
LEMMA RingWithout ==
  ASSUME NEW f, NEW g, NEW ring, NEW c \in ring, IsRing(f, ring),
         \A p \in ring \ {c} :
            /\ g[p].next = (IF f[p].next = c THEN f[c].next ELSE f[p].next)
            /\ g[p].prev = (IF f[p].prev = c THEN f[c].prev ELSE f[p].prev)
  PROVE  IsRing(g, ring \ {c})
<1>1. ASSUME NEW b \in ring \ {c}
      PROVE  /\ g[b].next \in ring \ {c} /\ g[g[b].next].prev = b
             /\ g[b].prev \in ring \ {c} /\ g[g[b].prev].next = b
  <2>1. /\ b \in ring /\ b # c
        /\ f[b].next \in ring /\ f[f[b].next].prev = b /\ f[b].prev \in ring /\ f[f[b].prev].next = b
        /\ f[c].next \in ring /\ f[f[c].next].prev = c /\ f[c].prev \in ring /\ f[f[c].prev].next = c
    BY <1>1 DEF IsRing
  <2>2. g[b].next \in ring \ {c} /\ g[g[b].next].prev = b
    <3>1. CASE f[b].next = c
      BY <2>1, <3>1
    <3>2. CASE f[b].next # c
      BY <2>1, <3>2
    <3>. QED
      BY <3>1, <3>2
  <2>3. g[b].prev \in ring \ {c} /\ g[g[b].prev].next = b
    <3>1. CASE f[b].prev = c
      BY <2>1, <3>1
    <3>2. CASE f[b].prev # c
      BY <2>1, <3>2
    <3>. QED
      BY <3>1, <3>2
  <2>. QED
    BY <2>2, <2>3
<1>2. ASSUME NEW s \in SUBSET (ring \ {c}), s # {}, \A b \in s : g[b].next \in s
      PROVE  s = ring \ {c}
  <2>1. CASE f[c].prev \in s
    <3>1. s \cup {c} \in SUBSET ring /\ s \cup {c} # {}
      OBVIOUS
    <3>2. f[f[c].prev].next = c
      BY DEF IsRing
    <3>3. f[c].next \in s
      BY <1>2, <2>1, <3>2
    <3>4. \A b \in s \cup {c} : f[b].next \in s \cup {c}
      BY <1>2, <3>3
    <3>5. s \cup {c} = ring
      BY <3>1, <3>4 DEF IsRing
    <3>. QED
      BY <3>5
  <2>2. CASE f[c].prev \notin s
    <3>1. \A b \in s : f[b].next # c
      BY <2>2 DEF IsRing
    <3>2. \A b \in s : f[b].next \in s
      BY <1>2, <3>1
    <3>3. s = ring
      BY <1>2, <3>2 DEF IsRing
    <3>. QED
      BY <3>3
  <2>. QED
    BY <2>1, <2>2
<1>. QED
  BY <1>1, <1>2 DEF IsRing

\* free_phys_pages lets the block c begin at d instead.
LEMMA RingWith ==
  ASSUME NEW f, NEW g, NEW ring, NEW c \in ring, NEW d, d \notin ring, ring # {c},
         IsRing(f, ring), g[d].next = f[c].next, g[d].prev = f[c].prev,
         \A p \in ring \ {c} : /\ g[p].next = (IF f[p].next = c THEN d ELSE f[p].next)
                               /\ g[p].prev = (IF f[p].prev = c THEN d ELSE f[p].prev)
  PROVE  IsRing(g, (ring \ {c}) \cup {d})
<1>0. f[c].next # c /\ f[c].prev # c
  BY OneBlock DEF IsRing
<1>1. ASSUME NEW b \in (ring \ {c}) \cup {d}
      PROVE  /\ g[b].next \in (ring \ {c}) \cup {d} /\ g[g[b].next].prev = b
             /\ g[b].prev \in (ring \ {c}) \cup {d} /\ g[g[b].prev].next = b
  <2>1. CASE b = d
    <3>1. f[c].next \in ring \ {c} /\ f[c].prev \in ring \ {c}
      BY <1>0 DEF IsRing
    <3>2. f[f[c].next].prev = c /\ f[f[c].prev].next = c
      BY DEF IsRing
    <3>. QED
      BY <2>1, <3>1, <3>2
  <2>2. CASE b \in ring \ {c}
    <3>1. /\ f[b].next \in ring /\ f[f[b].next].prev = b
          /\ f[b].prev \in ring /\ f[f[b].prev].next = b
      BY <2>2 DEF IsRing
    <3>. QED
      BY <2>2, <3>1
  <2>. QED
    BY <1>1, <2>1, <2>2
<1>2. ASSUME NEW s \in SUBSET ((ring \ {c}) \cup {d}), s # {}, \A b \in s : g[b].next \in s
      PROVE  s = (ring \ {c}) \cup {d}
  <2>1. CASE d \in s
    <3>1. PICK t : t = (s \ {d}) \cup {c}
      OBVIOUS
    <3>2. t \in SUBSET ring /\ t # {}
      BY <3>1
    <3>3. \A b \in t : f[b].next \in t
      <4>1. ASSUME NEW b \in s \ {d}
            PROVE  f[b].next \in t
        <5>1. f[b].next \in ring /\ b \in ring \ {c} /\ g[b].next \in s
          BY <1>2, <4>1 DEF IsRing
        <5>. QED
          BY <3>1, <5>1
      <4>2. f[c].next \in t
        <5>1. f[c].next \in s /\ f[c].next \in ring
          BY <1>2, <2>1 DEF IsRing
        <5>. QED
          BY <3>1, <5>1
      <4>. QED
        BY <3>1, <4>1, <4>2
    <3>4. t = ring
      BY <3>2, <3>3 DEF IsRing
    <3>. QED
      BY <2>1, <3>1, <3>4
  <2>2. CASE d \notin s
    <3>1. \A b \in s : f[b].next \in s
      BY <1>2, <2>2
    <3>2. s = ring
      BY <1>2, <2>2, <3>1 DEF IsRing
    <3>. QED
      BY <1>2, <2>2, <3>2
  <2>. QED
    BY <2>1, <2>2
<1>. QED
  BY <1>1, <1>2 DEF IsRing

\* With two blocks there is one for each link, with one it is its own.
LEMMA TwoBlocks ==
  ASSUME NEW f, NEW ring, NEW c \in ring, IsRing(f, ring), \E a, b \in ring : ring = {a, b}
  PROVE  /\ ring = {c, f[c].next} /\ f[c].prev = f[c].next
         /\ f[f[c].next].next = c /\ f[f[c].next].prev = c
<1>1. PICK a, b \in ring : ring = {a, b}
  OBVIOUS
<1>2. PICK d : ring = {c, d}
  BY <1>1
<1>3. CASE d = c
  BY <1>2, <1>3 DEF IsRing
<1>4. CASE d # c
  <2>1. ring # {c} /\ ring # {d}
    BY <1>2, <1>4
  <2>2. f[c].next # c /\ f[d].next # d
    BY <1>2, <2>1, OneBlock
  <2>3. f[c].next = d /\ f[d].next = c
    BY <1>2, <2>2 DEF IsRing
  <2>. QED
    BY <1>2, <2>3 DEF IsRing
<1>. QED
  BY <1>3, <1>4

\* free_phys_pages inserts a block d; the code puts it between the next of c and
\* c, which is right when there is no third block.
LEMMA RingInserted ==
  ASSUME NEW f, NEW g, NEW ring, NEW c \in ring, NEW d, d \notin ring, IsRing(f, ring),
         \E a, b \in ring : ring = {a, b},
         g[d].next = c, g[d].prev = f[c].next,
         g[c].prev = d, g[f[c].next].next = d,
         f[c].next # c => g[c].next = f[c].next /\ g[f[c].next].prev = f[f[c].next].prev
  PROVE  IsRing(g, ring \cup {d})
<1>1. /\ ring = {c, f[c].next} /\ f[f[c].next].next = c /\ f[f[c].next].prev = c
  BY TwoBlocks
<1>2. PICK n : n = f[c].next
  OBVIOUS
<1>3. ring \cup {d} = {c, n, d} /\ d # c /\ d # n
  BY <1>1, <1>2
<1>4. CASE n = c
  <2>1. g[c].next = d /\ g[c].prev = d /\ g[d].next = c /\ g[d].prev = c
    BY <1>2, <1>4
  <2>2. ASSUME NEW s \in SUBSET {c, n, d}, s # {}, \A b \in s : g[b].next \in s
        PROVE  s = {c, n, d}
    BY <1>4, <2>1, <2>2
  <2>. QED
    BY <1>3, <1>4, <2>1, <2>2 DEF IsRing
<1>5. CASE n # c
  <2>1. /\ g[c].next = n /\ g[n].next = d /\ g[d].next = c
        /\ g[n].prev = c /\ g[d].prev = n /\ g[c].prev = d
    BY <1>1, <1>2, <1>5
  <2>2. ASSUME NEW s \in SUBSET {c, n, d}, s # {}, \A b \in s : g[b].next \in s
        PROVE  s = {c, n, d}
    BY <2>1, <2>2
  <2>3. \A b \in {c, n, d} : /\ g[b].next \in {c, n, d} /\ g[g[b].next].prev = b
                              /\ g[b].prev \in {c, n, d} /\ g[g[b].prev].next = b
    BY <2>1
  <2>4. IsRing(g, {c, n, d})
    BY <2>2, <2>3 DEF IsRing
  <2>. QED
    BY <1>3, <2>4
<1>. QED
  BY <1>4, <1>5

\* The first block is a ring by itself.
LEMMA RingOfOne ==
  ASSUME NEW g, NEW d, g[d].next = d, g[d].prev = d
  PROVE  IsRing(g, {d})
BY DEF IsRing

\* Only the links count.
LEMMA SameRing ==
  ASSUME NEW f, NEW g, NEW ring, IsRing(f, ring),
         \A b \in ring : g[b].next = f[b].next /\ g[b].prev = f[b].prev
  PROVE  IsRing(g, ring)
BY DEF IsRing

-----------------------------------------------------------------------------
(* The pages of the blocks.                                                *)

LEMMA Sizes ==
  ASSUME NEW f \in [Page -> Headers], NEW b \in Page
  PROVE  f[b].size \in Nat /\ b \in Nat /\ b < NPages /\ NPages \in Nat
BY PagesAssumption DEF Headers, Page

\* Two blocks with a page in common are one.
LEMMA OneOwner ==
  ASSUME NEW f \in [Page -> Headers], NEW ring \in SUBSET Page, NEW pages, Holds(f, ring, pages),
         NEW b \in ring, NEW c \in ring, NEW p \in Int,
         p \in Run(b, f[b].size), p \in Run(c, f[c].size)
  PROVE  b = c
<1>1. f[b].size \in Nat /\ b \in Nat /\ f[c].size \in Nat /\ c \in Nat
  BY Sizes
<1>. QED
  BY <1>1 DEF Holds, Run

\* A block's pages are free, and begin with its own.
LEMMA BlockPages ==
  ASSUME NEW f \in [Page -> Headers], NEW ring \in SUBSET Page, NEW pages, Holds(f, ring, pages),
         NEW b \in ring
  PROVE  /\ Run(b, f[b].size) \subseteq Page /\ Run(b, f[b].size) \subseteq pages
         /\ b \in Run(b, f[b].size) /\ b \in pages
<1>1. /\ f[b].size \in Nat /\ b \in Nat /\ NPages \in Nat /\ f[b].size > 0
      /\ b + f[b].size <= NPages
  BY Sizes DEF Holds
<1>2. Run(b, f[b].size) \subseteq Page /\ b \in Run(b, f[b].size)
  BY <1>1 DEF Run, Page
<1>. QED
  BY <1>2 DEF Holds

\* A whole block is handed out.
LEMMA HoldsWithout ==
  ASSUME NEW f \in [Page -> Headers], NEW ring \in SUBSET Page, NEW pages, Holds(f, ring, pages),
         NEW c \in ring, NEW g, \A p \in ring \ {c} : g[p].size = f[p].size
  PROVE  Holds(g, ring \ {c}, pages \ Run(c, f[c].size))
<1>1. ASSUME NEW p \in Page
      PROVE  p \in pages \ Run(c, f[c].size) <=> \E b \in ring \ {c} : p \in Run(b, g[b].size)
  <2>1. p \in pages <=> \E b \in ring : p \in Run(b, f[b].size)
    BY DEF Holds
  <2>2. \A b \in ring : p \in Run(b, f[b].size) /\ p \in Run(c, f[c].size) => b = c
    <3>1. p \in Int
      BY DEF Page
    <3>. QED
      BY <3>1, OneOwner
  <2>. QED
    BY <2>1, <2>2
<1>2. /\ \A b \in ring \ {c} : g[b].size > 0 /\ b + g[b].size <= NPages
      /\ \A b, d \in ring \ {c} : b = d \/ b + g[b].size <= d \/ d + g[d].size <= b
  BY DEF Holds
<1>. QED
  BY <1>1, <1>2 DEF Holds

\* The end of a block is handed out.
LEMMA HoldsShorter ==
  ASSUME NEW f \in [Page -> Headers], NEW ring \in SUBSET Page, NEW pages, Holds(f, ring, pages),
         NEW c \in ring, NEW n \in Nat, n < f[c].size,
         NEW g, g[c].size = f[c].size - n, \A p \in ring \ {c} : g[p].size = f[p].size
  PROVE  /\ Holds(g, ring, pages \ Run(c + f[c].size - n, n))
         /\ Run(c + f[c].size - n, n) \subseteq Run(c, f[c].size)
<1>1. \A b \in ring : f[b].size \in Nat /\ b \in Nat
  BY Sizes
<1>2. PICK k : k = f[c].size
  OBVIOUS
<1>3. c \in Nat /\ k \in Nat /\ n < k /\ g[c].size = k - n
  BY <1>1, <1>2
<1>4. \A p \in Int : p \in Run(c, k - n) <=> p \in Run(c, k) /\ p \notin Run(c + k - n, n)
  BY <1>3 DEF Run
<1>5. Run(c + k - n, n) \subseteq Run(c, k)
  BY <1>3 DEF Run
<1>6. ASSUME NEW p \in Page
      PROVE  p \in pages \ Run(c + k - n, n) <=> \E b \in ring : p \in Run(b, g[b].size)
  <2>1. p \in pages <=> \E b \in ring : p \in Run(b, f[b].size)
    BY DEF Holds
  <2>2. \A b \in ring : p \in Run(b, f[b].size) /\ p \in Run(c, f[c].size) => b = c
    <3>1. p \in Int
      BY DEF Page
    <3>. QED
      BY <3>1, OneOwner
  <2>3. p \in Int
    BY DEF Page
  <2>4. \A b \in ring \ {c} : p \in Run(b, g[b].size) <=> p \in Run(b, f[b].size)
    OBVIOUS
  <2>5. p \in Run(c, g[c].size) <=> p \in Run(c, f[c].size) /\ p \notin Run(c + k - n, n)
    BY <1>2, <1>3, <1>4, <2>3
  <2>. QED
    BY <1>2, <1>5, <2>1, <2>2, <2>4, <2>5
<1>7. \A b \in ring : g[b].size \in Nat /\ g[b].size > 0 /\ g[b].size <= f[b].size
  <2>1. ASSUME NEW b \in ring
        PROVE  g[b].size \in Nat /\ g[b].size > 0 /\ g[b].size <= f[b].size
    <3>1. CASE b = c
      BY <1>2, <1>3, <3>1
    <3>2. CASE b # c
      BY <1>1, <3>2 DEF Holds
    <3>. QED
      BY <3>1, <3>2
  <2>. QED
    BY <2>1
<1>8. \A b \in ring : b + g[b].size <= NPages
  BY <1>1, <1>7, Sizes DEF Holds
<1>9. \A b, d \in ring : b = d \/ b + g[b].size <= d \/ d + g[d].size <= b
  BY <1>1, <1>7 DEF Holds
<1>. QED
  BY <1>2, <1>5, <1>6, <1>7, <1>8, <1>9 DEF Holds

\* Pages that follow a block are added to it.
LEMMA HoldsLonger ==
  ASSUME NEW f \in [Page -> Headers], NEW ring \in SUBSET Page, NEW pages, Holds(f, ring, pages),
         NEW c \in ring, NEW n \in Nat, n > 0, c + f[c].size + n <= NPages,
         Run(c + f[c].size, n) \cap pages = {},
         NEW g, g[c].size = f[c].size + n, \A p \in ring \ {c} : g[p].size = f[p].size
  PROVE  Holds(g, ring, pages \cup Run(c + f[c].size, n))
<1>1. \A b \in ring : f[b].size \in Nat /\ b \in Nat /\ f[b].size > 0 /\ b + f[b].size <= NPages
  BY Sizes DEF Holds
<1>2. PICK k : k = f[c].size
  OBVIOUS
<1>3. c \in Nat /\ k \in Nat /\ g[c].size = k + n /\ c + k + n <= NPages
  BY <1>1, <1>2
<1>4. \A p \in Int : p \in Run(c, k + n) <=> p \in Run(c, k) \/ p \in Run(c + k, n)
  BY <1>3 DEF Run
<1>5. ASSUME NEW p \in Page
      PROVE  p \in pages \cup Run(c + k, n) <=> \E b \in ring : p \in Run(b, g[b].size)
  <2>1. p \in pages <=> \E b \in ring : p \in Run(b, f[b].size)
    BY DEF Holds
  <2>2. p \in Int
    BY DEF Page
  <2>3. \A b \in ring \ {c} : p \in Run(b, g[b].size) <=> p \in Run(b, f[b].size)
    OBVIOUS
  <2>4. p \in Run(c, g[c].size) <=> p \in Run(c, f[c].size) \/ p \in Run(c + k, n)
    BY <1>2, <1>3, <1>4, <2>2
  <2>. QED
    BY <2>1, <2>3, <2>4
<1>6. \A b \in ring : g[b].size > 0 /\ b + g[b].size <= NPages
  <2>1. ASSUME NEW b \in ring
        PROVE  g[b].size > 0 /\ b + g[b].size <= NPages
    <3>1. CASE b = c
      BY <1>3, <3>1
    <3>2. CASE b # c
      BY <1>1, <3>2
    <3>. QED
      BY <3>1, <3>2
  <2>. QED
    BY <2>1
<1>7. ASSUME NEW b \in ring, b # c
      PROVE  b + f[b].size <= c \/ c + k + n <= b
  <2>1. b + f[b].size <= c \/ c + k <= b
    BY <1>2, <1>7 DEF Holds
  <2>2. b \in pages
    BY BlockPages
  <2>3. b \notin Run(c + k, n)
    BY <1>2, <2>2
  <2>. QED
    BY <1>1, <1>3, <2>1, <2>3 DEF Run
<1>8. ASSUME NEW b \in ring, NEW d \in ring, b # d
      PROVE  b + g[b].size <= d \/ d + g[d].size <= b
  <2>1. CASE b = c
    BY <1>1, <1>3, <1>7, <1>8, <2>1
  <2>2. CASE d = c
    BY <1>1, <1>3, <1>7, <1>8, <2>2
  <2>3. CASE b # c /\ d # c
    BY <1>8, <2>3 DEF Holds
  <2>. QED
    BY <2>1, <2>2, <2>3
<1>. QED
  BY <1>2, <1>5, <1>6, <1>8 DEF Holds

\* Two blocks that touch become one.
LEMMA HoldsJoined ==
  ASSUME NEW f \in [Page -> Headers], NEW ring \in SUBSET Page, NEW pages, Holds(f, ring, pages),
         NEW c \in ring, NEW d \in ring, c # d, d = c + f[c].size,
         NEW g, g[c].size = f[c].size + f[d].size,
         \A p \in ring \ {c, d} : g[p].size = f[p].size
  PROVE  Holds(g, ring \ {d}, pages)
<1>1. \A b \in ring : f[b].size \in Nat /\ b \in Nat /\ f[b].size > 0 /\ b + f[b].size <= NPages
  BY Sizes DEF Holds
<1>2. PICK k, l : k = f[c].size /\ l = f[d].size
  OBVIOUS
<1>3. /\ c \in Nat /\ k \in Nat /\ l \in Nat /\ k > 0 /\ l > 0 /\ d = c + k
      /\ g[c].size = k + l /\ c + (k + l) <= NPages
  BY <1>1, <1>2
<1>4. \A p \in Int : p \in Run(c, k + l) <=> p \in Run(c, k) \/ p \in Run(d, l)
  BY <1>3 DEF Run
<1>5. ASSUME NEW p \in Page
      PROVE  p \in pages <=> \E b \in ring \ {d} : p \in Run(b, g[b].size)
  <2>1. p \in pages <=> \E b \in ring : p \in Run(b, f[b].size)
    BY DEF Holds
  <2>2. p \in Int
    BY DEF Page
  <2>3. \A b \in ring \ {c, d} : p \in Run(b, g[b].size) <=> p \in Run(b, f[b].size)
    OBVIOUS
  <2>4. p \in Run(c, g[c].size) <=> p \in Run(c, f[c].size) \/ p \in Run(d, f[d].size)
    BY <1>2, <1>3, <1>4, <2>2
  <2>. QED
    BY <2>1, <2>3, <2>4
<1>6. ASSUME NEW b \in ring \ {d}
      PROVE  g[b].size > 0 /\ b + g[b].size <= NPages
  <2>1. CASE b = c
    BY <1>3, <2>1
  <2>2. CASE b # c
    BY <1>1, <2>2
  <2>. QED
    BY <2>1, <2>2
<1>7. ASSUME NEW b \in ring \ {c, d}
      PROVE  b + f[b].size <= c \/ c + (k + l) <= b
  <2>1. b + f[b].size <= c \/ c + k <= b
    BY <1>2, <1>7 DEF Holds
  <2>2. b + f[b].size <= d \/ d + l <= b
    BY <1>2, <1>7 DEF Holds
  <2>. QED
    BY <1>1, <1>3, <2>1, <2>2
<1>8. ASSUME NEW b \in ring \ {d}, NEW e \in ring \ {d}, b # e
      PROVE  b + g[b].size <= e \/ e + g[e].size <= b
  <2>1. CASE b = c
    BY <1>1, <1>3, <1>7, <1>8, <2>1
  <2>2. CASE e = c
    BY <1>1, <1>3, <1>7, <1>8, <2>2
  <2>3. CASE b # c /\ e # c
    BY <1>8, <2>3 DEF Holds
  <2>. QED
    BY <2>1, <2>2, <2>3
<1>. QED
  BY <1>5, <1>6, <1>8 DEF Holds

\* Pages that precede a block become its beginning.
LEMMA HoldsEarlier ==
  ASSUME NEW f \in [Page -> Headers], NEW ring \in SUBSET Page, NEW pages, Holds(f, ring, pages),
         NEW c \in ring, NEW d \in Page, NEW n \in Nat, n > 0, d + n = c,
         Run(d, n) \cap pages = {},
         NEW g, g[d].size = n + f[c].size, \A p \in ring \ {c} : g[p].size = f[p].size
  PROVE  Holds(g, (ring \ {c}) \cup {d}, pages \cup Run(d, n)) /\ d \notin ring
<1>1. \A b \in ring : f[b].size \in Nat /\ b \in Nat /\ f[b].size > 0 /\ b + f[b].size <= NPages
  BY Sizes DEF Holds
<1>2. PICK k : k = f[c].size
  OBVIOUS
<1>3. /\ c \in Nat /\ k \in Nat /\ k > 0 /\ d \in Nat /\ d + n = c
      /\ g[d].size = n + k /\ d + (n + k) <= NPages
  BY <1>1, <1>2 DEF Page
<1>4. \A p \in Int : p \in Run(d, n + k) <=> p \in Run(d, n) \/ p \in Run(c, k)
  BY <1>3 DEF Run
<1>5. d \notin ring
  <2>1. d \in Run(d, n)
    BY <1>3 DEF Run
  <2>. QED
    BY <2>1, BlockPages
<1>6. ASSUME NEW p \in Page
      PROVE  p \in pages \cup Run(d, n)
               <=> \E b \in (ring \ {c}) \cup {d} : p \in Run(b, g[b].size)
  <2>1. p \in pages <=> \E b \in ring : p \in Run(b, f[b].size)
    BY DEF Holds
  <2>2. p \in Int
    BY DEF Page
  <2>3. \A b \in ring \ {c} : p \in Run(b, g[b].size) <=> p \in Run(b, f[b].size)
    OBVIOUS
  <2>4. p \in Run(d, g[d].size) <=> p \in Run(d, n) \/ p \in Run(c, f[c].size)
    BY <1>2, <1>3, <1>4, <2>2
  <2>. QED
    BY <2>1, <2>3, <2>4
<1>7. ASSUME NEW b \in (ring \ {c}) \cup {d}
      PROVE  g[b].size > 0 /\ b + g[b].size <= NPages
  <2>1. CASE b = d
    BY <1>3, <2>1
  <2>2. CASE b # d
    BY <1>1, <2>2
  <2>. QED
    BY <2>1, <2>2
<1>8. ASSUME NEW b \in ring \ {c}
      PROVE  b + f[b].size <= d \/ d + (n + k) <= b
  <2>1. b + f[b].size <= c \/ c + k <= b
    BY <1>2, <1>8 DEF Holds
  <2>2. b + f[b].size <= d \/ d + n <= b
    <3>1. PICK l : l = f[b].size
      OBVIOUS
    <3>2. b \in Nat /\ l \in Nat /\ l > 0
      BY <1>1, <3>1
    <3>3. Run(b, l) \subseteq pages
      BY <3>1, BlockPages
    <3>4. b \notin Run(d, n) /\ (d \in Run(b, l) => FALSE)
      <4>1. d \in Run(d, n)
        BY <1>3 DEF Run
      <4>2. b \in Run(b, l)
        BY <3>2 DEF Run
      <4>. QED
        BY <3>3, <4>1, <4>2
    <3>. QED
      BY <1>3, <3>1, <3>2, <3>4 DEF Run
  <2>. QED
    BY <1>1, <1>3, <2>1, <2>2
<1>9. ASSUME NEW b \in (ring \ {c}) \cup {d}, NEW e \in (ring \ {c}) \cup {d}, b # e
      PROVE  b + g[b].size <= e \/ e + g[e].size <= b
  <2>1. CASE b = d
    BY <1>1, <1>3, <1>8, <1>9, <2>1
  <2>2. CASE e = d
    BY <1>1, <1>3, <1>8, <1>9, <2>2
  <2>3. CASE b # d /\ e # d
    BY <1>9, <2>3 DEF Holds
  <2>. QED
    BY <2>1, <2>2, <2>3
<1>. QED
  BY <1>5, <1>6, <1>7, <1>9 DEF Holds

\* Pages become a block.
LEMMA HoldsMore ==
  ASSUME NEW f \in [Page -> Headers], NEW ring \in SUBSET Page, NEW pages, Holds(f, ring, pages),
         NEW d \in Page, NEW n \in Nat, n > 0, d + n <= NPages, Run(d, n) \cap pages = {},
         NEW g, g[d].size = n, \A p \in ring : g[p].size = f[p].size
  PROVE  Holds(g, ring \cup {d}, pages \cup Run(d, n)) /\ d \notin ring
<1>1. \A b \in ring : f[b].size \in Nat /\ b \in Nat /\ f[b].size > 0 /\ b + f[b].size <= NPages
  BY Sizes DEF Holds
<1>2. d \in Nat
  BY DEF Page
<1>3. d \in Run(d, n)
  BY <1>2 DEF Run
<1>4. d \notin ring
  BY <1>3, BlockPages
<1>5. ASSUME NEW p \in Page
      PROVE  p \in pages \cup Run(d, n) <=> \E b \in ring \cup {d} : p \in Run(b, g[b].size)
  <2>1. p \in pages <=> \E b \in ring : p \in Run(b, f[b].size)
    BY DEF Holds
  <2>2. \A b \in ring : p \in Run(b, g[b].size) <=> p \in Run(b, f[b].size)
    OBVIOUS
  <2>. QED
    BY <2>1, <2>2
<1>6. \A b \in ring \cup {d} : g[b].size > 0 /\ b + g[b].size <= NPages
  BY <1>1
<1>7. ASSUME NEW b \in ring
      PROVE  b + f[b].size <= d \/ d + n <= b
  <2>1. PICK l : l = f[b].size
    OBVIOUS
  <2>2. b \in Nat /\ l \in Nat /\ l > 0
    BY <1>1, <2>1
  <2>3. Run(b, l) \subseteq pages
    BY <2>1, BlockPages
  <2>4. b \in Run(b, l)
    BY <2>2 DEF Run
  <2>5. b \notin Run(d, n) /\ d \notin Run(b, l)
    BY <1>3, <2>3, <2>4
  <2>. QED
    BY <1>2, <2>1, <2>2, <2>5 DEF Run
<1>8. \A b, e \in ring \cup {d} : b = e \/ b + g[b].size <= e \/ e + g[e].size <= b
  <2>1. ASSUME NEW b \in ring \cup {d}, NEW e \in ring \cup {d}, b # e
        PROVE  b + g[b].size <= e \/ e + g[e].size <= b
    <3>1. CASE b = d
      BY <1>7, <2>1, <3>1
    <3>2. CASE e = d
      BY <1>7, <2>1, <3>2
    <3>3. CASE b # d /\ e # d
      BY <2>1, <3>3 DEF Holds
    <3>. QED
      BY <3>1, <3>2, <3>3
  <2>. QED
    BY <2>1
<1>. QED
  BY <1>4, <1>5, <1>6, <1>8 DEF Holds

-----------------------------------------------------------------------------
(* Free pages, and how many they are.                                      *)

LEMMA FreeMeans ==
  \A p : p \in Free <=> p \in usable /\ \A r \in lent : p \notin Run(r[1], r[2])
BY DEF Free

LEMMA FreeAfter ==
  \A p : p \in Free' <=> p \in usable' /\ \A r \in lent' : p \notin Run(r[1], r[2])
BY DEF Free

LEMMA PagesAreLent ==
  ASSUME LentInv, NEW p, NEW n, Run(p, n) \subseteq Free,
         lent' = lent \cup {<<p, n>>}, usable' = usable
  PROVE  LentInv' /\ Free' = Free \ Run(p, n)
<1>1. Free' = Free \ Run(p, n)
  <2>0. <<p, n>>[1] = p /\ <<p, n>>[2] = n
    OBVIOUS
  <2>1. PICK t : t = <<p, n>> /\ t[1] = p /\ t[2] = n
    BY <2>0
  <2>2. ASSUME NEW q
        PROVE  q \in Free' <=> q \in Free \ Run(p, n)
    <3>1. lent' = lent \cup {t}
      BY <2>1
    <3>2. q \in Free <=> q \in usable /\ \A r \in lent : q \notin Run(r[1], r[2])
      BY FreeMeans
    <3>3. q \in Free' <=> q \in usable /\ \A r \in lent \cup {t} : q \notin Run(r[1], r[2])
      BY <3>1, FreeAfter
    <3>. QED
      BY <2>1, <3>2, <3>3
  <2>. QED
    BY <2>2
<1>2. \A q \in Run(p, n) : q \in usable /\ \A r \in lent : q \notin Run(r[1], r[2])
  BY FreeMeans
<1>3. ASSUME NEW r \in lent', NEW s \in lent'
      PROVE  /\ Run(r[1], r[2]) \subseteq usable'
             /\ r = s \/ Run(r[1], r[2]) \cap Run(s[1], s[2]) = {}
  <2>1. CASE r = <<p, n>>
    BY <1>2, <2>1
  <2>2. CASE s = <<p, n>> /\ r # s
    BY <1>2, <2>2 DEF LentInv
  <2>3. CASE r \in lent /\ s \in lent
    BY <2>3 DEF LentInv
  <2>. QED
    BY <2>1, <2>2, <2>3
<1>. QED
  BY <1>1, <1>3 DEF LentInv

LEMMA PagesComeBack ==
  ASSUME LentInv, NEW p, NEW n, <<p, n>> \in lent \/ lent = {},
         lent' = lent \ {<<p, n>>}, usable' = usable \cup Run(p, n)
  PROVE  LentInv' /\ Free' = Free \cup Run(p, n)
<1>1. LentInv'
  BY DEF LentInv
<1>2. ASSUME NEW q
      PROVE  q \in Free' <=> q \in Free \cup Run(p, n)
  <2>1. CASE lent = {}
    <3>1. lent' = {}
      BY <2>1
    <3>. QED
      BY <2>1, <3>1, FreeMeans, FreeAfter
  <2>2. CASE <<p, n>> \in lent
    <3>0. <<p, n>>[1] = p /\ <<p, n>>[2] = n
      OBVIOUS
    <3>1. PICK t : t = <<p, n>> /\ t[1] = p /\ t[2] = n
      BY <3>0
    <3>2. \A r \in lent : r = t \/ Run(p, n) \cap Run(r[1], r[2]) = {}
      BY <2>2, <3>1 DEF LentInv
    <3>3. usable' = usable
      BY <2>2, <3>1 DEF LentInv
    <3>4. q \in Run(p, n) => q \in usable
      BY <2>2, <3>1 DEF LentInv
    <3>5. lent' = lent \ {t}
      BY <3>1
    <3>6. q \in Free <=> q \in usable /\ \A r \in lent : q \notin Run(r[1], r[2])
      BY FreeMeans
    <3>7. q \in Free' <=> q \in usable /\ \A r \in lent \ {t} : q \notin Run(r[1], r[2])
      BY <3>3, <3>5, FreeAfter
    <3>. QED
      BY <2>2, <3>1, <3>2, <3>4, <3>6, <3>7
  <2>. QED
    BY <2>1, <2>2
<1>. QED
  BY <1>1, <1>2

LEMMA PagesAreFinite ==
  ASSUME NEW s \in SUBSET Page
  PROVE  IsFiniteSet(s) /\ Cardinality(s) \in 0..NPages
<1>1. IsFiniteSet(Page) /\ Cardinality(Page) = NPages
  <2>1. 0 \in Int /\ NPages - 1 \in Int /\ NPages > 0
    BY PagesAssumption
  <2>2. PICK a, b : a = 0 /\ b = NPages - 1
    OBVIOUS
  <2>3. IsFiniteSet(a..b) /\ Cardinality(a..b) = IF a > b THEN 0 ELSE b - a + 1
    BY <2>1, <2>2, FS_Interval
  <2>4. ~(a > b) /\ b - a + 1 = NPages
    BY <2>1, <2>2, PagesAssumption
  <2>. QED
    BY <2>2, <2>3, <2>4 DEF Page
<1>2. IsFiniteSet(s) /\ Cardinality(s) <= Cardinality(Page)
  BY <1>1, FS_Subset
<1>3. Cardinality(s) \in Nat
  BY <1>2, FS_CardinalityType
<1>. QED
  BY <1>1, <1>2, <1>3, PagesAssumption

LEMMA RunLength ==
  ASSUME NEW p \in Int, NEW n \in Nat
  PROVE  IsFiniteSet(Run(p, n)) /\ Cardinality(Run(p, n)) = n
<1>1. p + n - 1 \in Int
  OBVIOUS
<1>2. /\ IsFiniteSet(p..(p + n - 1))
      /\ Cardinality(p..(p + n - 1)) = IF p > p + n - 1 THEN 0 ELSE p + n - 1 - p + 1
  BY <1>1, FS_Interval
<1>. QED
  BY <1>2 DEF Run

LEMMA FewerPages ==
  ASSUME NEW s \in SUBSET Page, NEW p \in Int, NEW n \in Nat, Run(p, n) \subseteq s
  PROVE  Cardinality(s \ Run(p, n)) = Cardinality(s) - n
<1>1. IsFiniteSet(s)
  BY PagesAreFinite
<1>2. Cardinality(s \ Run(p, n)) = Cardinality(s) - Cardinality(s \cap Run(p, n))
  BY <1>1, FS_Difference
<1>3. s \cap Run(p, n) = Run(p, n)
  OBVIOUS
<1>. QED
  BY <1>2, <1>3, RunLength

LEMMA MorePages ==
  ASSUME NEW s \in SUBSET Page, NEW p \in Int, NEW n \in Nat, Run(p, n) \cap s = {}
  PROVE  Cardinality(s \cup Run(p, n)) = Cardinality(s) + n
<1>1. IsFiniteSet(s) /\ IsFiniteSet(Run(p, n)) /\ Cardinality(s) \in Nat
  BY PagesAreFinite, RunLength
<1>2. Cardinality(s \cup Run(p, n))
        = Cardinality(s) + Cardinality(Run(p, n)) - Cardinality(s \cap Run(p, n))
  BY <1>1, FS_Union
<1>3. s \cap Run(p, n) = {}
  OBVIOUS
<1>4. Cardinality(s \cap Run(p, n)) = 0
  BY <1>3, FS_EmptySet
<1>5. Cardinality(Run(p, n)) = n
  BY RunLength
<1>. QED
  BY <1>1, <1>2, <1>4, <1>5

-----------------------------------------------------------------------------
(* The list after a step.                                                  *)

\* If the headers are a ring that holds the free pages, it is the list.
LEMMA ListAfter ==
  ASSUME NEW ring \in SUBSET Page, IsRing(block', ring), Holds(block', ring, Free'),
         IF ring = {} THEN head' = Nothing ELSE head' \in ring,
         free_page_count' = Cardinality(Free')
  PROVE  ListInv' /\ Blocks' = ring
<1>1. Nothing \notin Page
  BY DEF Nothing, Page
<1>2. Blocks' = ring
  <2>1. CASE ring = {}
    BY <2>1 DEF Blocks
  <2>2. CASE ring # {}
    <3>1. head' \in ring /\ head' # Nothing
      BY <1>1, <2>2
    <3>2. ring = {p \in Page : \A s \in SUBSET Page :
                    head' \in s /\ (\A b \in s : block'[b].next \in s) => p \in s}
      BY <3>1, RingIsReached
    <3>. QED
      BY <3>1, <3>2 DEF Blocks, Closed
  <2>. QED
    BY <2>1, <2>2
<1>3. head' \in ring \cup {Nothing}
  OBVIOUS
<1>4. IsRing(block', Blocks') /\ Holds(block', Blocks', Free')
  BY <1>2
<1>. QED
  BY <1>2, <1>3, <1>4 DEF ListInv

LEMMA SameList ==
  ASSUME UNCHANGED <<head, block>>
  PROVE  Blocks' = Blocks
BY DEF Blocks, Closed

-----------------------------------------------------------------------------
(* The parts of the invariant, as the steps need them.                     *)

LEMMA Typed ==
  ASSUME TypeOK
  PROVE  /\ block \in [Page -> Headers] /\ Free \in SUBSET Page /\ lent \subseteq Page \X (1..MaxCount)
         /\ call.base \in Page /\ call.base \in Nat /\ call.count \in 0..NPages /\ call.count \in Nat
         /\ Nothing \notin Page /\ head \in Page \cup {Nothing}
         /\ call = [fn |-> call.fn, base |-> call.base, count |-> call.count, cur |-> call.cur]
         /\ call.fn \in {"none", "alloc", "free"}
<1>1. block \in [Page -> Headers] /\ lent \subseteq Page \X (1..MaxCount) /\ head \in Page \cup {Nothing}
  BY DEF TypeOK, Headers
<1>2. Free \in SUBSET Page
  BY DEF TypeOK, Free
<1>3. call \in [fn : {"none", "alloc", "free"}, base : Page, count : 0..NPages,
                cur : Page \cup {Nothing}]
  BY DEF TypeOK
<1>4. call.base \in Page /\ call.count \in 0..NPages /\ call.fn \in {"none", "alloc", "free"}
  BY <1>3
<1>5. call = [fn |-> call.fn, base |-> call.base, count |-> call.count, cur |-> call.cur]
  BY <1>3
<1>6. call.base \in Nat /\ call.count \in Nat /\ Nothing \notin Page
  BY <1>4, PagesAssumption DEF Page, Nothing
<1>. QED
  BY <1>1, <1>2, <1>4, <1>5, <1>6

LEMMA Listed ==
  ASSUME MemoryInv
  PROVE  /\ Blocks \in SUBSET Page /\ IsRing(block, Blocks) /\ Holds(block, Blocks, Free)
         /\ Blocks # {} => head \in Blocks
         /\ head \in Blocks => head \in Page /\ head # Nothing
         /\ head = Nothing => Blocks = {} /\ Free = {}
         /\ head # Nothing => head \in Blocks
         /\ free_page_count = Cardinality(Free)
<1>1. TypeOK /\ ListInv
  BY DEF MemoryInv
<1>2. Blocks \in SUBSET Page /\ IsRing(block, Blocks) /\ Holds(block, Blocks, Free)
  BY <1>1 DEF ListInv
<1>3. head = Nothing => Blocks = {}
  BY DEF Blocks
<1>4. Blocks = {} => Free = {}
  <2>1. Free \subseteq Page
    BY <1>1, Typed
  <2>. QED
    BY <1>2, <2>1 DEF Holds
<1>5. head \in Blocks \cup {Nothing} /\ free_page_count = Cardinality(Free)
  BY <1>1 DEF ListInv
<1>. QED
  BY <1>1, <1>2, <1>3, <1>4, <1>5, Typed

\* No call is running: what a call promises holds.
LEMMA NothingRuns ==
  ASSUME call' = NoCall
  PROVE  CallInv' /\ Idle' /\ call'.fn = "none"
BY DEF CallInv, Idle, NoCall

LEMMA NoCallTyped == /\ NoCall.fn = "none" /\ NoCall.base = 0 /\ NoCall.count = 0 /\ NoCall.cur = Nothing
                     /\ NoCall \in [fn : {"none", "alloc", "free"}, base : Page, count : 0..NPages,
                                    cur : Page \cup {Nothing}]
<1>1. 0 \in Page /\ 0 \in 0..NPages
  BY PagesAssumption DEF Page
<1>. QED
  BY <1>1 DEF NoCall

\* Nothing is left of the map.
LEMMA MapIsRead ==
  ASSUME memory_map' = <<>>
  PROVE  MapInv'
BY DEF MapInv

-----------------------------------------------------------------------------
(* alloc_phys_pages.                                                       *)

\* It returns pages that were free, and the list holds what is left.
LEMMA AllocReturns ==
  ASSUME MemoryInv, call.fn = "alloc", NEW page \in Page, Run(page, call.count) \subseteq Free,
         Returns(page), block' \in [Page -> Headers],
         NEW ring \in SUBSET Page, IsRing(block', ring),
         Holds(block', ring, Free \ Run(page, call.count)),
         IF ring = {} THEN head' = Nothing ELSE head' \in ring
  PROVE  MemoryInv'
<1>1. TypeOK /\ LentInv /\ CallInv /\ MapInv
  BY DEF MemoryInv
<1>2. page # Nothing
  BY <1>1, Typed
<1>3. memory_map = <<>> /\ call.count \in 1..MaxCount
  BY <1>1 DEF CallInv
<1>4. call.count \in 1..NPages
  BY <1>3, PagesAssumption
<1>5. /\ call' = NoCall /\ result' = page /\ free_page_count' = free_page_count - call.count
      /\ lent' = lent \cup {<<page, call.count>>} /\ memory_map' = memory_map /\ usable' = usable
  BY <1>2 DEF Returns, CountAfter
<1>6. LentInv' /\ Free' = Free \ Run(page, call.count)
  BY <1>1, <1>5, PagesAreLent
<1>7. Free \in SUBSET Page /\ free_page_count = Cardinality(Free)
  BY <1>1, Typed, Listed
<1>8. Cardinality(Free') = Cardinality(Free) - call.count
  <2>1. page \in Int /\ call.count \in Nat
    BY <1>1, Typed DEF Page
  <2>. QED
    BY <1>6, <1>7, <2>1, FewerPages
<1>9. ListInv'
  BY <1>5, <1>6, <1>7, <1>8, ListAfter
<1>10. TypeOK'
  <2>1. free_page_count' \in 0..NPages
    <3>1. Free' \in SUBSET Page
      BY <1>6, <1>7
    <3>. QED
      BY <1>5, <1>7, <1>8, <3>1, PagesAreFinite
  <2>2. lent' \subseteq Page \X (1..MaxCount) /\ usable' \subseteq Page
    BY <1>1, <1>3, <1>5 DEF TypeOK
  <2>3. head' \in Page \cup {Nothing}
    OBVIOUS
  <2>. QED
    BY <1>5, <2>1, <2>2, <2>3, NoCallTyped DEF TypeOK, Headers
<1>11. CallInv' /\ MapInv'
  BY <1>3, <1>5, NothingRuns, MapIsRead
<1>. QED
  BY <1>6, <1>9, <1>10, <1>11 DEF MemoryInv

\* It returns without any.
LEMMA AllocFails ==
  ASSUME MemoryInv, call.fn = "alloc", Returns(Nothing), UNCHANGED <<head, block>>
  PROVE  MemoryInv'
<1>1. TypeOK /\ ListInv /\ LentInv /\ CallInv /\ memory_map = <<>>
  BY DEF MemoryInv, CallInv
<1>2. /\ call' = NoCall /\ result' = Nothing /\ free_page_count' = free_page_count
      /\ lent' = lent /\ memory_map' = memory_map /\ usable' = usable
  <2>1. free_page_count \in Nat
    BY <1>1 DEF TypeOK
  <2>. QED
    BY <2>1 DEF Returns, CountAfter
<1>3. Blocks' = Blocks /\ Free' = Free
  BY <1>2, SameList DEF Free
<1>4. TypeOK'
  BY <1>1, <1>2, NoCallTyped DEF TypeOK
<1>5. ListInv' /\ LentInv'
  BY <1>1, <1>2, <1>3 DEF ListInv, LentInv
<1>6. CallInv' /\ MapInv'
  BY <1>1, <1>2, NothingRuns, MapIsRead
<1>. QED
  BY <1>4, <1>5, <1>6 DEF MemoryInv

LEMMA AllocRefusedInv ==
  ASSUME MemoryInv, AllocRefused
  PROVE  MemoryInv'
BY AllocFails DEF AllocRefused

\* While it searches it looks at a block of the list.
LEMMA Looking ==
  ASSUME MemoryInv, Searching
  PROVE  /\ call.cur \in Blocks /\ head \in Blocks /\ call.cur \in Page /\ call.count > 0
         /\ call.cur \in Nat /\ block[call.cur].size \in Nat /\ call.count \in Nat
<1>1. TypeOK /\ CallInv /\ head # Nothing /\ call.fn = "alloc"
  BY DEF MemoryInv, Searching, TooFew
<1>2. call.cur \in Blocks /\ call.count \in 1..MaxCount
  BY <1>1 DEF CallInv
<1>3. block \in [Page -> Headers] /\ Blocks \in SUBSET Page /\ head \in Blocks
  BY <1>1, Typed, Listed
<1>4. call.cur \in Page
  BY <1>2, <1>3
<1>. QED
  BY <1>1, <1>2, <1>3, <1>4, Sizes, Typed, PagesAssumption

\* The block is unlinked, and its start is the new owner's.
LEMMA AllocWholeInv ==
  ASSUME MemoryInv, AllocWhole
  PROVE  MemoryInv'
<1>1. /\ call.cur \in Blocks /\ head \in Blocks /\ call.cur \in Page /\ call.cur \in Nat
      /\ call.fn = "alloc" /\ Returns(call.cur) /\ block[call.cur].size = call.count
  BY Looking DEF AllocWhole, Searching
<1>2. /\ block \in [Page -> Headers] /\ Blocks \in SUBSET Page /\ IsRing(block, Blocks)
      /\ Holds(block, Blocks, Free)
  BY Typed, Listed DEF MemoryInv
<1>3. PICK c, n, p : c = call.cur /\ n = block[c].next /\ p = block[c].prev
  OBVIOUS
<1>4. /\ c \in Blocks /\ c \in Page /\ n \in Blocks /\ p \in Blocks /\ n \in Page /\ p \in Page
      /\ block[n].prev = c /\ block[p].next = c
  BY <1>1, <1>2, <1>3 DEF IsRing
<1>5. PICK g : g = [block EXCEPT ![n].prev = p]
  OBVIOUS
<1>6. PICK h : h = [g EXCEPT ![p].next = n]
  OBVIOUS
<1>7. /\ g \in [Page -> Headers]
      /\ \A q \in Page : /\ g[q].prev = (IF q = n THEN p ELSE block[q].prev)
                         /\ g[q].next = block[q].next /\ g[q].size = block[q].size
  BY <1>2, <1>4, <1>5, WritesPrev
<1>8. /\ h \in [Page -> Headers]
      /\ \A q \in Page : /\ h[q].next = (IF q = p THEN n ELSE g[q].next)
                         /\ h[q].prev = g[q].prev /\ h[q].size = g[q].size
  <2>1. p \in Page /\ n \in Page /\ g \in [Page -> Headers]
    BY <1>4, <1>7
  <2>. QED
    BY <1>6, <2>1 DEF Headers
<1>9. block' = [h EXCEPT ![c] = Garbage]
  BY <1>3, <1>5, <1>6 DEF AllocWhole, Unlinked
<1>10. Garbage \in Headers
  BY PagesAssumption DEF Garbage, Headers, Page
<1>11. /\ block' \in [Page -> Headers] /\ \A q \in Page \ {c} : block'[q] = h[q]
  BY <1>8, <1>9, <1>10
<1>12. \A q \in Blocks \ {c} :
         /\ block'[q].next = (IF block[q].next = c THEN n ELSE block[q].next)
         /\ block'[q].prev = (IF block[q].prev = c THEN p ELSE block[q].prev)
         /\ block'[q].size = block[q].size
  <2>1. ASSUME NEW q \in Blocks \ {c}
        PROVE  /\ block'[q].next = (IF block[q].next = c THEN n ELSE block[q].next)
               /\ block'[q].prev = (IF block[q].prev = c THEN p ELSE block[q].prev)
               /\ block'[q].size = block[q].size
    <3>1. q \in Page \ {c}
      BY <1>2, <2>1
    <3>2. block[q].next = c <=> q = p
      BY <1>2, <1>3, <1>4, <2>1 DEF IsRing
    <3>3. block[q].prev = c <=> q = n
      BY <1>2, <1>3, <1>4, <2>1 DEF IsRing
    <3>. QED
      BY <1>7, <1>8, <1>11, <3>1, <3>2, <3>3
  <2>. QED
    BY <2>1
<1>13. IsRing(block', Blocks \ {c})
  BY <1>2, <1>3, <1>4, <1>12, RingWithout
<1>14. Holds(block', Blocks \ {c}, Free \ Run(c, block[c].size))
  BY <1>2, <1>4, <1>12, HoldsWithout
<1>15. Run(c, call.count) \subseteq Free
  <2>1. Run(c, block[c].size) \subseteq Free
    BY <1>2, <1>4, BlockPages
  <2>. QED
    BY <1>1, <1>3, <2>1
<1>16. IF Blocks \ {c} = {} THEN head' = Nothing ELSE head' \in Blocks \ {c}
  <2>1. head' = IF c # head THEN head ELSE IF n = c THEN Nothing ELSE n
    BY <1>3 DEF AllocWhole, HeadWithout
  <2>2. n = c <=> Blocks = {c}
    BY <1>2, <1>3, <1>4, OneBlock
  <2>3. CASE Blocks = {c}
    BY <1>1, <2>1, <2>2, <2>3
  <2>4. CASE Blocks # {c}
    <3>1. Blocks \ {c} # {}
      BY <1>4, <2>4
    <3>2. head' \in Blocks \ {c}
      BY <1>1, <1>4, <2>1, <2>2, <2>4
    <3>. QED
      BY <3>1, <3>2
  <2>. QED
    BY <2>3, <2>4
<1>17. Blocks \ {c} \in SUBSET Page
  BY <1>2
<1>18. PICK ring : ring = Blocks \ {c}
  OBVIOUS
<1>19. Holds(block', ring, Free \ Run(c, call.count)) /\ Returns(c)
  BY <1>1, <1>3, <1>14, <1>18
<1>20. IF ring = {} THEN head' = Nothing ELSE head' \in ring
  BY <1>16, <1>18
<1>. QED
  BY <1>1, <1>4, <1>11, <1>13, <1>15, <1>17, <1>18, <1>19, <1>20, AllocReturns

\* The block keeps its start and its links.
LEMMA AllocTailInv ==
  ASSUME MemoryInv, AllocTail
  PROVE  MemoryInv'
<1>1. /\ call.cur \in Blocks /\ head \in Blocks /\ call.cur \in Page /\ call.cur \in Nat
      /\ call.fn = "alloc" /\ call.count \in Nat /\ call.count > 0
      /\ block[call.cur].size \in Nat /\ block[call.cur].size > call.count
  BY Looking DEF AllocTail, Searching
<1>2. /\ block \in [Page -> Headers] /\ Blocks \in SUBSET Page /\ IsRing(block, Blocks)
      /\ Holds(block, Blocks, Free)
  BY Typed, Listed DEF MemoryInv
<1>3. PICK c, n, k : c = call.cur /\ n = call.count /\ k = block[c].size
  OBVIOUS
<1>4. /\ c \in Blocks /\ c \in Page /\ c \in Nat /\ n \in Nat /\ n > 0 /\ k \in Nat /\ n < k
      /\ k = block[c].size
  BY <1>1, <1>3
<1>5. block' = [block EXCEPT ![c].size = k - n] /\ Returns(c + k - n) /\ head' = head
  BY <1>3 DEF AllocTail, TailOf
<1>6. k - n \in 0..NPages
  <2>1. block[c].size \in 0..NPages
    BY <1>2, <1>4 DEF Headers
  <2>. QED
    BY <1>4, <2>1, PagesAssumption
<1>7. /\ block' \in [Page -> Headers]
      /\ \A p \in Page : /\ block'[p].size = (IF p = c THEN k - n ELSE block[p].size)
                         /\ block'[p].next = block[p].next /\ block'[p].prev = block[p].prev
  BY <1>2, <1>4, <1>5, <1>6, WritesSize
<1>8. IsRing(block', Blocks)
  BY <1>2, <1>7, SameRing
<1>9. /\ Holds(block', Blocks, Free \ Run(c + k - n, n))
      /\ Run(c + k - n, n) \subseteq Run(c, k)
  <2>1. block'[c].size = block[c].size - n /\ \A p \in Blocks \ {c} : block'[p].size = block[p].size
    BY <1>2, <1>4, <1>7
  <2>2. n < block[c].size /\ n \in Nat /\ c \in Blocks
    BY <1>4
  <2>3. /\ Holds(block', Blocks, Free \ Run(c + block[c].size - n, n))
        /\ Run(c + block[c].size - n, n) \subseteq Run(c, block[c].size)
    BY <1>2, <2>1, <2>2, HoldsShorter
  <2>. QED
    BY <1>4, <2>3
<1>10. Run(c, k) \subseteq Page /\ Run(c, k) \subseteq Free
  BY <1>2, <1>4, BlockPages
<1>11. Run(c + k - n, n) \subseteq Free
  BY <1>9, <1>10
<1>12. c + k - n \in Page
  <2>1. c + k - n \in Run(c + k - n, n)
    BY <1>4 DEF Run
  <2>. QED
    BY <1>9, <1>10, <2>1
<1>13. IF Blocks = {} THEN head' = Nothing ELSE head' \in Blocks
  BY <1>1, <1>5
<1>14. PICK page : page = c + k - n
  OBVIOUS
<1>15. /\ page \in Page /\ Run(page, call.count) \subseteq Free /\ Returns(page)
       /\ Holds(block', Blocks, Free \ Run(page, call.count))
  BY <1>3, <1>5, <1>9, <1>11, <1>12, <1>14
<1>. QED
  BY <1>1, <1>2, <1>7, <1>8, <1>13, <1>15, AllocReturns

\* It goes on to the next block, or finds none.
LEMMA AllocNextInv ==
  ASSUME MemoryInv, AllocNext
  PROVE  MemoryInv'
<1>1. call.cur \in Blocks /\ call.fn = "alloc" /\ head \in Blocks /\ call.cur \in Page
  BY Looking DEF AllocNext, Searching
<1>2. CASE block[call.cur].next = head
  BY <1>1, <1>2, AllocFails DEF AllocNext
<1>3. CASE block[call.cur].next # head
  <2>1. /\ call' = [call EXCEPT !.cur = block[@].next]
        /\ UNCHANGED <<head, block, free_page_count, memory_map, result, usable, lent>>
    BY <1>3 DEF AllocNext
  <2>2. TypeOK /\ ListInv /\ LentInv /\ CallInv /\ MapInv
    BY DEF MemoryInv
  <2>3. block[call.cur].next \in Blocks /\ block[call.cur].next \in Page
    BY <1>1, Listed DEF IsRing
  <2>4. /\ call'.fn = "alloc" /\ call'.base = call.base /\ call'.count = call.count
        /\ call'.cur = block[call.cur].next
    BY <1>1, <2>1, <2>2 DEF TypeOK
  <2>5. Blocks' = Blocks /\ Free' = Free
    BY <2>1, SameList DEF Free
  <2>6. TypeOK'
    BY <2>1, <2>2, <2>3 DEF TypeOK
  <2>7. ListInv' /\ LentInv'
    BY <2>1, <2>2, <2>5 DEF ListInv, LentInv
  <2>8. memory_map' = <<>> /\ call'.count \in 1..MaxCount
    BY <1>1, <2>1, <2>2, <2>4 DEF CallInv
  <2>9. CallInv'
    <3>1. head' # Nothing
      BY <1>1, <2>1, Listed
    <3>2. call'.cur \in Blocks'
      BY <2>3, <2>4, <2>5
    <3>. QED
      BY <2>4, <2>8, <3>1, <3>2 DEF CallInv
  <2>. QED
    BY <2>6, <2>7, <2>8, <2>9, MapIsRead DEF MemoryInv
<1>. QED
  BY <1>2, <1>3

\* The search begins.
LEMMA AllocStarts ==
  ASSUME MemoryInv, NEW count \in 1..MaxCount, alloc_phys_pages(count)
  PROVE  MemoryInv'
<1>1. TypeOK /\ ListInv /\ LentInv
  BY DEF MemoryInv
<1>2. /\ memory_map' = <<>> /\ count \in 0..NPages /\ 0 \in Page
      /\ call' = [fn |-> "alloc", base |-> 0, count |-> count, cur |-> head]
      /\ UNCHANGED <<head, block, free_page_count, result, usable, lent, memory_map>>
  BY PagesAssumption DEF alloc_phys_pages, Page
<1>3. Blocks' = Blocks /\ Free' = Free
  BY <1>2, SameList DEF Free
<1>4. TypeOK'
  BY <1>1, <1>2 DEF TypeOK
<1>5. ListInv' /\ LentInv'
  BY <1>1, <1>2, <1>3 DEF ListInv, LentInv
<1>6. CallInv'
  BY <1>2, <1>3, Listed DEF CallInv
<1>. QED
  BY <1>2, <1>4, <1>5, <1>6, MapIsRead DEF MemoryInv

-----------------------------------------------------------------------------
(* free_phys_pages.                                                        *)

LEMMA Freeing ==
  ASSUME MemoryInv, call.fn = "free"
  PROVE  /\ call.cur \in Blocks /\ call.cur \in Page /\ call.cur \in Nat /\ head \in Blocks
         /\ call.base \in Page /\ call.base \in Nat /\ head \in Page /\ head \in Nat
         /\ call.count \in Nat /\ call.count > 0 /\ call.count \in 1..(NPages - 1)
         /\ call.base + call.count <= NPages
         /\ Run(call.base, call.count) \cap Free = {} /\ Run(call.base, call.count) \subseteq Page
         /\ block[call.cur].size \in Nat /\ block[call.cur].size > 0
         /\ call.cur # head => head < call.base
<1>1. TypeOK /\ CallInv
  BY DEF MemoryInv
<1>2. /\ call.cur \in Blocks /\ call.count \in 1..(NPages - 1) /\ call.base + call.count <= NPages
      /\ \/ <<call.base, call.count>> \in lent
         \/ lent = {} /\ Run(call.base, call.count) \cap usable = {}
      /\ call.cur # head => head < call.base
  BY <1>1 DEF CallInv
<1>3. /\ block \in [Page -> Headers] /\ Blocks \in SUBSET Page /\ Holds(block, Blocks, Free)
      /\ call.base \in Page /\ call.base \in Nat /\ call.count \in Nat
  BY <1>1, Typed, Listed
<1>4. call.cur \in Page /\ call.cur \in Nat /\ block[call.cur].size \in Nat
  BY <1>2, <1>3, Sizes
<1>5. block[call.cur].size > 0
  BY <1>2, <1>3 DEF Holds
<1>6. head \in Blocks /\ head \in Page /\ head \in Nat
  <2>1. head \in Blocks /\ head \in Page
    BY <1>2, <1>3, Listed
  <2>. QED
    BY <2>1 DEF Page
<1>7. Run(call.base, call.count) \cap Free = {}
  <2>1. CASE <<call.base, call.count>> \in lent
    <3>0. PICK p, n : p = call.base /\ n = call.count
      OBVIOUS
    <3>1. <<p, n>>[1] = p /\ <<p, n>>[2] = n
      OBVIOUS
    <3>2. PICK t : t \in lent /\ t[1] = p /\ t[2] = n
      BY <2>1, <3>0, <3>1
    <3>3. \A q \in Free : q \notin Run(t[1], t[2])
      BY <3>2, FreeMeans
    <3>. QED
      BY <3>0, <3>2, <3>3
  <2>2. CASE lent = {} /\ Run(call.base, call.count) \cap usable = {}
    BY <2>2, FreeMeans
  <2>. QED
    BY <1>2, <2>1, <2>2
<1>8. Run(call.base, call.count) \subseteq Page
  BY <1>2, <1>3, PagesAssumption DEF Run, Page
<1>9. call.count > 0
  BY <1>2, <1>3, PagesAssumption
<1>. QED
  BY <1>2, <1>3, <1>4, <1>5, <1>6, <1>7, <1>8, <1>9

\* Pages given back while the map is read are those of its last entry.
LEMMA MapGoesOn ==
  ASSUME MemoryInv, call.fn = "free", call' = NoCall, memory_map' = memory_map,
         lent' = lent \ {<<call.base, call.count>>},
         usable' = usable \cup Run(call.base, call.count),
         \A b \in Blocks' : \/ b \in Blocks
                            \/ /\ b = call.base
                               /\ memory_map # <<>> => ~\E c \in Blocks : Ahead(c)
  PROVE  MapInv'
<1>1. MapInv /\ CallInv
  BY DEF MemoryInv
<1>2. memory_map' \in Seq([type : Nat, base : Nat, count : Nat])
  BY <1>1 DEF MapInv
<1>3. CASE memory_map = <<>>
  BY <1>3, MapIsRead
<1>4. CASE memory_map # <<>>
  <2>1. lent = {} /\ lent' = {}
    BY <1>1, <1>4 DEF MapInv
  <2>2. PICK map \in MemoryMaps : MapSeen(map)
    BY <1>1, <1>4 DEF MapInv
  <2>3. PICK seen : seen = Len(map) - Len(memory_map) /\ seen = Len(map) - Len(memory_map')
    OBVIOUS
  <2>4. /\ seen >= 0 /\ \A i \in 1..Len(memory_map) : memory_map[i] = map[seen + i]
        /\ \A p \in usable : \E i \in Accepted(map) : i <= seen /\ p \in Run(map[i].base, map[i].count)
        /\ \A i \in Accepted(map) :
             i < seen \/ (i = seen /\ Idle) => Run(map[i].base, map[i].count) \subseteq usable
        /\ \A b \in Blocks : \E i \in Regions(map) : i <= seen /\ b = map[i].base
        /\ seen \in Accepted(map) /\ call.base = map[seen].base /\ call.count = map[seen].count
        /\ seen \in Regions(map) \/ \E b \in Blocks : Ahead(b)
    BY <2>2, <2>3 DEF MapSeen
  <2>5. seen \in Int /\ seen <= seen
    <3>1. map \in Seq([type : Nat, base : Nat, count : Nat])
      BY PagesAssumption
    <3>2. memory_map \in Seq([type : Nat, base : Nat, count : Nat])
      BY <1>1 DEF MapInv
    <3>3. Len(map) \in Nat /\ Len(memory_map) \in Nat
      BY <3>1, <3>2
    <3>. QED
      BY <2>3, <3>3
  <2>6. \A p \in usable' : \E i \in Accepted(map) : i <= seen /\ p \in Run(map[i].base, map[i].count)
    BY <2>4, <2>5
  <2>7. \A i \in Accepted(map) : i < seen \/ i = seen => Run(map[i].base, map[i].count) \subseteq usable'
    BY <2>4
  <2>8. \A b \in Blocks' : \E i \in Regions(map) : i <= seen /\ b = map[i].base
    BY <1>4, <2>4, <2>5
  <2>9. call'.fn # "free"
    BY NothingRuns
  <2>10. MapSeen(map)'
    BY <2>3, <2>4, <2>6, <2>7, <2>8, <2>9 DEF MapSeen, Accepted, Regions
  <2>. QED
    BY <1>2, <2>1, <2>10 DEF MapInv
<1>. QED
  BY <1>3, <1>4

\* The pages are free, and the list holds them.
LEMMA FreeIsDone ==
  ASSUME MemoryInv, call.fn = "free", FreeDone, block' \in [Page -> Headers],
         NEW ring \in SUBSET Page, IsRing(block', ring), head' \in ring,
         Holds(block', ring, Free \cup Run(call.base, call.count)),
         \A b \in ring : \/ b \in Blocks
                         \/ /\ b = call.base
                            /\ memory_map # <<>> => ~\E c \in Blocks : Ahead(c)
  PROVE  MemoryInv'
<1>1. TypeOK /\ LentInv /\ CallInv /\ MapInv /\ ListInv
  BY DEF MemoryInv
<1>2. /\ call' = NoCall /\ result' = result /\ free_page_count' = free_page_count + call.count
      /\ lent' = lent \ {<<call.base, call.count>>} /\ memory_map' = memory_map
      /\ usable' = usable \cup Run(call.base, call.count)
  BY DEF FreeDone, Freed
<1>3. /\ call.base \in Nat /\ call.count \in Nat /\ Run(call.base, call.count) \cap Free = {}
      /\ Run(call.base, call.count) \subseteq Page
  BY Freeing
<1>4. LentInv' /\ Free' = Free \cup Run(call.base, call.count)
  <2>1. <<call.base, call.count>> \in lent \/ lent = {}
    BY <1>1 DEF CallInv
  <2>. QED
    BY <1>1, <1>2, <2>1, PagesComeBack
<1>5. Free \in SUBSET Page /\ free_page_count = Cardinality(Free)
  BY <1>1, Typed, Listed
<1>6. Cardinality(Free') = Cardinality(Free) + call.count
  <2>1. call.base \in Int
    BY <1>3
  <2>. QED
    BY <1>3, <1>4, <1>5, <2>1, MorePages
<1>7. ListInv' /\ Blocks' = ring
  <2>1. Holds(block', ring, Free')
    BY <1>4
  <2>2. IF ring = {} THEN head' = Nothing ELSE head' \in ring
    OBVIOUS
  <2>3. free_page_count' = Cardinality(Free')
    BY <1>2, <1>5, <1>6
  <2>. QED
    BY <2>1, <2>2, <2>3, ListAfter
<1>8. TypeOK'
  <2>1. free_page_count' \in 0..NPages
    <3>1. Free' \in SUBSET Page
      BY <1>3, <1>4, <1>5
    <3>. QED
      BY <1>2, <1>5, <1>6, <3>1, PagesAreFinite
  <2>2. lent' \subseteq Page \X (1..MaxCount) /\ usable' \subseteq Page
    BY <1>1, <1>2, <1>3 DEF TypeOK
  <2>3. head' \in Page \cup {Nothing} /\ result' \in Page \cup {Nothing}
    BY <1>1, <1>2 DEF TypeOK
  <2>. QED
    BY <1>2, <2>1, <2>2, <2>3, NoCallTyped DEF TypeOK, Headers
<1>9. MapInv'
  <2>1. \A b \in Blocks' : \/ b \in Blocks
                           \/ /\ b = call.base
                              /\ memory_map # <<>> => ~\E c \in Blocks : Ahead(c)
    BY <1>7
  <2>. QED
    BY <1>2, <2>1, MapGoesOn
<1>10. CallInv'
  BY <1>2, NothingRuns
<1>. QED
  BY <1>4, <1>7, <1>8, <1>9, <1>10 DEF MemoryInv

\* No block begins where the pages do.
LEMMA BaseIsFree ==
  ASSUME MemoryInv, call.fn = "free"
  PROVE  call.base \notin Blocks
<1>1. call.base \in Run(call.base, call.count) /\ Run(call.base, call.count) \cap Free = {}
  BY Freeing DEF Run
<1>2. Blocks \subseteq Free
  BY Typed, Listed, BlockPages DEF MemoryInv
<1>. QED
  BY <1>1, <1>2

\* The entries of a map.
LEMMA Entry ==
  ASSUME NEW S, NEW m \in Seq(S), NEW i \in DOMAIN m
  PROVE  i \in Nat /\ m[i] \in S
BY LenProperties

\* The map goes upwards.
LEMMA Ascending ==
  ASSUME MemoryInv, call.fn = "free", memory_map # <<>>, NEW b \in Blocks
  PROVE  b < call.base
<1>1. PICK map \in MemoryMaps : MapSeen(map)
  BY DEF MemoryInv, MapInv
<1>2. PICK seen : seen = Len(map) - Len(memory_map)
  OBVIOUS
<1>3. PICK i \in Regions(map) : i <= seen /\ b = map[i].base
  BY <1>1, <1>2 DEF MapSeen
<1>4. seen \in Accepted(map) /\ call.base = map[seen].base
  BY <1>1, <1>2 DEF MapSeen
<1>5. map \in Seq([type : Nat, base : Nat, count : Nat])
  BY PagesAssumption
<1>6. i \in Accepted(map) /\ i \in DOMAIN map /\ seen \in DOMAIN map
  BY <1>4 DEF Regions, Accepted
<1>7. i \in Nat /\ seen \in Nat /\ map[i].base \in Nat /\ map[i].count \in Nat /\ map[seen].base \in Nat
  <2>1. \A j \in DOMAIN map : j \in Nat /\ map[j] \in [type : Nat, base : Nat, count : Nat]
    BY <1>5, Entry
  <2>. QED
    BY <1>6, <2>1
<1>8. CASE i < seen
  <2>1. map[i].count > 0 /\ map[i].base + map[i].count <= map[seen].base
    BY <1>4, <1>6, <1>8, MapsAssumption
  <2>. QED
    BY <1>3, <1>4, <1>7, <2>1
<1>9. CASE i = seen
  BY <1>3, <1>4, <1>9, BaseIsFree
<1>. QED
  BY <1>3, <1>7, <1>8, <1>9

\* The pages follow a block; they may close the gap to the next one.
LEMMA FreeAppendInv ==
  ASSUME MemoryInv, FreeAppend
  PROVE  MemoryInv'
<1>1. call.fn = "free" /\ FreeDone /\ call.cur + block[call.cur].size = call.base
  BY DEF FreeAppend, Follows
<1>2. PICK c, n, k, d : c = call.cur /\ n = call.count /\ k = block[c].size /\ d = block[c].next
  OBVIOUS
<1>3. /\ block \in [Page -> Headers] /\ Blocks \in SUBSET Page /\ IsRing(block, Blocks)
      /\ Holds(block, Blocks, Free)
  BY Typed, Listed DEF MemoryInv
<1>4. /\ c \in Blocks /\ c \in Page /\ c \in Nat /\ n \in Nat /\ n > 0 /\ k \in Nat /\ k > 0
      /\ call.base = c + k /\ k = block[c].size /\ c + k + n <= NPages
      /\ Run(c + k, n) = Run(call.base, call.count) /\ Run(c + k, n) \cap Free = {}
      /\ head \in Blocks /\ head \in Nat /\ (c # head => head < c + k)
  BY <1>1, <1>2, Freeing
<1>5. d \in Blocks /\ d \in Page /\ d \in Nat /\ block[d].prev = c /\ d = block[c].next
  <2>1. d \in Blocks /\ block[d].prev = c
    BY <1>2, <1>3, <1>4 DEF IsRing
  <2>. QED
    BY <1>2, <1>3, <2>1 DEF Page
<1>6. head' = head
  <2>1. ~(call.base < head)
    BY <1>4
  <2>. QED
    BY <1>1, <2>1 DEF FreeDone, LowerHead
<1>7. PICK g : g = [block EXCEPT ![c].size = k + n]
  OBVIOUS
<1>8. k + n \in 0..NPages
  <2>1. c \in Nat /\ k \in Nat /\ n \in Nat /\ c + k + n <= NPages
    BY <1>4
  <2>. QED
    BY <2>1, PagesAssumption
<1>9. /\ g \in [Page -> Headers]
      /\ \A p \in Page : /\ g[p].size = (IF p = c THEN k + n ELSE block[p].size)
                         /\ g[p].next = block[p].next /\ g[p].prev = block[p].prev
  BY <1>3, <1>4, <1>7, <1>8, WritesSize
<1>10. IsRing(g, Blocks)
  BY <1>3, <1>9, SameRing
<1>11. Holds(g, Blocks, Free \cup Run(call.base, call.count))
  <2>1. g[c].size = block[c].size + n /\ \A p \in Blocks \ {c} : g[p].size = block[p].size
    BY <1>3, <1>4, <1>9
  <2>2. /\ c \in Blocks /\ n \in Nat /\ n > 0 /\ c + block[c].size + n <= NPages
        /\ Run(c + block[c].size, n) \cap Free = {}
    BY <1>4
  <2>3. Holds(g, Blocks, Free \cup Run(c + block[c].size, n))
    BY <1>3, <2>1, <2>2, HoldsLonger
  <2>. QED
    BY <1>4, <2>3
<1>12. g[c].size = k + n /\ block[c].next = d
  BY <1>4, <1>5, <1>9
<1>13. CASE d # c + (k + n)
  <2>1. block' = g
    BY <1>2, <1>7, <1>12, <1>13 DEF FreeAppend, Appended
  <2>2. head' \in Blocks
    BY <1>4, <1>6
  <2>3. /\ block' \in [Page -> Headers] /\ IsRing(block', Blocks)
        /\ Holds(block', Blocks, Free \cup Run(call.base, call.count))
    BY <1>9, <1>10, <1>11, <2>1
  <2>. QED
    BY <1>1, <1>3, <2>2, <2>3, FreeIsDone
<1>14. CASE d = c + (k + n)
  <2>1. d # c /\ d # head
    BY <1>4, <1>5, <1>14
  <2>2. PICK e, m : e = block[d].next /\ m = block[d].size
    OBVIOUS
  <2>3. e \in Blocks /\ e \in Page /\ block[e].prev = d /\ g[d].next = e /\ g[d].size = m
    <3>1. e \in Blocks /\ block[e].prev = d
      BY <1>3, <1>5, <2>2 DEF IsRing
    <3>. QED
      BY <1>3, <1>5, <1>9, <2>1, <2>2, <3>1
  <2>4. m \in Nat /\ d + m <= NPages
    <3>1. m \in Nat
      BY <1>3, <1>5, <2>2, Sizes
    <3>. QED
      BY <1>3, <1>5, <2>2, <3>1 DEF Holds
  <2>5. PICK h : h = [g EXCEPT ![e].prev = c]
    OBVIOUS
  <2>6. /\ h \in [Page -> Headers]
        /\ \A p \in Page : /\ h[p].prev = (IF p = e THEN c ELSE g[p].prev)
                           /\ h[p].next = g[p].next /\ h[p].size = g[p].size
    BY <1>4, <1>9, <2>3, <2>5, WritesPrev
  <2>7. PICK u, w : u = [h EXCEPT ![c].next = e] /\ w = k + n + m
    OBVIOUS
  <2>8. /\ u \in [Page -> Headers]
        /\ \A p \in Page : /\ u[p].next = (IF p = c THEN e ELSE h[p].next)
                           /\ u[p].prev = h[p].prev /\ u[p].size = h[p].size
    <3>1. h \in [Page -> Headers] /\ c \in Page /\ e \in Page /\ u = [h EXCEPT ![c].next = e]
      BY <1>4, <2>3, <2>6, <2>7
    <3>. QED
      BY <3>1 DEF Headers
  <2>9. /\ block' \in [Page -> Headers]
        /\ \A p \in Page : /\ block'[p].next = (IF p = c THEN e ELSE h[p].next)
                           /\ block'[p].size = (IF p = c THEN w ELSE h[p].size)
                           /\ block'[p].prev = h[p].prev
    <3>1. block' = [h EXCEPT ![c].next = e, ![c].size = @ + m]
      BY <1>2, <1>7, <1>12, <1>14, <2>3, <2>5 DEF FreeAppend, Appended
    <3>2. u[c].size + m = w
      BY <1>4, <1>12, <2>6, <2>7, <2>8
    <3>3. block' = [u EXCEPT ![c].size = w]
      BY <2>7, <3>1, <3>2
    <3>4. w \in 0..NPages
      <4>1. c \in Nat /\ k \in Nat /\ n \in Nat /\ m \in Nat /\ c + (k + n) + m <= NPages
        BY <1>4, <1>14, <2>4
      <4>2. k + n + m \in Nat /\ k + n + m <= NPages /\ NPages \in Nat
        BY <4>1, PagesAssumption
      <4>. QED
        BY <2>7, <4>2
    <3>5. u \in [Page -> Headers] /\ c \in Page
      BY <1>4, <2>8
    <3>6. /\ block' \in [Page -> Headers]
          /\ \A p \in Page : /\ block'[p].size = (IF p = c THEN w ELSE u[p].size)
                             /\ block'[p].next = u[p].next /\ block'[p].prev = u[p].prev
      BY <3>3, <3>4, <3>5 DEF Headers
    <3>. QED
      BY <2>8, <3>6
  <2>10. \A p \in Blocks \ {d} :
           /\ block'[p].next = (IF g[p].next = d THEN g[d].next ELSE g[p].next)
           /\ block'[p].prev = (IF g[p].prev = d THEN g[d].prev ELSE g[p].prev)
    <3>1. ASSUME NEW p \in Blocks \ {d}
          PROVE  /\ block'[p].next = (IF g[p].next = d THEN e ELSE g[p].next)
                 /\ block'[p].prev = (IF g[p].prev = d THEN c ELSE g[p].prev)
      <4>1. p \in Page
        BY <1>3, <3>1
      <4>2. g[p].next = d <=> p = c
        BY <1>3, <1>5, <1>9, <3>1, <4>1 DEF IsRing
      <4>3. g[p].prev = d <=> p = e
        BY <1>3, <1>9, <2>2, <2>3, <3>1, <4>1 DEF IsRing
      <4>. QED
        BY <2>6, <2>9, <4>1, <4>2, <4>3
    <3>2. g[d].next = e /\ g[d].prev = c
      BY <1>5, <1>9, <2>3
    <3>. QED
      BY <3>1, <3>2
  <2>11. IsRing(block', Blocks \ {d})
    BY <1>5, <1>10, <2>10, RingWithout
  <2>12. Holds(block', Blocks \ {d}, Free \cup Run(call.base, call.count))
    <3>1. block'[c].size = g[c].size + g[d].size
      BY <1>4, <1>12, <2>3, <2>7, <2>9
    <3>2. \A p \in Blocks \ {c, d} : block'[p].size = g[p].size
      BY <1>3, <2>6, <2>9
    <3>3. c # d /\ d = c + g[c].size
      BY <1>12, <1>14, <2>1
    <3>. QED
      BY <1>3, <1>4, <1>5, <1>9, <1>11, <3>1, <3>2, <3>3, HoldsJoined
  <2>13. PICK ring : ring = Blocks \ {d}
    OBVIOUS
  <2>14. ring \in SUBSET Page /\ head' \in ring /\ \A b \in ring : b \in Blocks
    BY <1>3, <1>4, <1>6, <2>1, <2>13
  <2>15. IsRing(block', ring) /\ Holds(block', ring, Free \cup Run(call.base, call.count))
    BY <2>11, <2>12, <2>13
  <2>. QED
    BY <1>1, <2>9, <2>14, <2>15, FreeIsDone
<1>. QED
  BY <1>13, <1>14

\* The pages precede a block, which is not the only one.
LEMMA FreePrependInv ==
  ASSUME MemoryInv, FreePrepend
  PROVE  MemoryInv'
<1>1. /\ call.fn = "free" /\ FreeDone /\ call.cur + block[call.cur].size # call.base
      /\ call.base + call.count = call.cur
  BY DEF FreePrepend, Precedes, Follows
<1>2. PICK c, n, k, d, x, y : /\ c = call.cur /\ n = call.count /\ k = block[c].size /\ d = call.base
                              /\ x = block[c].next /\ y = block[c].prev
  OBVIOUS
<1>3. /\ block \in [Page -> Headers] /\ Blocks \in SUBSET Page /\ IsRing(block, Blocks)
      /\ Holds(block, Blocks, Free)
  BY Typed, Listed DEF MemoryInv
<1>4. /\ c \in Blocks /\ c \in Page /\ c \in Nat /\ n \in Nat /\ n > 0 /\ k \in Nat /\ k > 0
      /\ d \in Page /\ d \in Nat /\ d + n = c /\ Run(d, n) \cap Free = {} /\ c + k # d
      /\ head \in Blocks /\ head \in Nat /\ (c # head => head < d)
  BY <1>1, <1>2, Freeing
<1>5. memory_map = <<>>
  <2>1. ~(c < d)
    BY <1>4
  <2>. QED
    BY <1>1, <1>2, <1>4, <2>1, Ascending
<1>6. Blocks # {c}
  <2>1. Harmless
    BY <1>1 DEF MemoryInv, CallInv
  <2>2. ~\E b \in Blocks : Ahead(b) /\ (b = call.cur \/ \A e \in Blocks : e < call.base)
    <3>1. ~(c < d)
      BY <1>4
    <3>2. ~Ahead(c)
      BY <1>2, <1>4 DEF Ahead
    <3>. QED
      BY <1>2, <1>4, <3>1, <3>2
  <2>. QED
    BY <1>1, <1>2, <2>1, <2>2 DEF Harmless
<1>7. /\ x \in Blocks \ {c} /\ y \in Blocks \ {c} /\ x \in Page /\ y \in Page
      /\ block[x].prev = c /\ block[y].next = c
  <2>1. x \in Blocks /\ y \in Blocks /\ block[x].prev = c /\ block[y].next = c
    BY <1>2, <1>3, <1>4 DEF IsRing
  <2>2. x # c
    BY <1>2, <1>3, <1>4, <1>6, OneBlock
  <2>3. y # c
    BY <1>2, <2>1, <2>2
  <2>. QED
    BY <1>3, <2>1, <2>2, <2>3
<1>8. PICK g : g = [block EXCEPT ![x].prev = d]
  OBVIOUS
<1>9. /\ g \in [Page -> Headers]
      /\ \A p \in Page : /\ g[p].prev = (IF p = x THEN d ELSE block[p].prev)
                         /\ g[p].next = block[p].next /\ g[p].size = block[p].size
  BY <1>3, <1>4, <1>7, <1>8, WritesPrev
<1>10. PICK h : h = [g EXCEPT ![y].next = d]
  OBVIOUS
<1>11. /\ h \in [Page -> Headers]
       /\ \A p \in Page : /\ h[p].next = (IF p = y THEN d ELSE g[p].next)
                          /\ h[p].prev = g[p].prev /\ h[p].size = g[p].size
  <2>1. g \in [Page -> Headers] /\ y \in Page /\ d \in Page
    BY <1>4, <1>7, <1>9
  <2>. QED
    BY <1>10, <2>1 DEF Headers
<1>12. PICK l : l = n + k
  OBVIOUS
<1>13. block' = Linked(h, d, x, y, l)
  BY <1>2, <1>8, <1>10, <1>12 DEF FreePrepend, Prepended
<1>14. l \in 0..NPages
  <2>1. c + k <= NPages
    BY <1>2, <1>3, <1>4 DEF Holds
  <2>. QED
    BY <1>4, <1>12, <2>1, PagesAssumption
<1>15. /\ block' \in [Page -> Headers] /\ \A p \in Page \ {d} : block'[p] = h[p]
       /\ block'[d].next = x /\ block'[d].prev = y /\ block'[d].size = l
  BY <1>4, <1>7, <1>11, <1>13, <1>14, WritesHeader
<1>16. d \notin Blocks
  BY <1>1, <1>2, BaseIsFree
<1>17. \A p \in Blocks \ {c} :
         /\ block'[p].next = (IF block[p].next = c THEN d ELSE block[p].next)
         /\ block'[p].prev = (IF block[p].prev = c THEN d ELSE block[p].prev)
         /\ block'[p].size = block[p].size
  <2>1. ASSUME NEW p \in Blocks \ {c}
        PROVE  /\ block'[p].next = (IF block[p].next = c THEN d ELSE block[p].next)
               /\ block'[p].prev = (IF block[p].prev = c THEN d ELSE block[p].prev)
               /\ block'[p].size = block[p].size
    <3>1. p \in Page \ {d}
      BY <1>3, <1>16, <2>1
    <3>2. block[p].next = c <=> p = y
      BY <1>2, <1>3, <1>7, <2>1 DEF IsRing
    <3>3. block[p].prev = c <=> p = x
      BY <1>2, <1>3, <1>7, <2>1 DEF IsRing
    <3>. QED
      BY <1>9, <1>11, <1>15, <3>1, <3>2, <3>3
  <2>. QED
    BY <2>1
<1>18. PICK ring : ring = (Blocks \ {c}) \cup {d}
  OBVIOUS
<1>19. IsRing(block', ring)
  <2>1. block'[d].next = block[c].next /\ block'[d].prev = block[c].prev
    BY <1>2, <1>15
  <2>2. IsRing(block', (Blocks \ {c}) \cup {d})
    <3>1. IsRing(block, Blocks) /\ c \in Blocks
      BY <1>3, <1>4
    <3>2. \A p \in Blocks \ {c} :
            /\ block'[p].next = (IF block[p].next = c THEN d ELSE block[p].next)
            /\ block'[p].prev = (IF block[p].prev = c THEN d ELSE block[p].prev)
      BY <1>17
    <3>. QED
      BY <1>6, <1>16, <2>1, <3>1, <3>2, RingWith
  <2>. QED
    BY <1>18, <2>2
<1>20. Holds(block', ring, Free \cup Run(call.base, call.count))
  <2>1. block'[d].size = n + block[c].size
    BY <1>2, <1>12, <1>15
  <2>2. Holds(block', (Blocks \ {c}) \cup {d}, Free \cup Run(d, n))
    <3>1. c \in Blocks /\ d \in Page /\ n \in Nat /\ n > 0 /\ d + n = c /\ Run(d, n) \cap Free = {}
      BY <1>4
    <3>2. \A p \in Blocks \ {c} : block'[p].size = block[p].size
      BY <1>17
    <3>. QED
      BY <1>3, <2>1, <3>1, <3>2, HoldsEarlier
  <2>. QED
    BY <1>2, <1>18, <2>2
<1>21. ring \in SUBSET Page /\ head' \in ring
  <2>1. c = head => d < head
    BY <1>4
  <2>2. c # head => ~(d < head)
    BY <1>4
  <2>3. head' = IF d < head THEN d ELSE head
    BY <1>1, <1>2 DEF FreeDone, LowerHead
  <2>. QED
    BY <1>3, <1>4, <1>18, <2>1, <2>2, <2>3
<1>22. \A b \in ring : \/ b \in Blocks
                       \/ /\ b = call.base
                          /\ memory_map # <<>> => ~\E e \in Blocks : Ahead(e)
  BY <1>2, <1>5, <1>18
<1>. QED
  BY <1>1, <1>15, <1>19, <1>20, <1>21, <1>22, FreeIsDone

\* Where it inserts a block, it will come to none that the pages follow.
LEMMA NoneAhead ==
  ASSUME MemoryInv, Between, NEW b \in Blocks, \A c \in Blocks : c < call.base
  PROVE  ~Ahead(b)
<1>1. call.fn = "free" /\ call.cur + block[call.cur].size # call.base
  BY DEF Between, Follows
<1>2. call.cur \in Blocks /\ call.cur \in Nat /\ call.base \in Nat
  BY <1>1, Freeing
<1>3. ~(call.cur > call.base)
  BY <1>2
<1>4. block[call.cur].next = head
  BY <1>3 DEF Between
<1>5. SUFFICES ASSUME Ahead(b) PROVE FALSE
  OBVIOUS
<1>6. PICK s : s = {call.cur}
  OBVIOUS
<1>7. s \in SUBSET Blocks /\ call.cur \in s /\ \A c \in s : block[c].next \in s \cup {head}
  BY <1>2, <1>4, <1>6
<1>8. b \in s
  BY <1>5, <1>7 DEF Ahead
<1>. QED
  BY <1>1, <1>5, <1>6, <1>8 DEF Ahead

\* The pages become a block between the last and the first, or before the one it looks at.
LEMMA FreeInsertInv ==
  ASSUME MemoryInv, FreeInsert
  PROVE  MemoryInv'
<1>1. /\ call.fn = "free" /\ FreeDone /\ Between /\ call.cur + block[call.cur].size # call.base
  BY DEF FreeInsert, Between, Follows
<1>2. PICK c, n, d, x : c = call.cur /\ n = call.count /\ d = call.base /\ x = block[c].next
  OBVIOUS
<1>3. /\ block \in [Page -> Headers] /\ Blocks \in SUBSET Page /\ IsRing(block, Blocks)
      /\ Holds(block, Blocks, Free)
  BY Typed, Listed DEF MemoryInv
<1>4. /\ c \in Blocks /\ c \in Page /\ n \in Nat /\ n > 0 /\ n \in 0..NPages
      /\ d \in Page /\ d + n <= NPages /\ Run(d, n) \cap Free = {} /\ head \in Blocks
  <2>1. n \in 0..NPages
    BY <1>1, <1>2, Freeing, PagesAssumption
  <2>. QED
    BY <1>1, <1>2, <2>1, Freeing
<1>5. \E a, b \in Blocks : Blocks = {a, b}
  <2>1. Harmless
    BY <1>1 DEF MemoryInv, CallInv
  <2>2. ~Ahead(call.cur)
    BY <1>1 DEF Ahead
  <2>3. ~\E b \in Blocks : Ahead(b) /\ \A e \in Blocks : e < call.base
    BY <1>1, NoneAhead
  <2>. QED
    BY <2>1, <2>2, <2>3 DEF Harmless
<1>6. memory_map # <<>> => ~\E b \in Blocks : Ahead(b)
  BY <1>1, Ascending, NoneAhead
<1>7. d \notin Blocks
  BY <1>1, <1>2, BaseIsFree
<1>8. x \in Blocks /\ x \in Page
  BY <1>2, <1>3, <1>4 DEF IsRing
<1>9. PICK g : g = [block EXCEPT ![c].prev = d]
  OBVIOUS
<1>10. /\ g \in [Page -> Headers]
       /\ \A p \in Page : /\ g[p].prev = (IF p = c THEN d ELSE block[p].prev)
                          /\ g[p].next = block[p].next /\ g[p].size = block[p].size
  BY <1>3, <1>4, <1>9, WritesPrev
<1>11. PICK h : h = [g EXCEPT ![x].next = d]
  OBVIOUS
<1>12. /\ h \in [Page -> Headers]
       /\ \A p \in Page : /\ h[p].next = (IF p = x THEN d ELSE g[p].next)
                          /\ h[p].prev = g[p].prev /\ h[p].size = g[p].size
  <2>1. g \in [Page -> Headers] /\ x \in Page /\ d \in Page
    BY <1>4, <1>8, <1>10
  <2>. QED
    BY <1>11, <2>1 DEF Headers
<1>13. block' = Linked(h, d, c, x, n)
  BY <1>2, <1>9, <1>11 DEF FreeInsert, Inserted
<1>14. /\ block' \in [Page -> Headers] /\ \A p \in Page \ {d} : block'[p] = h[p]
       /\ block'[d].next = c /\ block'[d].prev = x /\ block'[d].size = n
  BY <1>4, <1>8, <1>12, <1>13, WritesHeader
<1>15. \A p \in Blocks : /\ block'[p].next = (IF p = x THEN d ELSE block[p].next)
                         /\ block'[p].prev = (IF p = c THEN d ELSE block[p].prev)
                         /\ block'[p].size = block[p].size
  <2>1. \A p \in Blocks : p \in Page /\ p # d
    BY <1>3, <1>7
  <2>. QED
    BY <1>10, <1>12, <1>14, <2>1
<1>16. IsRing(block', Blocks \cup {d})
  <2>1. block'[d].next = c /\ block'[d].prev = block[c].next
    BY <1>2, <1>14
  <2>2. block'[c].prev = d /\ block'[block[c].next].next = d
    BY <1>2, <1>4, <1>8, <1>15
  <2>3. block[c].next # c => /\ block'[c].next = block[c].next
                             /\ block'[block[c].next].prev = block[block[c].next].prev
    BY <1>2, <1>4, <1>8, <1>15
  <2>. QED
    BY <1>3, <1>4, <1>5, <1>7, <2>1, <2>2, <2>3, RingInserted
<1>17. Holds(block', Blocks \cup {d}, Free \cup Run(d, n))
  BY <1>3, <1>4, <1>14, <1>15, HoldsMore
<1>18. PICK ring : ring = Blocks \cup {d}
  OBVIOUS
<1>19. ring \in SUBSET Page /\ head' \in ring
  <2>1. head' = IF d < head THEN d ELSE head
    BY <1>1, <1>2 DEF FreeDone, LowerHead
  <2>. QED
    BY <1>3, <1>4, <1>18, <2>1
<1>20. IsRing(block', ring) /\ Holds(block', ring, Free \cup Run(call.base, call.count))
  BY <1>2, <1>16, <1>17, <1>18
<1>21. \A b \in ring : \/ b \in Blocks
                       \/ /\ b = call.base
                          /\ memory_map # <<>> => ~\E e \in Blocks : Ahead(e)
  BY <1>2, <1>6, <1>18
<1>. QED
  BY <1>1, <1>14, <1>19, <1>20, <1>21, FreeIsDone

\* It goes on to the next block.
LEMMA FreeNextInv ==
  ASSUME MemoryInv, FreeNext
  PROVE  MemoryInv'
<1>1. /\ call.fn = "free" /\ call.cur + block[call.cur].size # call.base
      /\ ~(call.cur > call.base) /\ block[call.cur].next # head
      /\ call' = [call EXCEPT !.cur = block[@].next]
      /\ UNCHANGED <<head, block, free_page_count, memory_map, result, usable, lent>>
  BY DEF FreeNext, Between, Precedes, Follows
<1>2. TypeOK /\ ListInv /\ LentInv /\ CallInv /\ MapInv
  BY DEF MemoryInv
<1>3. /\ call.cur \in Blocks /\ call.cur \in Nat /\ call.base \in Nat /\ call.cur \in Page
      /\ (call.cur # head => head < call.base) /\ call.cur # call.base
  BY <1>1, Freeing, BaseIsFree
<1>4. block[call.cur].next \in Blocks /\ block[call.cur].next \in Page
  BY <1>3, Listed DEF IsRing
<1>5. /\ call'.fn = "free" /\ call'.base = call.base /\ call'.count = call.count
      /\ call'.cur = block[call.cur].next
  BY <1>1, <1>2 DEF TypeOK
<1>6. Blocks' = Blocks /\ Free' = Free
  BY <1>1, SameList DEF Free
<1>7. TypeOK'
  BY <1>1, <1>2, <1>4 DEF TypeOK
<1>8. ListInv' /\ LentInv'
  BY <1>1, <1>2, <1>6 DEF ListInv, LentInv
<1>9. ASSUME NEW b, Ahead(b)
      PROVE  Ahead(b)'
  <2>1. ASSUME NEW s \in SUBSET Blocks, block[call.cur].next \in s,
               \A c \in s : block[c].next \in s \cup {head}
        PROVE  b \in s
    <3>1. PICK t : t = s \cup {call.cur}
      OBVIOUS
    <3>2. t \in SUBSET Blocks /\ call.cur \in t /\ \A c \in t : block[c].next \in t \cup {head}
      BY <1>3, <2>1, <3>1
    <3>3. b \in t
      BY <1>9, <3>2 DEF Ahead
    <3>4. b # call.cur
      BY <1>1, <1>9 DEF Ahead
    <3>. QED
      BY <3>1, <3>3, <3>4
  <2>2. b \in Blocks' /\ b + block'[b].size = call'.base
    BY <1>1, <1>5, <1>6, <1>9 DEF Ahead
  <2>3. \A s \in SUBSET Blocks' :
          call'.cur \in s /\ (\A c \in s : block'[c].next \in s \cup {head'}) => b \in s
    BY <1>1, <1>5, <1>6, <2>1
  <2>. QED
    BY <2>2, <2>3 DEF Ahead
<1>10. Harmless'
  <2>1. Harmless
    BY <1>1, <1>2 DEF CallInv
  <2>2. CASE /\ \E a, b \in Blocks : Blocks = {a, b}
             /\ Blocks = {call.cur} => call.base + call.count # call.cur
    <3>1. \E a, b \in Blocks' : Blocks' = {a, b}
      BY <1>6, <2>2
    <3>2. Blocks' = {call'.cur} => call'.base + call'.count # call'.cur
      <4>1. Blocks = {block[call.cur].next} => block[call.cur].next = call.cur
        BY <1>3
      <4>. QED
        BY <1>5, <1>6, <2>2, <4>1
    <3>. QED
      BY <3>1, <3>2 DEF Harmless
  <2>3. CASE \E b \in Blocks : Ahead(b) /\ (b = call.cur \/ \A c \in Blocks : c < call.base)
    <3>1. PICK b \in Blocks : Ahead(b) /\ (b = call.cur \/ \A c \in Blocks : c < call.base)
      BY <2>3
    <3>2. b # call.cur
      BY <1>1, <3>1 DEF Ahead
    <3>3. b \in Blocks' /\ Ahead(b)' /\ \A c \in Blocks' : c < call'.base
      BY <1>5, <1>6, <1>9, <3>1, <3>2
    <3>. QED
      BY <3>3 DEF Harmless
  <2>. QED
    BY <2>1, <2>2, <2>3 DEF Harmless
<1>11. CallInv'
  <2>1. call'.cur \in Blocks' /\ (call'.cur # head' => head' < call'.base)
    <3>1. head < call.base
      <4>1. CASE call.cur = head
        BY <1>1, <1>3, <4>1
      <4>. QED
        BY <1>3, <4>1
    <3>. QED
      BY <1>1, <1>4, <1>5, <1>6, <3>1
  <2>2. /\ call'.count \in 1..(NPages - 1) /\ call'.base + call'.count <= NPages
        /\ \/ memory_map' = <<>> /\ <<call'.base, call'.count>> \in lent'
           \/ lent' = {} /\ Run(call'.base, call'.count) \cap usable' = {}
    <3>1. /\ call.count \in 1..(NPages - 1) /\ call.base + call.count <= NPages
          /\ \/ memory_map = <<>> /\ <<call.base, call.count>> \in lent
             \/ lent = {} /\ Run(call.base, call.count) \cap usable = {}
      BY <1>1, <1>2 DEF CallInv
    <3>. QED
      BY <1>1, <1>5, <3>1
  <2>. QED
    BY <1>5, <1>10, <2>1, <2>2 DEF CallInv
<1>12. MapInv'
  <2>1. ASSUME NEW map \in MemoryMaps, MapSeen(map)
        PROVE  MapSeen(map)'
    <3>1. PICK seen : seen = Len(map) - Len(memory_map) /\ seen = Len(map) - Len(memory_map')
      BY <1>1
    <3>2. /\ seen >= 0 /\ \A i \in 1..Len(memory_map) : memory_map[i] = map[seen + i]
          /\ \A p \in usable : \E i \in Accepted(map) : i <= seen /\ p \in Run(map[i].base, map[i].count)
          /\ \A i \in Accepted(map) :
               i < seen \/ (i = seen /\ Idle) => Run(map[i].base, map[i].count) \subseteq usable
          /\ \A b \in Blocks : \E i \in Regions(map) : i <= seen /\ b = map[i].base
          /\ seen \in Accepted(map) /\ call.base = map[seen].base /\ call.count = map[seen].count
          /\ seen \in Regions(map) \/ \E b \in Blocks : Ahead(b)
      BY <1>1, <2>1, <3>1 DEF MapSeen
    <3>3. ~Idle'
      BY <1>5 DEF Idle, NoCall
    <3>4. seen \in Regions(map) \/ \E b \in Blocks' : Ahead(b)'
      BY <1>6, <1>9, <3>2
    <3>. QED
      BY <1>1, <1>5, <1>6, <3>1, <3>2, <3>3, <3>4 DEF MapSeen, Accepted, Regions
  <2>. QED
    BY <1>1, <1>2, <2>1 DEF MapInv
<1>. QED
  BY <1>7, <1>8, <1>11, <1>12 DEF MemoryInv

-----------------------------------------------------------------------------
(* A call of free_phys_pages.                                              *)

\* The pages are the only block.
LEMMA FirstBlock ==
  ASSUME MemoryInv, head = Nothing, NEW base \in Page, NEW count \in 1..(NPages - 1),
         base + count <= NPages, <<base, count>> \in lent \/ lent = {},
         block' = Linked(block, base, base, base, count), head' = base, Freed(base, count)
  PROVE  /\ TypeOK' /\ ListInv' /\ LentInv' /\ CallInv' /\ Blocks' = {base}
         /\ usable' = usable \cup Run(base, count) /\ Idle' /\ call'.fn = "none"
<1>1. TypeOK /\ LentInv
  BY DEF MemoryInv
<1>2. /\ call' = NoCall /\ result' = result /\ free_page_count' = free_page_count + count
      /\ lent' = lent \ {<<base, count>>} /\ usable' = usable \cup Run(base, count)
  BY DEF Freed
<1>3. /\ block \in [Page -> Headers] /\ Holds(block, Blocks, Free) /\ Blocks = {} /\ Free = {}
      /\ free_page_count = Cardinality(Free)
  BY <1>1, Typed, Listed
<1>4. count \in Nat /\ count > 0 /\ count \in 0..NPages /\ base \in Int
  BY PagesAssumption DEF Page
<1>5. /\ block' \in [Page -> Headers]
      /\ block'[base].next = base /\ block'[base].prev = base /\ block'[base].size = count
  BY <1>3, <1>4, WritesHeader
<1>6. IsRing(block', {base})
  BY <1>5, RingOfOne
<1>7. LentInv' /\ Free' = Free \cup Run(base, count)
  BY <1>1, <1>2, PagesComeBack
<1>8. {} \in SUBSET Page
  OBVIOUS
<1>9. Holds(block', {base}, Free')
  <2>1. PICK ring \in SUBSET Page : ring = {}
    BY <1>8
  <2>2. Holds(block, ring, Free)
    BY <1>3, <2>1
  <2>3. Run(base, count) \cap Free = {} /\ \A p \in ring : block'[p].size = block[p].size
    BY <1>3, <2>1
  <2>4. Holds(block', ring \cup {base}, Free \cup Run(base, count))
    <3>1. block \in [Page -> Headers] /\ count \in Nat /\ count > 0 /\ block'[base].size = count
      BY <1>3, <1>4, <1>5
    <3>. QED
      BY <2>2, <2>3, <3>1, HoldsMore
  <2>5. ring \cup {base} = {base}
    BY <2>1
  <2>. QED
    BY <1>7, <2>4, <2>5
<1>10. free_page_count' = Cardinality(Free') /\ free_page_count' \in 0..NPages
  <2>1. Free \in SUBSET Page /\ Run(base, count) \cap Free = {}
    BY <1>3
  <2>2. Cardinality(Free') = Cardinality(Free) + count
    BY <1>4, <1>7, <2>1, MorePages
  <2>3. Cardinality(Free) = 0
    BY <1>3, FS_EmptySet
  <2>. QED
    BY <1>2, <1>3, <1>4, <2>2, <2>3
<1>11. ListInv' /\ Blocks' = {base}
  <2>1. {base} \in SUBSET Page /\ IF {base} = {} THEN head' = Nothing ELSE head' \in {base}
    OBVIOUS
  <2>. QED
    BY <1>6, <1>9, <1>10, <2>1, ListAfter
<1>12. TypeOK'
  <2>1. Run(base, count) \subseteq Page
    BY <1>4, PagesAssumption DEF Run, Page
  <2>2. lent' \subseteq Page \X (1..MaxCount) /\ usable' \subseteq Page
    BY <1>1, <1>2, <2>1 DEF TypeOK
  <2>3. head' \in Page \cup {Nothing} /\ result' \in Page \cup {Nothing}
    BY <1>1, <1>2 DEF TypeOK
  <2>. QED
    BY <1>2, <1>5, <1>10, <2>2, <2>3, NoCallTyped DEF TypeOK, Headers
<1>. QED
  BY <1>2, <1>7, <1>11, <1>12, NothingRuns

\* The walk over the list begins.
LEMMA CallBegins ==
  ASSUME MemoryInv, head # Nothing, NEW base \in Page, NEW count \in 1..(NPages - 1),
         base + count <= NPages,
         \/ memory_map' = <<>> /\ <<base, count>> \in lent
         \/ lent = {} /\ Run(base, count) \cap usable = {},
         call' = [fn |-> "free", base |-> base, count |-> count, cur |-> head],
         UNCHANGED <<head, block, free_page_count, result, usable, lent>>,
         Harmless'
  PROVE  TypeOK' /\ ListInv' /\ LentInv' /\ CallInv'
<1>1. TypeOK /\ ListInv /\ LentInv
  BY DEF MemoryInv
<1>2. Blocks' = Blocks /\ Free' = Free
  BY SameList DEF Free
<1>3. head \in Blocks /\ head \in Page
  BY Listed
<1>4. count \in 0..NPages
  BY PagesAssumption
<1>5. TypeOK'
  BY <1>1, <1>3, <1>4 DEF TypeOK
<1>6. ListInv' /\ LentInv'
  BY <1>1, <1>2 DEF ListInv, LentInv
<1>7. /\ call'.fn = "free" /\ call'.base = base /\ call'.count = count /\ call'.cur = head'
  OBVIOUS
<1>8. CallInv'
  BY <1>2, <1>3, <1>7 DEF CallInv
<1>. QED
  BY <1>5, <1>6, <1>8

-----------------------------------------------------------------------------
(* Few blocks.                                                             *)

LEMMA ThreeOf ==
  ASSUME NEW S, IsFiniteSet(S), NEW a \in S, NEW b \in S, NEW c \in S, a # b, a # c, b # c
  PROVE  Cardinality(S) >= 3
<1>1. PICK s : s = {a}
  OBVIOUS
<1>2. IsFiniteSet(s) /\ Cardinality(s) = 1 /\ b \notin s
  BY <1>1, FS_Singleton
<1>3. PICK t : t = s \cup {b} /\ IsFiniteSet(t) /\ Cardinality(t) = 2 /\ c \notin t
  <2>1. IsFiniteSet(s \cup {b}) /\ Cardinality(s \cup {b}) = 2
    BY <1>2, FS_AddElement
  <2>2. c \notin s \cup {b}
    BY <1>1
  <2>. QED
    BY <2>1, <2>2
<1>4. PICK u : u = t \cup {c}
  OBVIOUS
<1>5. IsFiniteSet(u) /\ Cardinality(u) = 3
  <2>1. IsFiniteSet(t \cup {c}) /\ Cardinality(t \cup {c}) = Cardinality(t) + 1
    BY <1>3, FS_AddElement
  <2>. QED
    BY <1>3, <1>4, <2>1
<1>6. u \in SUBSET S
  BY <1>1, <1>3, <1>4
<1>7. Cardinality(u) <= Cardinality(S)
  BY <1>6, FS_Subset
<1>8. Cardinality(S) \in Nat
  BY FS_CardinalityType
<1>. QED
  BY <1>5, <1>7, <1>8

LEMMA FourOf ==
  ASSUME NEW S, IsFiniteSet(S), NEW a \in S, NEW b \in S, NEW c \in S, NEW d \in S,
         a # b, a # c, b # c, d # a, d # b, d # c
  PROVE  Cardinality(S) >= 4
<1>1. IsFiniteSet(S \ {d}) /\ Cardinality(S \ {d}) = Cardinality(S) - 1
  BY FS_RemoveElement
<1>2. Cardinality(S \ {d}) >= 3
  <2>1. a \in S \ {d} /\ b \in S \ {d} /\ c \in S \ {d}
    OBVIOUS
  <2>. QED
    BY <1>1, <2>1, ThreeOf
<1>3. Cardinality(S) \in Nat
  BY FS_CardinalityType
<1>. QED
  BY <1>1, <1>2, <1>3

\* Of which no three are different, there are one or two.
LEMMA OneOrTwo ==
  ASSUME NEW S, NEW a \in S, ~\E b \in S, c \in S : a # b /\ a # c /\ b # c
  PROVE  \E x, y \in S : S = {x, y}
<1>1. CASE S = {a}
  BY <1>1
<1>2. CASE S # {a}
  <2>1. PICK b \in S : b # a
    BY <1>2
  <2>2. S = {a, b}
    BY <2>1
  <2>. QED
    BY <2>1, <2>2
<1>. QED
  BY <1>1, <1>2

\* Pages that were handed out are given back.
LEMMA FreeAgainInv ==
  ASSUME MemoryInv, FreeAgain
  PROVE  MemoryInv'
<1>1. memory_map' = <<>>
  BY DEF FreeAgain
<1>2. PICK r \in lent : Tolerated(r[1], r[2]) /\ free_phys_pages(r[1], r[2])
  BY DEF FreeAgain
<1>3. PICK base, count : base = r[1] /\ count = r[2]
  OBVIOUS
<1>4. Tolerated(base, count) /\ free_phys_pages(base, count)
  BY <1>2, <1>3
<1>5. TypeOK /\ LentInv
  BY DEF MemoryInv
<1>6. base \in Page /\ count \in 1..MaxCount /\ <<base, count>> \in lent
  <2>1. r \in Page \X (1..MaxCount)
    BY <1>5 DEF TypeOK
  <2>2. r = <<r[1], r[2]>> /\ r[1] \in Page /\ r[2] \in 1..MaxCount
    BY <2>1
  <2>. QED
    BY <1>3, <2>2
<1>7. count \in 1..(NPages - 1) /\ base \in Nat /\ count \in Nat /\ count > 0
  BY <1>6, PagesAssumption DEF Page
<1>8. base + count <= NPages
  <2>1. Run(base, count) \subseteq Page
    BY <1>3, <1>5 DEF LentInv, TypeOK
  <2>2. base + count - 1 \in Run(base, count)
    BY <1>7 DEF Run
  <2>3. base + count - 1 \in 0..(NPages - 1)
    BY <2>1, <2>2 DEF Page
  <2>. QED
    BY <1>7, <2>3, PagesAssumption
<1>9. CASE head = Nothing
  <2>1. /\ block' = Linked(block, base, base, base, count) /\ head' = base /\ Freed(base, count)
    BY <1>4, <1>9 DEF free_phys_pages
  <2>2. TypeOK' /\ ListInv' /\ LentInv' /\ CallInv'
    BY <1>6, <1>7, <1>8, <1>9, <2>1, FirstBlock
  <2>. QED
    BY <1>1, <2>2, MapIsRead DEF MemoryInv
<1>10. CASE head # Nothing
  <2>1. /\ call' = [fn |-> "free", base |-> base, count |-> count, cur |-> head]
        /\ UNCHANGED <<head, block, free_page_count, result, usable, lent>>
    BY <1>4, <1>10 DEF free_phys_pages
  <2>2. Blocks' = Blocks /\ head \in Blocks /\ Blocks \in SUBSET Page
    BY <1>10, <2>1, SameList, Listed
  <2>3. IsFiniteSet(Blocks) /\ Cardinality(Blocks) \in Nat
    BY <2>2, PagesAreFinite, FS_CardinalityType
  <2>4. call'.cur = head /\ call'.base = base /\ call'.count = count
    BY <2>1
  <2>5. Harmless'
    <3>1. CASE Cardinality(Blocks) >= 3
      <4>1. head + block[head].size = base
        BY <1>4, <2>3, <3>1 DEF Tolerated
      <4>2. Ahead(head)'
        BY <2>1, <2>2, <2>4, <4>1 DEF Ahead
      <4>3. \E b \in Blocks' : b = head' /\ Ahead(b)' /\ b = call'.cur
        BY <2>1, <2>2, <2>4, <4>2
      <4>. QED
        BY <4>3 DEF Harmless
    <3>2. CASE ~(Cardinality(Blocks) >= 3)
      <4>1. \E x, y \in Blocks : Blocks = {x, y}
        BY <2>2, <2>3, <3>2, ThreeOf, OneOrTwo
      <4>2. Blocks = {head} => base + count # head
        <5>1. Blocks = {head} => Cardinality(Blocks) = 1
          BY FS_Singleton
        <5>. QED
          BY <1>4, <5>1 DEF Tolerated
      <4>. QED
        BY <2>2, <2>4, <4>1, <4>2 DEF Harmless
    <3>. QED
      BY <3>1, <3>2
  <2>6. TypeOK' /\ ListInv' /\ LentInv' /\ CallInv'
    BY <1>1, <1>6, <1>7, <1>8, <1>10, <2>1, <2>5, CallBegins
  <2>. QED
    BY <1>1, <2>6, MapIsRead DEF MemoryInv
<1>. QED
  BY <1>9, <1>10

-----------------------------------------------------------------------------
(* init_memory_manager.                                                    *)

\* The entry it looks at is the i-th of the map.
LEMMA NextEntry ==
  ASSUME MemoryInv, memory_map # <<>>, memory_map' = Tail(memory_map),
         NEW map \in MemoryMaps, MapSeen(map)
  PROVE  \E i \in DOMAIN map :
           /\ i = Len(map) - Len(memory_map') /\ i - 1 = Len(map) - Len(memory_map) /\ i \in Nat
           /\ i - 1 >= 0 /\ Head(memory_map) = map[i]
           /\ map[i].type \in Nat /\ map[i].base \in Nat /\ map[i].count \in Nat
           /\ \A j \in 1..Len(memory_map') : memory_map'[j] = map[i + j]
           /\ memory_map' \in Seq([type : Nat, base : Nat, count : Nat])
<1>1. PICK S : S = [type : Nat, base : Nat, count : Nat]
  OBVIOUS
<1>2. memory_map \in Seq(S) /\ map \in Seq(S)
  BY <1>1, PagesAssumption DEF MemoryInv, MapInv
<1>3. Len(memory_map) \in Nat /\ Len(map) \in Nat /\ Len(memory_map) > 0
  BY <1>2
<1>4. /\ Head(memory_map) = memory_map[1] /\ Tail(memory_map) \in Seq(S)
      /\ Len(Tail(memory_map)) = Len(memory_map) - 1
      /\ \A j \in 1..Len(Tail(memory_map)) : Tail(memory_map)[j] = memory_map[j + 1]
  BY <1>2
<1>5. PICK seen : seen = Len(map) - Len(memory_map)
  OBVIOUS
<1>6. seen >= 0 /\ \A j \in 1..Len(memory_map) : memory_map[j] = map[seen + j]
  BY <1>5 DEF MapSeen
<1>7. PICK i : i = seen + 1
  OBVIOUS
<1>8. /\ i \in 1..Len(map) /\ i - 1 = seen /\ i = Len(map) - (Len(memory_map) - 1) /\ seen \in Int
  BY <1>3, <1>5, <1>6, <1>7
<1>9. i \in DOMAIN map /\ map[i] \in S
  BY <1>2, <1>8
<1>10. Head(memory_map) = map[i]
  <2>1. 1 \in 1..Len(memory_map)
    BY <1>3
  <2>. QED
    BY <1>4, <1>6, <1>7, <2>1
<1>11. ASSUME NEW j \in 1..Len(memory_map')
       PROVE  memory_map'[j] = map[i + j]
  <2>1. j + 1 \in 1..Len(memory_map) /\ seen + (j + 1) = i + j /\ j \in 1..Len(Tail(memory_map))
    BY <1>3, <1>4, <1>7, <1>8
  <2>2. memory_map'[j] = memory_map[j + 1]
    BY <1>4, <2>1
  <2>3. memory_map[j + 1] = map[seen + (j + 1)]
    BY <1>6, <2>1
  <2>. QED
    BY <2>1, <2>2, <2>3
<1>12. map[i].type \in Nat /\ map[i].base \in Nat /\ map[i].count \in Nat
  BY <1>1, <1>9
<1>13. i \in Nat /\ i - 1 >= 0 /\ i = Len(map) - Len(memory_map')
  BY <1>4, <1>6, <1>8
<1>. QED
  BY <1>1, <1>4, <1>5, <1>8, <1>9, <1>10, <1>11, <1>12, <1>13

\* Of two entries that the allocator takes, the first ends before the other.
LEMMA Upwards ==
  ASSUME NEW map \in MemoryMaps, NEW i \in Accepted(map), NEW j \in Accepted(map)
  PROVE  /\ i \in Nat /\ j \in Nat /\ map[i].base \in Nat /\ map[i].count \in Nat /\ map[i].count > 0
         /\ map[j].base \in Nat /\ map[j].count \in Nat /\ map[j].count > 0
         /\ i < j => map[i].base + map[i].count <= map[j].base
<1>1. PICK S : S = [type : Nat, base : Nat, count : Nat]
  OBVIOUS
<1>2. map \in Seq(S) /\ i \in DOMAIN map /\ j \in DOMAIN map
  BY <1>1, PagesAssumption DEF Accepted
<1>3. i \in Nat /\ j \in Nat /\ map[i] \in S /\ map[j] \in S
  BY <1>2, Entry
<1>4. /\ map[i].base \in Nat /\ map[i].count \in Nat /\ map[j].base \in Nat /\ map[j].count \in Nat
  BY <1>1, <1>3
<1>. QED
  BY <1>3, <1>4, MapsAssumption

\* An entry that begins where another one ends follows that one.
LEMMA NoRegion ==
  ASSUME NEW map \in MemoryMaps, NEW i \in Accepted(map), i \notin Regions(map)
  PROVE  \E j \in Accepted(map) : j < i /\ map[j].base + map[j].count = map[i].base
<1>1. PICK j \in Accepted(map) : map[j].base + map[j].count = map[i].base
  BY DEF Regions
<1>2. j < i
  BY <1>1, Upwards
<1>. QED
  BY <1>1, <1>2

LEMMA RegionsAreFew ==
  ASSUME NEW map \in MemoryMaps
  PROVE  IsFiniteSet(Regions(map)) /\ Cardinality(Regions(map)) <= 3
<1>1. PICK S : S = [type : Nat, base : Nat, count : Nat]
  OBVIOUS
<1>2. map \in Seq(S)
  BY <1>1, PagesAssumption
<1>3. Len(map) \in Nat /\ DOMAIN map = 1..Len(map)
  BY <1>2, LenProperties
<1>4. PICK n \in Nat : DOMAIN map = 1..n
  BY <1>3
<1>5. IsFiniteSet(1..n)
  BY FS_Interval
<1>6. Regions(map) \in SUBSET (1..n)
  BY <1>4 DEF Regions, Accepted
<1>. QED
  BY <1>5, <1>6, FS_Subset, MapsAssumption

\* The entry is not taken.
LEMMA SkipsEntry ==
  ASSUME MemoryInv, init_memory_manager, NEW map \in MemoryMaps, MapSeen(map),
         UNCHANGED <<head, block, free_page_count, call, result, usable, lent>>,
         \A i \in DOMAIN map : i = Len(map) - Len(memory_map') => i \notin Accepted(map)
  PROVE  MemoryInv'
<1>1. memory_map # <<>> /\ memory_map' = Tail(memory_map) /\ call' = NoCall
  BY DEF init_memory_manager, Idle
<1>2. TypeOK /\ ListInv /\ LentInv /\ MapInv
  BY DEF MemoryInv
<1>3. PICK i \in DOMAIN map :
        /\ i = Len(map) - Len(memory_map') /\ i - 1 = Len(map) - Len(memory_map) /\ i \in Nat
        /\ i - 1 >= 0 /\ \A j \in 1..Len(memory_map') : memory_map'[j] = map[i + j]
        /\ memory_map' \in Seq([type : Nat, base : Nat, count : Nat])
  BY <1>1, NextEntry
<1>4. Blocks' = Blocks /\ Free' = Free
  BY SameList DEF Free
<1>5. TypeOK'
  BY <1>2 DEF TypeOK
<1>6. ListInv' /\ LentInv'
  BY <1>2, <1>4 DEF ListInv, LentInv
<1>7. i \notin Accepted(map)
  BY <1>3
<1>8. Idle /\ Idle' /\ call'.fn = "none"
  BY <1>1, NothingRuns DEF init_memory_manager
<1>9. MapSeen(map)'
  <2>1. PICK seen : seen = i - 1 /\ seen = Len(map) - Len(memory_map)
    BY <1>3
  <2>2. /\ \A p \in usable : \E j \in Accepted(map) : j <= seen /\ p \in Run(map[j].base, map[j].count)
        /\ \A j \in Accepted(map) : j < seen \/ j = seen => Run(map[j].base, map[j].count) \subseteq usable
        /\ \A b \in Blocks : \E j \in Regions(map) : j <= seen /\ b = map[j].base
    BY <1>8, <2>1 DEF MapSeen
  <2>3. \A j \in Accepted(map) : j \in Nat
    BY Upwards
  <2>4. \A j \in Accepted(map) : (j <= seen => j <= i) /\ (j < i \/ j = i => j < seen \/ j = seen)
    BY <1>3, <1>7, <2>1, <2>3
  <2>5. \A p \in usable : \E j \in Accepted(map) : j <= i /\ p \in Run(map[j].base, map[j].count)
    BY <2>2, <2>4
  <2>6. \A j \in Accepted(map) : j < i \/ j = i => Run(map[j].base, map[j].count) \subseteq usable
    BY <2>2, <2>4
  <2>7. \A b \in Blocks : \E j \in Regions(map) : j <= i /\ b = map[j].base
    <3>1. Regions(map) \subseteq Accepted(map)
      BY DEF Regions
    <3>. QED
      BY <2>2, <2>4, <3>1
  <2>8. i >= 0
    BY <1>3
  <2>. QED
    BY <1>3, <1>4, <1>8, <2>5, <2>6, <2>7, <2>8 DEF MapSeen, Accepted, Regions
<1>10. lent' = {}
  BY <1>1, <1>2 DEF MapInv
<1>11. MapInv'
  BY <1>3, <1>9, <1>10 DEF MapInv
<1>. QED
  BY <1>1, <1>5, <1>6, <1>11, NothingRuns DEF MemoryInv

\* What is known of the entry that is taken.
LEMMA TakenEntry ==
  ASSUME MemoryInv, init_memory_manager, NEW map \in MemoryMaps, MapSeen(map),
         NEW i \in Accepted(map), i - 1 = Len(map) - Len(memory_map)
  PROVE  /\ map[i].base \in Page /\ map[i].base \in Nat /\ map[i].count \in Nat
         /\ map[i].count \in 1..(NPages - 1) /\ map[i].base + map[i].count <= NPages
         /\ Run(map[i].base, map[i].count) \cap usable = {}
         /\ usable = Free /\ \A p \in usable : p \in Nat /\ p < map[i].base
         /\ \A j \in Accepted(map) : j < i => Run(map[j].base, map[j].count) \subseteq usable
         /\ \A b \in Blocks : \E j \in Regions(map) : j < i /\ b = map[j].base
<1>1. memory_map # <<>> /\ Idle
  BY DEF init_memory_manager
<1>2. /\ i \in Nat /\ map[i].base \in Nat /\ map[i].count \in Nat /\ map[i].count > 0
      /\ map[i].base + map[i].count <= NPages /\ map[i].base >= LowPages
  BY Upwards, MapsAssumption DEF Accepted
<1>3. map[i].base \in Page /\ map[i].count \in 1..(NPages - 1)
  <2>1. PICK base, count : base = map[i].base /\ count = map[i].count
    OBVIOUS
  <2>2. /\ base \in Nat /\ count \in Nat /\ count > 0 /\ base + count <= NPages
        /\ base >= LowPages
    BY <1>2, <2>1
  <2>3. LowPages \in Nat /\ LowPages > 0 /\ NPages \in Nat
    BY PagesAssumption
  <2>4. base \in 0..(NPages - 1) /\ count \in 1..(NPages - 1)
    BY <2>2, <2>3
  <2>. QED
    BY <2>1, <2>4 DEF Page
<1>4. lent = {}
  BY <1>1 DEF MemoryInv, MapInv
<1>5. usable = Free
  BY <1>4, FreeMeans
<1>6. PICK seen : seen = i - 1 /\ seen = Len(map) - Len(memory_map)
  OBVIOUS
<1>7. /\ \A p \in usable : \E j \in Accepted(map) : j <= seen /\ p \in Run(map[j].base, map[j].count)
      /\ \A j \in Accepted(map) : j < seen \/ j = seen => Run(map[j].base, map[j].count) \subseteq usable
      /\ \A b \in Blocks : \E j \in Regions(map) : j <= seen /\ b = map[j].base
  BY <1>1, <1>6 DEF MapSeen
<1>8. \A j \in Accepted(map) : j <= seen <=> j < i
  BY <1>2, <1>6, Upwards
<1>9. ASSUME NEW p \in usable
      PROVE  p \in Nat /\ p < map[i].base
  <2>1. PICK j \in Accepted(map) : j < i /\ p \in Run(map[j].base, map[j].count)
    BY <1>7, <1>8
  <2>2. /\ map[j].base \in Nat /\ map[j].count \in Nat
        /\ map[j].base + map[j].count <= map[i].base
    BY <2>1, Upwards
  <2>3. PICK l, m, e : l = map[j].base /\ m = map[j].count /\ e = map[i].base
    OBVIOUS
  <2>4. l \in Nat /\ m \in Nat /\ l + m <= e /\ e \in Nat /\ p \in l..(l + m - 1)
    BY <1>2, <2>1, <2>2, <2>3 DEF Run
  <2>5. p \in Nat /\ p < e
    BY <2>4
  <2>. QED
    BY <2>3, <2>5
<1>10. Run(map[i].base, map[i].count) \cap usable = {}
  BY <1>2, <1>9 DEF Run
<1>11. \A j \in Accepted(map) : j < i => Run(map[j].base, map[j].count) \subseteq usable
  <2>1. \A j \in Accepted(map) : j < i => j < seen \/ j = seen
    BY <1>2, <1>6, Upwards
  <2>. QED
    BY <1>7, <2>1
<1>12. \A b \in Blocks : \E j \in Regions(map) : j < i /\ b = map[j].base
  <2>1. Regions(map) \subseteq Accepted(map)
    BY DEF Regions
  <2>. QED
    BY <1>7, <1>8, <2>1
<1>. QED
  BY <1>2, <1>3, <1>5, <1>9, <1>10, <1>11, <1>12

\* It gets through the 32 bits of the parameters unchanged.
LEMMA NothingIsCutOff ==
  ASSUME NEW map \in MemoryMaps, NEW i \in Accepted(map)
  PROVE  Phyaddr(map[i].base) = map[i].base /\ SizeT(map[i].count) = map[i].count
<1>1. PICK b, c : b = map[i].base /\ c = map[i].count
  OBVIOUS
<1>2. b \in Nat /\ c \in Nat /\ c > 0 /\ b + c <= NPages
  BY <1>1, Upwards, MapsAssumption
<1>3. NPages \in Nat /\ AddressPages \in Nat /\ NPages <= AddressPages
  BY PagesAssumption
<1>4. b < AddressPages /\ c <= AddressPages
  BY <1>2, <1>3
<1>5. b % AddressPages = b
  BY <1>2, <1>3, <1>4
<1>6. c % (AddressPages * PAGE_SIZE) = c
  <2>1. PICK n \in Nat : n = AddressPages * PAGE_SIZE
    BY <1>3 DEF PAGE_SIZE
  <2>2. c < n
    <3>1. AddressPages > 0 /\ AddressPages < n
      BY <1>2, <1>3, <2>1 DEF PAGE_SIZE
    <3>. QED
      BY <1>2, <1>3, <1>4, <2>1, <3>1
  <2>. QED
    BY <1>2, <2>1, <2>2
<1>. QED
  BY <1>1, <1>5, <1>6 DEF Phyaddr, SizeT

\* The pages of the first entry that is taken are the list.
LEMMA TakesFirst ==
  ASSUME MemoryInv, init_memory_manager, NEW map \in MemoryMaps, MapSeen(map), head = Nothing,
         NEW i \in Accepted(map), i - 1 = Len(map) - Len(memory_map),
         free_phys_pages(map[i].base, map[i].count)
  PROVE  MemoryInv'
<1>1. memory_map # <<>> /\ memory_map' = Tail(memory_map)
  BY DEF init_memory_manager
<1>2. lent = {}
  BY <1>1 DEF MemoryInv, MapInv
<1>3. PICK base, count : base = map[i].base /\ count = map[i].count
  OBVIOUS
<1>4. /\ base \in Page /\ count \in 1..(NPages - 1) /\ base + count <= NPages /\ usable = Free
      /\ \A j \in Accepted(map) : j < i => Run(map[j].base, map[j].count) \subseteq usable
  BY <1>3, TakenEntry
<1>5. block' = Linked(block, base, base, base, count) /\ head' = base /\ Freed(base, count)
  BY <1>3 DEF free_phys_pages
<1>6. /\ TypeOK' /\ ListInv' /\ LentInv' /\ CallInv' /\ Blocks' = {base}
      /\ usable' = usable \cup Run(base, count) /\ Idle' /\ call'.fn = "none"
  BY <1>2, <1>4, <1>5, FirstBlock
<1>7. usable = {}
  BY <1>4, Listed
<1>8. i \in Regions(map)
  <2>1. SUFFICES ASSUME i \notin Regions(map) PROVE FALSE
    OBVIOUS
  <2>2. PICK j \in Accepted(map) : j < i
    BY <2>1, NoRegion
  <2>3. Run(map[j].base, map[j].count) = {}
    BY <1>4, <1>7, <2>2
  <2>4. map[j].base \in Nat /\ map[j].count \in Nat /\ map[j].count > 0
    BY Upwards
  <2>. QED
    BY <2>3, <2>4 DEF Run
<1>9. /\ i = Len(map) - Len(memory_map') /\ i \in Nat
      /\ \A j \in 1..Len(memory_map') : memory_map'[j] = map[i + j]
      /\ memory_map' \in Seq([type : Nat, base : Nat, count : Nat])
  <2>1. PICK j \in DOMAIN map :
          /\ j = Len(map) - Len(memory_map') /\ j - 1 = Len(map) - Len(memory_map) /\ j \in Nat
          /\ \A k \in 1..Len(memory_map') : memory_map'[k] = map[j + k]
          /\ memory_map' \in Seq([type : Nat, base : Nat, count : Nat])
    BY <1>1, NextEntry
  <2>2. i \in Nat
    BY Upwards
  <2>3. i = j
    BY <2>1, <2>2
  <2>. QED
    BY <2>1, <2>3
<1>10. \A p \in usable' : \E j \in Accepted(map) : j <= i /\ p \in Run(map[j].base, map[j].count)
  BY <1>3, <1>6, <1>7, <1>9
<1>11. \A j \in Accepted(map) : j < i \/ j = i => Run(map[j].base, map[j].count) \subseteq usable'
  BY <1>3, <1>4, <1>6
<1>12. \A b \in Blocks' : \E j \in Regions(map) : j <= i /\ b = map[j].base
  BY <1>3, <1>6, <1>8, <1>9
<1>13. i >= 0
  BY <1>9
<1>14. MapSeen(map)'
  BY <1>6, <1>9, <1>10, <1>11, <1>12, <1>13 DEF MapSeen, Accepted, Regions
<1>15. lent' = {}
  BY <1>2, <1>5 DEF Freed
<1>16. MapInv'
  BY <1>9, <1>14, <1>15 DEF MapInv
<1>. QED
  BY <1>6, <1>16 DEF MemoryInv

\* The pages of a later one: they follow a block, or there are at most two.
LEMMA TakesMore ==
  ASSUME MemoryInv, init_memory_manager, NEW map \in MemoryMaps, MapSeen(map), head # Nothing,
         NEW i \in Accepted(map), i - 1 = Len(map) - Len(memory_map),
         free_phys_pages(map[i].base, map[i].count)
  PROVE  MemoryInv'
<1>1. memory_map # <<>> /\ memory_map' = Tail(memory_map)
  BY DEF init_memory_manager
<1>2. lent = {}
  BY <1>1 DEF MemoryInv, MapInv
<1>3. PICK base, count : base = map[i].base /\ count = map[i].count
  OBVIOUS
<1>4. /\ base \in Page /\ base \in Nat /\ count \in Nat /\ count \in 1..(NPages - 1)
      /\ base + count <= NPages /\ usable = Free /\ Run(base, count) \cap usable = {}
      /\ \A p \in usable : p \in Nat /\ p < base
      /\ \A j \in Accepted(map) : j < i => Run(map[j].base, map[j].count) \subseteq usable
      /\ \A b \in Blocks : \E j \in Regions(map) : j < i /\ b = map[j].base
  BY <1>3, TakenEntry
<1>5. /\ call' = [fn |-> "free", base |-> base, count |-> count, cur |-> head]
      /\ UNCHANGED <<head, block, free_page_count, result, usable, lent>>
  BY <1>3 DEF free_phys_pages
<1>6. call'.fn = "free" /\ call'.base = base /\ call'.count = count /\ call'.cur = head
  BY <1>5
<1>7. Blocks' = Blocks /\ head \in Blocks
  BY <1>5, SameList, Listed
<1>8. /\ block \in [Page -> Headers] /\ Blocks \in SUBSET Page /\ IsRing(block, Blocks)
      /\ Holds(block, Blocks, Free)
  BY Typed, Listed DEF MemoryInv
<1>9. \A b \in Blocks : /\ b \in Nat /\ block[b].size \in Nat /\ block[b].size > 0 /\ b < base
                        /\ Run(b, block[b].size) \subseteq usable
  <2>1. ASSUME NEW b \in Blocks
        PROVE  /\ b \in Nat /\ block[b].size \in Nat /\ block[b].size > 0 /\ b < base
               /\ Run(b, block[b].size) \subseteq usable
    <3>1. b \in Free /\ Run(b, block[b].size) \subseteq Free
      BY <1>8, BlockPages
    <3>. QED
      BY <1>4, <1>8, <3>1, Sizes DEF Holds
  <2>. QED
    BY <2>1
<1>10. ASSUME i \in Regions(map)
       PROVE  Harmless'
  <2>1. ASSUME NEW b \in Blocks, NEW c \in Blocks, head # b, head # c, b # c
        PROVE  FALSE
    <3>1. PICK ja \in Regions(map) : ja < i /\ head = map[ja].base
      BY <1>4, <1>7
    <3>2. PICK jb \in Regions(map) : jb < i /\ b = map[jb].base
      BY <1>4
    <3>3. PICK jc \in Regions(map) : jc < i /\ c = map[jc].base
      BY <1>4
    <3>4. ja # jb /\ ja # jc /\ jb # jc
      BY <2>1, <3>1, <3>2, <3>3
    <3>5. i # ja /\ i # jb /\ i # jc
      <4>1. ja \in Nat /\ jb \in Nat /\ jc \in Nat /\ i \in Nat
        BY <3>1, <3>2, <3>3, Upwards DEF Regions
      <4>. QED
        BY <3>1, <3>2, <3>3, <4>1
    <3>6. IsFiniteSet(Regions(map)) /\ Cardinality(Regions(map)) <= 3
      BY RegionsAreFew
    <3>7. Cardinality(Regions(map)) \in Nat
      BY <3>6, FS_CardinalityType
    <3>8. Cardinality(Regions(map)) >= 4
      BY <1>10, <3>4, <3>5, <3>6, FourOf
    <3>. QED
      BY <3>6, <3>7, <3>8
  <2>2. \E x, y \in Blocks : Blocks = {x, y}
    BY <1>7, <2>1, OneOrTwo
  <2>3. base + count # head
    BY <1>4, <1>7, <1>9
  <2>. QED
    BY <1>6, <1>7, <2>2, <2>3 DEF Harmless
<1>11. ASSUME i \notin Regions(map)
       PROVE  Harmless' /\ \E b \in Blocks' : Ahead(b)'
  <2>1. PICK j \in Accepted(map) : j < i /\ map[j].base + map[j].count = map[i].base
    BY <1>11, NoRegion
  <2>2. map[j].base \in Nat /\ map[j].count \in Nat /\ map[j].count > 0
    BY Upwards
  <2>3. base - 1 \in usable
    <3>1. PICK l, m : l = map[j].base /\ m = map[j].count
      OBVIOUS
    <3>2. l \in Nat /\ m \in Nat /\ m > 0 /\ l + m = base
      BY <1>3, <2>1, <2>2, <3>1
    <3>3. base - 1 \in Run(l, m)
      BY <3>2 DEF Run
    <3>. QED
      BY <1>4, <2>1, <3>1, <3>3
  <2>4. PICK b \in Blocks : base - 1 \in Run(b, block[b].size)
    <3>1. base - 1 \in Page
      BY <1>4, <2>3, Typed DEF MemoryInv
    <3>. QED
      BY <1>4, <1>8, <2>3, <3>1 DEF Holds
  <2>5. b + block[b].size = base
    <3>1. PICK k : k = block[b].size
      OBVIOUS
    <3>2. b \in Nat /\ k \in Nat /\ k > 0 /\ Run(b, k) \subseteq usable
      BY <1>9, <3>1
    <3>3. b + k - 1 \in Run(b, k)
      BY <3>2 DEF Run
    <3>4. b + k - 1 < base
      BY <1>4, <3>2, <3>3
    <3>5. base - 1 \in Run(b, k)
      BY <2>4, <3>1
    <3>6. base - 1 <= b + k - 1
      BY <1>4, <3>2, <3>5 DEF Run
    <3>7. base \in Nat
      BY <1>4
    <3>8. b + k = base
      BY <3>2, <3>4, <3>6, <3>7
    <3>. QED
      BY <3>1, <3>8
  <2>6. ASSUME NEW s \in SUBSET Blocks, head \in s, \A c \in s : block[c].next \in s \cup {head}
        PROVE  b \in s
    <3>1. \A c \in s : block[c].next \in s
      BY <2>6
    <3>2. s = Blocks
      BY <1>8, <2>6, <3>1 DEF IsRing
    <3>. QED
      BY <3>2
  <2>7. Ahead(b)'
    BY <1>5, <1>6, <1>7, <2>5, <2>6 DEF Ahead
  <2>8. \A c \in Blocks' : c < call'.base
    BY <1>6, <1>7, <1>9
  <2>9. \E c \in Blocks' : Ahead(c)' /\ \A e \in Blocks' : e < call'.base
    BY <1>7, <2>7, <2>8
  <2>. QED
    BY <2>9 DEF Harmless
<1>12. TypeOK' /\ ListInv' /\ LentInv' /\ CallInv'
  <2>1. Harmless'
    BY <1>10, <1>11
  <2>. QED
    BY <1>2, <1>4, <1>5, <2>1, CallBegins
<1>13. /\ i = Len(map) - Len(memory_map') /\ i \in Nat
       /\ \A j \in 1..Len(memory_map') : memory_map'[j] = map[i + j]
       /\ memory_map' \in Seq([type : Nat, base : Nat, count : Nat])
  <2>1. PICK j \in DOMAIN map :
          /\ j = Len(map) - Len(memory_map') /\ j - 1 = Len(map) - Len(memory_map) /\ j \in Nat
          /\ \A k \in 1..Len(memory_map') : memory_map'[k] = map[j + k]
          /\ memory_map' \in Seq([type : Nat, base : Nat, count : Nat])
    BY <1>1, NextEntry
  <2>2. i \in Nat
    BY Upwards
  <2>3. i = j
    BY <2>1, <2>2
  <2>. QED
    BY <2>1, <2>3
<1>14. \A p \in usable : \E j \in Accepted(map) : j <= i /\ p \in Run(map[j].base, map[j].count)
  <2>1. PICK seen : seen = i - 1 /\ seen = Len(map) - Len(memory_map)
    OBVIOUS
  <2>2. \A p \in usable : \E j \in Accepted(map) : j <= seen /\ p \in Run(map[j].base, map[j].count)
    BY <2>1 DEF MapSeen
  <2>3. \A j \in Accepted(map) : j <= seen => j <= i
    BY <1>13, <2>1, Upwards
  <2>. QED
    BY <2>2, <2>3
<1>15. \A b \in Blocks' : \E j \in Regions(map) : j <= i /\ b = map[j].base
  <2>1. \A j \in Regions(map) : j \in Nat
    BY Upwards DEF Regions
  <2>2. \A j \in Regions(map) : j < i => j <= i
    BY <1>13, <2>1
  <2>. QED
    BY <1>4, <1>7, <2>2
<1>16. ~Idle' /\ i >= 0
  BY <1>6, <1>13 DEF Idle, NoCall
<1>17. MapSeen(map)'
  <2>1. \A p \in usable' : \E j \in Accepted(map) : j <= i /\ p \in Run(map[j].base, map[j].count)
    BY <1>5, <1>14
  <2>2. \A j \in Accepted(map) : j < i => Run(map[j].base, map[j].count) \subseteq usable'
    BY <1>4, <1>5
  <2>3. i \in Accepted(map) /\ call'.base = map[i].base /\ call'.count = map[i].count
    BY <1>3, <1>6
  <2>4. i \in Regions(map) \/ \E b \in Blocks' : Ahead(b)'
    BY <1>11
  <2>5. i = Len(map) - Len(memory_map') /\ i >= 0
    BY <1>13, <1>16
  <2>6. \A j \in 1..Len(memory_map') : memory_map'[j] = map[i + j]
    BY <1>13
  <2>7. Accepted(map)' = Accepted(map) /\ Regions(map)' = Regions(map)
    BY DEF Accepted, Regions
  <2>. QED
    BY <1>15, <1>16, <2>1, <2>2, <2>3, <2>4, <2>5, <2>6, <2>7 DEF MapSeen
<1>18. MapInv'
  BY <1>2, <1>5, <1>13, <1>17 DEF MapInv
<1>. QED
  BY <1>12, <1>18 DEF MemoryInv

LEMMA InitMemoryInv ==
  ASSUME MemoryInv, init_memory_manager
  PROVE  MemoryInv'
<1>1. memory_map # <<>> /\ memory_map' = Tail(memory_map)
  BY DEF init_memory_manager
<1>2. PICK map \in MemoryMaps : MapSeen(map)
  BY <1>1 DEF MemoryInv, MapInv
<1>3. PICK i \in DOMAIN map : /\ i = Len(map) - Len(memory_map') /\ i - 1 = Len(map) - Len(memory_map)
                              /\ Head(memory_map) = map[i]
  BY <1>1, <1>2, NextEntry
<1>4. i \in Accepted(map) <=> Head(memory_map).type = 1 /\ Head(memory_map).base >= LowPages
  BY <1>3 DEF Accepted
<1>5. CASE i \in Accepted(map)
  <2>1. free_phys_pages(map[i].base, map[i].count)
    BY <1>2, <1>3, <1>4, <1>5, NothingIsCutOff DEF init_memory_manager
  <2>. QED
    BY <1>2, <1>3, <1>5, <2>1, TakesFirst, TakesMore
<1>6. CASE i \notin Accepted(map)
  <2>1. UNCHANGED <<head, block, free_page_count, call, result, usable, lent>>
    BY <1>4, <1>6 DEF init_memory_manager
  <2>2. \A j \in DOMAIN map : j = Len(map) - Len(memory_map') => j \notin Accepted(map)
    BY <1>3, <1>6
  <2>. QED
    BY <1>2, <2>1, <2>2, SkipsEntry
<1>. QED
  BY <1>5, <1>6

-----------------------------------------------------------------------------
(* The invariant holds.                                                    *)

LEMMA InitInv ==
  ASSUME Init
  PROVE  MemoryInv
<1>1. head = Nothing /\ usable = {} /\ lent = {} /\ call = NoCall /\ memory_map \in MemoryMaps
  BY DEF Init
<1>2. Blocks = {} /\ Free = {}
  BY <1>1 DEF Blocks, Free
<1>3. TypeOK
  <2>1. Garbage \in Headers
    BY PagesAssumption DEF Garbage, Headers, Page
  <2>2. block \in [Page -> Headers]
    BY <2>1 DEF Init
  <2>3. free_page_count \in 0..NPages /\ head \in Page \cup {Nothing} /\ result \in Page \cup {Nothing}
    BY PagesAssumption DEF Init
  <2>. QED
    BY <1>1, <2>2, <2>3, NoCallTyped DEF TypeOK, Headers
<1>4. ListInv
  <2>1. IsRing(block, Blocks)
    BY <1>2 DEF IsRing
  <2>2. Holds(block, Blocks, Free)
    BY <1>2 DEF Holds
  <2>3. free_page_count = Cardinality(Free)
    BY <1>2, FS_EmptySet DEF Init
  <2>. QED
    BY <1>1, <1>2, <2>1, <2>2, <2>3 DEF ListInv
<1>5. LentInv
  BY <1>1 DEF LentInv
<1>6. CallInv /\ call.fn = "none"
  BY <1>1 DEF CallInv, Idle, NoCall
<1>7. MapInv
  <2>1. memory_map \in Seq([type : Nat, base : Nat, count : Nat])
    BY <1>1, PagesAssumption
  <2>2. PICK map \in MemoryMaps : map = memory_map
    BY <1>1
  <2>3. PICK seen : seen = Len(map) - Len(memory_map)
    OBVIOUS
  <2>4. seen = 0 /\ Len(memory_map) \in Nat
    BY <2>1, <2>2, <2>3
  <2>5. \A i \in 1..Len(memory_map) : memory_map[i] = map[seen + i]
    BY <2>2, <2>4
  <2>6. \A i \in Accepted(map) : ~(i < seen) /\ i # seen
    <3>1. DOMAIN map = 1..Len(memory_map)
      BY <2>1, <2>2, LenProperties
    <3>. QED
      BY <2>4, <3>1 DEF Accepted
  <2>7. MapSeen(map)
    BY <1>1, <1>2, <1>6, <2>3, <2>4, <2>5, <2>6 DEF MapSeen
  <2>. QED
    BY <1>1, <2>1, <2>7 DEF MapInv
<1>. QED
  BY <1>3, <1>4, <1>5, <1>6, <1>7 DEF MemoryInv

LEMMA Stutter ==
  ASSUME MemoryInv, UNCHANGED vars
  PROVE  MemoryInv'
<1>1. UNCHANGED <<head, block, free_page_count, call, memory_map, result, usable, lent>>
  BY DEF vars
<1>2. TypeOK /\ ListInv /\ LentInv /\ CallInv /\ MapInv
  BY DEF MemoryInv
<1>3. Blocks' = Blocks /\ Free' = Free /\ Idle' = Idle
  BY <1>1, SameList DEF Free, Idle
<1>4. \A b : Ahead(b)' <=> Ahead(b)
  BY <1>1, <1>3 DEF Ahead
<1>5. Harmless' <=> Harmless
  BY <1>1, <1>3, <1>4 DEF Harmless
<1>6. TypeOK'
  BY <1>1, <1>2 DEF TypeOK
<1>7. ListInv' /\ LentInv'
  BY <1>1, <1>2, <1>3 DEF ListInv, LentInv
<1>8. CallInv'
  BY <1>1, <1>2, <1>3, <1>5 DEF CallInv
<1>9. \A map : MapSeen(map) => MapSeen(map)'
  BY <1>1, <1>3, <1>4 DEF MapSeen, Accepted, Regions
<1>10. MapInv'
  BY <1>1, <1>2, <1>9 DEF MapInv
<1>. QED
  BY <1>6, <1>7, <1>8, <1>10 DEF MemoryInv

LEMMA NextInv ==
  ASSUME MemoryInv, [Next]_vars
  PROVE  MemoryInv'
<1>1. ASSUME NEW count \in 1..MaxCount, alloc_phys_pages(count)
      PROVE  MemoryInv'
  BY <1>1, AllocStarts
<1>2. CASE AllocRefused \/ AllocWhole \/ AllocTail \/ AllocNext
  BY <1>2, AllocRefusedInv, AllocWholeInv, AllocTailInv, AllocNextInv
<1>3. CASE FreeAppend \/ FreePrepend \/ FreeInsert \/ FreeNext
  BY <1>3, FreeAppendInv, FreePrependInv, FreeInsertInv, FreeNextInv
<1>4. CASE init_memory_manager
  BY <1>4, InitMemoryInv
<1>5. CASE FreeAgain
  BY <1>5, FreeAgainInv
<1>6. CASE UNCHANGED vars
  BY <1>6, Stutter
<1>. QED
  BY <1>1, <1>2, <1>3, <1>4, <1>5, <1>6 DEF Next, Step

(***************************************************************************)
(* The invariant of the allocator, through init_memory_manager and any     *)
(* sequence of alloc_phys_pages and free_phys_pages, for memory of any     *)
(* size: the links are one ring, its blocks are the free pages, and a walk *)
(* of free_phys_pages is never on the way to a place where it would damage *)
(* the ring.                                                               *)
(***************************************************************************)
THEOREM MemoryInvariant == Spec => []MemoryInv
<1>1. Init => MemoryInv
  BY InitInv
<1>2. MemoryInv /\ [Next]_vars => MemoryInv'
  BY NextInv
<1>. QED
  BY <1>1, <1>2, PTL DEF Spec

(***************************************************************************)
(* head and the links of every block stay page numbers, and sizes and      *)
(* free_page_count never leave the range of the memory: no subtraction of  *)
(* alloc_phys_pages wraps.                                                 *)
(***************************************************************************)
THEOREM MemoryTyped == Spec => []TypeOK
<1>1. MemoryInv => TypeOK
  BY DEF MemoryInv
<1>. QED
  BY <1>1, MemoryInvariant, PTL

(***************************************************************************)
(* Every free page is in exactly one block, no page that alloc_phys_pages  *)
(* has handed out is in any, free_page_count is their number, and the list *)
(* can be walked both ways.                                                *)
(***************************************************************************)
THEOREM ListStaysExact == Spec => []ListIsExact
<1>1. ASSUME MemoryInv
      PROVE  ListIsExact
  <2>1. /\ block \in [Page -> Headers] /\ Free \in SUBSET Page /\ Blocks \in SUBSET Page
        /\ IsRing(block, Blocks) /\ Holds(block, Blocks, Free)
        /\ free_page_count = Cardinality(Free)
    BY <1>1, Typed, Listed DEF MemoryInv
  <2>2. \A b \in Blocks : Run(b, block[b].size) \subseteq Free
    BY <2>1, BlockPages
  <2>3. \A p \in Free : \E b \in Blocks : p \in Run(b, block[b].size)
    BY <2>1 DEF Holds
  <2>4. UNION {Run(b, block[b].size) : b \in Blocks} = Free
    BY <2>2, <2>3
  <2>5. ASSUME NEW b \in Blocks, NEW c \in Blocks, b # c
        PROVE  Run(b, block[b].size) \intersect Run(c, block[c].size) = {}
    <3>1. ASSUME NEW p \in Run(b, block[b].size), p \in Run(c, block[c].size)
          PROVE  FALSE
      <4>1. p \in Int
        <5>1. p \in Page
          BY <2>1, <2>2, <3>1
        <5>. QED
          BY <5>1 DEF Page
      <4>. QED
        BY <2>1, <2>5, <3>1, <4>1, OneOwner
    <3>. QED
      BY <3>1
  <2>6. \A b \in Blocks : /\ block[b].next \in Blocks /\ block[block[b].next].prev = b
                          /\ block[b].prev \in Blocks /\ block[block[b].prev].next = b
    BY <2>1 DEF IsRing
  <2>. QED
    BY <2>1, <2>4, <2>5, <2>6 DEF ListIsExact
<1>. QED
  BY <1>1, MemoryInvariant, PTL

-----------------------------------------------------------------------------
(* The allocator is the set of pages of PageSet.                           *)

Wanted == IF call.fn = "alloc" THEN call.count ELSE 0

LEMMA NotWanted ==
  ASSUME call.fn # "alloc"
  PROVE  Wanted = 0
BY DEF Wanted

LEMMA GivesPages ==
  ASSUME MemoryInv, call.fn = "alloc", NEW page \in Page, Run(page, call.count) \subseteq Free,
         Returns(page)
  PROVE  PS!Next
<1>1. LentInv /\ TypeOK /\ call.count \in Nat /\ call.count > 0
  BY PagesAssumption DEF MemoryInv, CallInv
<1>2. page # Nothing
  BY <1>1, Typed
<1>3. /\ call'.fn = "none" /\ result' = page /\ usable' = usable
      /\ lent' = lent \cup {<<page, call.count>>}
  BY <1>2 DEF Returns, NoCall
<1>4. Free' = Free \ Run(page, call.count)
  BY <1>1, <1>3, PagesAreLent
<1>5. PS!Answer
  BY <1>1, <1>2, <1>3, <1>4 DEF PS!Answer, PS!Answers, PS!Run, Run, Nothing
<1>. QED
  BY <1>5 DEF PS!Next

LEMMA GivesNothing ==
  ASSUME MemoryInv, call.fn = "alloc", call.count = 1 => Free = {}, Returns(Nothing)
  PROVE  PS!Next
<1>1. call.count \in Nat /\ call.count > 0
  BY PagesAssumption DEF MemoryInv, CallInv
<1>2. call'.fn = "none" /\ result' = Nothing /\ usable' = usable /\ lent' = lent
  BY DEF Returns, NoCall
<1>3. Free' = Free
  BY <1>2 DEF Free
<1>4. PS!Answer
  BY <1>1, <1>2, <1>3 DEF PS!Answer, PS!Answers, Nothing
<1>. QED
  BY <1>4 DEF PS!Next

LEMMA TakesBack ==
  ASSUME MemoryInv, call.fn # "alloc", NEW base \in Page, NEW count \in 1..(NPages - 1),
         Run(base, count) \cap Free = {}, <<base, count>> \in lent \/ lent = {},
         Freed(base, count)
  PROVE  PS!Next
<1>1. LentInv
  BY DEF MemoryInv
<1>2. /\ call'.fn = "none" /\ result' = result /\ lent' = lent \ {<<base, count>>}
      /\ usable' = usable \cup Run(base, count)
  BY DEF Freed, NoCall
<1>3. Free' = Free \cup Run(base, count)
  BY <1>1, <1>2, PagesComeBack
<1>4. PS!Return(base, count)
  BY <1>2, <1>3 DEF PS!Return, PS!Run, Run
<1>5. count \in Page \ {0}
  BY PagesAssumption DEF Page
<1>. QED
  BY <1>4, <1>5 DEF PS!Next

LEMMA BlocksAreFree ==
  ASSUME MemoryInv
  PROVE  \A b \in Blocks : /\ b \in Page /\ Run(b, block[b].size) \subseteq Free
                           /\ Run(b, block[b].size) \subseteq Page
<1>1. /\ block \in [Page -> Headers] /\ Blocks \in SUBSET Page /\ Holds(block, Blocks, Free)
  BY Typed, Listed DEF MemoryInv
<1>. QED
  BY <1>1, BlockPages

LEMMA AllocRefines ==
  ASSUME MemoryInv, AllocRefused \/ AllocWhole \/ AllocTail \/ AllocNext
  PROVE  PS!Next \/ UNCHANGED <<Free, Wanted, result>>
<1>1. CASE AllocRefused
  <2>1. call.fn = "alloc" /\ TooFew /\ Returns(Nothing)
    BY <1>1 DEF AllocRefused
  <2>2. call.count = 1 => Free = {}
    <3>1. SUFFICES ASSUME call.count = 1, head # Nothing PROVE Free = {}
      BY Listed
    <3>2. free_page_count = Cardinality(Free) /\ IsFiniteSet(Free) /\ Cardinality(Free) \in 0..NPages
      BY Typed, Listed, PagesAreFinite DEF MemoryInv
    <3>3. free_page_count < 1
      BY <2>1, <3>1 DEF TooFew
    <3>4. Cardinality(Free) = 0
      BY <3>2, <3>3
    <3>. QED
      BY <3>2, <3>4, FS_EmptySet
  <2>. QED
    BY <2>1, <2>2, GivesNothing
<1>2. CASE AllocWhole
  <2>1. /\ call.fn = "alloc" /\ call.cur \in Blocks /\ Returns(call.cur)
        /\ block[call.cur].size = call.count
    BY <1>2, Looking DEF AllocWhole, Searching
  <2>2. Run(call.cur, call.count) \subseteq Free /\ call.cur \in Page
    BY <2>1, BlocksAreFree
  <2>. QED
    BY <2>1, <2>2, GivesPages
<1>3. CASE AllocTail
  <2>1. /\ call.fn = "alloc" /\ call.cur \in Blocks /\ call.cur \in Nat /\ call.count \in Nat
        /\ call.count > 0 /\ block[call.cur].size \in Nat /\ call.count < block[call.cur].size
        /\ Returns(TailOf(call.cur))
    BY <1>3, Looking DEF AllocTail, Searching
  <2>2. PICK c, n, k, page : c = call.cur /\ n = call.count /\ k = block[c].size /\ page = c + k - n
    OBVIOUS
  <2>3. /\ c \in Nat /\ n \in Nat /\ n > 0 /\ k \in Nat /\ n < k /\ Returns(page)
    BY <2>1, <2>2 DEF TailOf
  <2>4. Run(c, k) \subseteq Free /\ Run(c, k) \subseteq Page
    BY <2>1, <2>2, BlocksAreFree
  <2>5. Run(page, n) \subseteq Run(c, k) /\ page \in Run(c, k)
    BY <2>2, <2>3 DEF Run
  <2>6. page \in Page /\ Run(page, call.count) \subseteq Free
    BY <2>2, <2>4, <2>5
  <2>. QED
    BY <2>1, <2>3, <2>6, GivesPages
<1>4. CASE AllocNext
  <2>1. /\ call.fn = "alloc" /\ call.cur \in Blocks /\ call.count \in Nat /\ call.count > 0
        /\ block[call.cur].size \in Nat /\ block[call.cur].size < call.count
    BY <1>4, Looking DEF AllocNext, Searching
  <2>2. CASE block[call.cur].next = head
    <3>1. block[call.cur].size > 0
      BY <2>1, Listed DEF Holds
    <3>2. call.count # 1
      BY <2>1, <3>1
    <3>3. Returns(Nothing)
      BY <1>4, <2>2 DEF AllocNext
    <3>. QED
      BY <2>1, <3>2, <3>3, GivesNothing
  <2>3. CASE block[call.cur].next # head
    <3>1. /\ call' = [call EXCEPT !.cur = block[@].next]
          /\ UNCHANGED <<free_page_count, memory_map, result, usable, lent>>
      BY <1>4, <2>3 DEF AllocNext
    <3>2. call'.fn = call.fn /\ call'.count = call.count
      BY <3>1 DEF MemoryInv, TypeOK
    <3>3. Free' = Free
      BY <3>1 DEF Free
    <3>. QED
      BY <3>1, <3>2, <3>3 DEF Wanted
  <2>. QED
    BY <2>2, <2>3
<1>. QED
  BY <1>1, <1>2, <1>3, <1>4

LEMMA FreeRefines ==
  ASSUME MemoryInv, FreeAppend \/ FreePrepend \/ FreeInsert \/ FreeNext
  PROVE  PS!Next \/ UNCHANGED <<Free, Wanted, result>>
<1>1. CASE FreeAppend \/ FreePrepend \/ FreeInsert
  <2>1. call.fn = "free" /\ Freed(call.base, call.count)
    BY <1>1 DEF FreeAppend, FreePrepend, FreeInsert, Follows, Precedes, Between, FreeDone
  <2>2. /\ call.base \in Page /\ call.count \in 1..(NPages - 1)
        /\ Run(call.base, call.count) \cap Free = {}
    BY <2>1, Freeing
  <2>3. <<call.base, call.count>> \in lent \/ lent = {}
    BY <2>1 DEF MemoryInv, CallInv
  <2>4. call.fn # "alloc"
    BY <2>1
  <2>. QED
    BY <2>1, <2>2, <2>3, <2>4, TakesBack
<1>2. CASE FreeNext
  <2>1. /\ call.fn = "free" /\ call' = [call EXCEPT !.cur = block[@].next]
        /\ UNCHANGED <<memory_map, result, usable, lent>>
    BY <1>2 DEF FreeNext
  <2>2. call'.fn = "free"
    BY <2>1 DEF MemoryInv, TypeOK
  <2>3. Free' = Free
    BY <2>1 DEF Free
  <2>. QED
    BY <2>1, <2>2, <2>3 DEF Wanted
<1>. QED
  BY <1>1, <1>2

\* A call of free_phys_pages: the first block, or the beginning of a walk.
LEMMA FreeCallRefines ==
  ASSUME MemoryInv, Idle, NEW base \in Page, NEW count \in 1..(NPages - 1),
         <<base, count>> \in lent \/ lent = {}, free_phys_pages(base, count)
  PROVE  PS!Next \/ UNCHANGED <<Free, Wanted, result>>
<1>1. call.fn = "none"
  BY DEF Idle, NoCall
<1>2. CASE head = Nothing
  <2>1. Freed(base, count)
    BY <1>2 DEF free_phys_pages
  <2>2. Run(base, count) \cap Free = {}
    BY <1>2, Listed
  <2>. QED
    BY <1>1, <2>1, <2>2, TakesBack
<1>3. CASE head # Nothing
  <2>1. call'.fn = "free" /\ UNCHANGED <<result, usable, lent>>
    BY <1>3 DEF free_phys_pages
  <2>2. Free' = Free
    BY <2>1 DEF Free
  <2>. QED
    BY <1>1, <2>1, <2>2 DEF Wanted
<1>. QED
  BY <1>2, <1>3

(***************************************************************************)
(* Whatever the list looks like, and however far a walk over it has come,  *)
(* the allocator is a set of pages: a request is answered with pages that  *)
(* nobody owns, one page is refused only when there is none, and pages     *)
(* come back only when nobody else has them.                               *)
(***************************************************************************)
THEOREM AllocatorIsPageSet == Spec => IsPageSet
<1>1. Init => PS!Init
  <2>1. SUFFICES ASSUME Init PROVE PS!Init
    OBVIOUS
  <2>2. Free = {} /\ call.fn = "none" /\ result = Nothing
    BY <2>1 DEF Init, Free, NoCall
  <2>. QED
    BY <2>2 DEF PS!Init, Nothing
<1>2. MemoryInv /\ [Next]_vars
        => [PS!Next]_<<Free, IF call.fn = "alloc" THEN call.count ELSE 0, result>>
  <2>1. SUFFICES ASSUME MemoryInv, [Next]_vars
                 PROVE  PS!Next \/ UNCHANGED <<Free, Wanted, result>>
    BY DEF Wanted
  <2>2. ASSUME NEW count \in 1..MaxCount, alloc_phys_pages(count)
        PROVE  PS!Next
    <3>1. /\ Wanted = 0 /\ call'.fn = "alloc" /\ call'.count = count
          /\ UNCHANGED <<result, usable, lent>>
      BY <2>2, NotWanted DEF alloc_phys_pages, Idle, NoCall
    <3>2. Free' = Free
      BY <3>1 DEF Free
    <3>3. count \in Page \ {0}
      BY PagesAssumption DEF Page
    <3>4. PS!Ask(count)
      BY <3>1, <3>2 DEF PS!Ask, Wanted
    <3>. QED
      BY <3>3, <3>4 DEF PS!Next
  <2>3. CASE init_memory_manager
    <3>1. memory_map # <<>> /\ memory_map' = Tail(memory_map) /\ Idle
      BY <2>3 DEF init_memory_manager
    <3>2. PICK map \in MemoryMaps : MapSeen(map)
      BY <2>1, <3>1 DEF MemoryInv, MapInv
    <3>3. PICK i \in DOMAIN map : i - 1 = Len(map) - Len(memory_map) /\ Head(memory_map) = map[i]
      BY <2>1, <3>1, <3>2, NextEntry
    <3>4. lent = {}
      BY <2>1, <3>1 DEF MemoryInv, MapInv
    <3>5. CASE i \in Accepted(map)
      <4>1. free_phys_pages(map[i].base, map[i].count)
        BY <2>3, <3>2, <3>3, <3>5, NothingIsCutOff DEF init_memory_manager, Accepted
      <4>2. map[i].base \in Page /\ map[i].count \in 1..(NPages - 1)
        BY <2>1, <2>3, <3>2, <3>3, <3>5, TakenEntry
      <4>. QED
        BY <2>1, <3>1, <3>4, <4>1, <4>2, FreeCallRefines
    <3>6. CASE i \notin Accepted(map)
      <4>1. UNCHANGED <<call, result, usable, lent>>
        BY <2>3, <3>3, <3>6 DEF init_memory_manager, Accepted
      <4>2. Free' = Free /\ Wanted' = Wanted
        BY <4>1 DEF Free, Wanted
      <4>. QED
        BY <4>1, <4>2
    <3>. QED
      BY <3>5, <3>6
  <2>4. CASE FreeAgain
    <3>1. PICK r \in lent : free_phys_pages(r[1], r[2])
      BY <2>4 DEF FreeAgain
    <3>2. r \in Page \X (1..MaxCount)
      BY <2>1, <3>1 DEF MemoryInv, TypeOK
    <3>3. PICK base, count : base = r[1] /\ count = r[2]
      OBVIOUS
    <3>4. <<base, count>> \in lent /\ base \in Page /\ count \in 1..MaxCount
      BY <3>1, <3>2, <3>3
    <3>5. count \in 1..(NPages - 1)
      BY <3>4, PagesAssumption
    <3>6. Idle /\ free_phys_pages(base, count)
      BY <2>4, <3>1, <3>3 DEF FreeAgain
    <3>. QED
      BY <2>1, <3>4, <3>5, <3>6, FreeCallRefines
  <2>5. CASE UNCHANGED vars
    <3>1. UNCHANGED <<call, result, usable, lent>>
      BY <2>5 DEF vars
    <3>. QED
      BY <3>1 DEF Free, Wanted
  <2>. QED
    BY <2>1, <2>2, <2>3, <2>4, <2>5, AllocRefines, FreeRefines DEF Next, Step
<1>. QED
  BY <1>1, <1>2, MemoryInvariant, PTL DEF Spec, IsPageSet, PS!Spec
=============================================================================
