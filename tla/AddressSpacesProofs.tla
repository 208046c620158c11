------------------------ MODULE AddressSpacesProofs ------------------------
(***************************************************************************)
(* Proofs about the virtual memory: SpacesInv of AddressSpacesProps is an  *)
(* inductive invariant, and the five properties follow from it.            *)
(***************************************************************************)
EXTENDS AddressSpacesProps, FiniteSetTheorems, WellFoundedInduction, TLAPS

USE DEF UserTable, TssTable, LowTable, HighTable, ImageTable, kernel_page_dir, VideoMemory, None

-----------------------------------------------------------------------------
(* Arithmetic.                                                             *)

LEMMA DivMod ==
  ASSUME NEW b \in Nat \ {0}, NEW q \in Nat, NEW r \in 0..(b - 1), NEW a \in Nat,
         a = b * q + r
  PROVE  a \div b = q /\ (a % b) = r
<1>2. /\ a = b * (a \div b) + (a % b) /\ (a % b) \in 0..(b - 1) /\ (a \div b) \in Int
  OBVIOUS
<1>3. PICK d \in Int, m \in 0..(b - 1) : d = a \div b /\ m = (a % b)
  BY <1>2
<1>4. b * q + r = b * d + m
  BY <1>2, <1>3
<1>5. ~(d < q)
  <2>1. SUFFICES ASSUME d < q PROVE FALSE
    OBVIOUS
  <2>2. PICK k \in Nat : q = d + 1 + k
    BY <2>1
  <2>3. b * q = b * d + b + b * k /\ b * k >= 0
    BY <2>2
  <2>. QED
    BY <2>3, <1>4
<1>6. ~(q < d)
  <2>1. SUFFICES ASSUME q < d PROVE FALSE
    OBVIOUS
  <2>2. PICK k \in Nat : d = q + 1 + k
    BY <2>1
  <2>3. b * d = b * q + b + b * k /\ b * k >= 0
    BY <2>2
  <2>. QED
    BY <2>3, <1>4
<1>7. d = q /\ m = r
  BY <1>4, <1>5, <1>6
<1>. QED
  BY <1>3, <1>7

\* In which table a page of kernel memory is, and where in it.
LEMMA KernelPlace ==
  ASSUME NEW v \in KernelPages
  PROVE  /\ TableOf(v) = IF v < 3 * PerTable THEN LowTable ELSE HighTable
         /\ SlotOf(v) = IF v < 3 * PerTable THEN v - 2 * PerTable ELSE v - 3 * PerTable
         /\ SlotOf(v) \in Index
<1>1. CASE v < 3 * PerTable
  <2>1. v = PerTable * 2 + (v - 2 * PerTable) /\ v - 2 * PerTable \in 0..(PerTable - 1) /\ v \in Nat
    BY <1>1, SizesAssumption DEF KernelPages, KernelStart, KernelTop
  <2>2. TableOf(v) = 2 /\ SlotOf(v) = v - 2 * PerTable
    BY <2>1, DivMod, SizesAssumption DEF TableOf, SlotOf
  <2>. QED
    BY <2>1, <2>2, <1>1 DEF Index
<1>2. CASE ~(v < 3 * PerTable)
  <2>1. v = PerTable * 3 + (v - 3 * PerTable) /\ v - 3 * PerTable \in 0..(PerTable - 1) /\ v \in Nat
    BY <1>2, SizesAssumption DEF KernelPages, KernelStart, KernelTop
  <2>2. TableOf(v) = 3 /\ SlotOf(v) = v - 3 * PerTable
    BY <2>1, DivMod, SizesAssumption DEF TableOf, SlotOf
  <2>. QED
    BY <2>1, <2>2, <1>2 DEF Index
<1>. QED
  BY <1>1, <1>2

LEMMA UserPlaces ==
  /\ TableOf(ImagePage) = UserTable /\ SlotOf(ImagePage) = ImagePage
  /\ TableOf(StackPage) = UserTable /\ SlotOf(StackPage) = StackPage
  /\ TableOf(TssPage) = TssTable /\ SlotOf(TssPage) = PerTable - 3
  /\ ImagePage \in Index /\ StackPage \in Index /\ PerTable - 3 \in Index
  /\ ImagePage # StackPage
<1>1. ImagePage = PerTable * 0 + ImagePage /\ ImagePage \in 0..(PerTable - 1) /\ ImagePage \in Nat
  BY SizesAssumption DEF ImagePage
<1>2. StackPage = PerTable * 0 + StackPage /\ StackPage \in 0..(PerTable - 1) /\ StackPage \in Nat
  BY SizesAssumption DEF StackPage
<1>3. TssPage = PerTable * 1 + (PerTable - 3) /\ PerTable - 3 \in 0..(PerTable - 1) /\ TssPage \in Nat
  BY SizesAssumption DEF TssPage
<1>4. /\ TableOf(ImagePage) = 0 /\ SlotOf(ImagePage) = ImagePage
  BY <1>1, DivMod, SizesAssumption DEF TableOf, SlotOf
<1>5. /\ TableOf(StackPage) = 0 /\ SlotOf(StackPage) = StackPage
  BY <1>2, DivMod, SizesAssumption DEF TableOf, SlotOf
<1>6. /\ TableOf(TssPage) = 1 /\ SlotOf(TssPage) = PerTable - 3
  BY <1>3, DivMod, SizesAssumption DEF TableOf, SlotOf
<1>7. ImagePage # StackPage
  BY SizesAssumption DEF ImagePage, StackPage
<1>. QED
  BY <1>1, <1>2, <1>3, <1>4, <1>5, <1>6, <1>7 DEF Index

\* The last of some free pages.
LEMMA FreePage ==
  ASSUME MemoryOK, NEW f \in SUBSET memory, f # {}
  PROVE  Pick(f) \in f
<1>1. PICK top \in Nat : memory \subseteq 0..top
  <2>1. PICK size \in Sizes : memory = LowPages..(LowPages + size - 1)
    BY DEF MemoryOK
  <2>2. size \in Nat /\ size >= 2
    BY SizesAssumption
  <2>3. LowPages + size - 1 \in Nat /\ memory \subseteq 0..(LowPages + size - 1)
    BY <2>1, <2>2, SizesAssumption
  <2>. QED
    BY <2>3
<1>2. PICK below \in SUBSET Nat : below = {n \in Nat : top - n \in f}
  OBVIOUS
<1>3. PICK p \in f : TRUE
  OBVIOUS
<1>4. top - p \in below
  BY <1>1, <1>2
<1>5. PICK Less : Less = {ss \in Nat \X Nat : ss[1] < ss[2]}
  OBVIOUS
<1>6. IsWellFoundedOn(Less, Nat)
  BY <1>5, NatLessThanWellFounded DEF OpToRel
<1>7. PICK n \in below : \A m \in below : n <= m
  <2>1. PICK n \in below : \A m \in below : <<m, n>> \notin Less
    BY <1>4, <1>6, WFMin
  <2>2. \A m, k \in Nat : m < k => <<m, k>> \in Less
    BY <1>5
  <2>3. \A m \in below : n <= m
    <3>1. TAKE m \in below
    <3>2. m \in Nat /\ n \in Nat
      BY <1>2
    <3>3. ~(m < n)
      BY <3>2, <2>1, <2>2
    <3>. QED
      BY <3>2, <3>3
  <2>. QED
    BY <2>3
<1>8. top - n \in f /\ \A q \in f : q <= top - n
  <2>1. \A q \in f : q \in Int /\ top - q \in Nat /\ top - (top - q) = q
    BY <1>1
  <2>2. \A q \in f : top - q \in below
    BY <2>1, <1>2
  <2>3. n \in Nat /\ top - n \in f
    BY <1>2
  <2>. QED
    BY <1>7, <2>1, <2>2, <2>3
<1>. QED
  BY <1>8 DEF Pick

-----------------------------------------------------------------------------
(* The blocks and their table do not meet in the middle of kernel memory.  *)

LEMMA Room ==
  ASSUME NEW n \in 1..(7 + 3 * MaxProcesses), NEW length \in Nat \ {0},
         length = 1 \/ PerPage * (length - 1) < n
  PROVE  n + length <= 2 * PerTable
<1>1. PICK k \in Nat : PerPage = 8 + k
  <2>1. PerPage - 8 \in Nat /\ PerPage = 8 + (PerPage - 8)
    BY SizesAssumption
  <2>. QED
    BY <2>1
<1>2. PerPage * (length - 1) = 8 * (length - 1) + k * (length - 1) /\ k * (length - 1) >= 0
  BY <1>1
<1>3. 8 * (length - 1) < n
  BY <1>1, <1>2
<1>. QED
  BY <1>3, SizesAssumption, RoomAssumption

Length == blocks[Len(blocks)].length
Lowest == KernelTop + 1 - Len(blocks)   \* the page below the blocks

LEMMA Shape ==
  ASSUME BlocksShape
  PROVE  /\ Len(blocks) \in Nat \ {0} /\ Length \in Nat \ {0}
         /\ DOMAIN blocks = 1..Len(blocks)
         /\ blocks[Len(blocks)] = [base |-> KernelStart, length |-> Length]
         /\ \A i \in 1..(Len(blocks) - 1) : blocks[i] = [base |-> KernelTop + 1 - i, length |-> 1]
         /\ Len(blocks) + Length <= 2 * PerTable
         /\ Lowest \in KernelPages /\ KernelStart + Length <= Lowest
         /\ Len(blocks) <= 7 + 3 * MaxProcesses
         /\ Len(blocks) <= block_table_size /\ block_table_size = PerPage * Length
         /\ Length = 1 \/ PerPage * (Length - 1) < Len(blocks)
<1>1. PICK n, length : n = Len(blocks) /\ length = Length
  OBVIOUS
<1>2. /\ n \in 1..(7 + 3 * MaxProcesses) /\ length \in Nat \ {0}
      /\ blocks = [i \in 1..n |-> IF i = n THEN [base |-> KernelStart, length |-> length]
                                          ELSE [base |-> KernelTop + 1 - i, length |-> 1]]
      /\ n <= block_table_size /\ block_table_size = PerPage * length
      /\ length = 1 \/ PerPage * (length - 1) < n
  BY <1>1 DEF BlocksShape, Length
<1>3. n + length <= 2 * PerTable
  BY <1>2, Room
<1>4. n \in Nat \ {0} /\ n <= 7 + 3 * MaxProcesses
  BY <1>2, SizesAssumption
<1>5. /\ DOMAIN blocks = 1..n
      /\ blocks[n] = [base |-> KernelStart, length |-> length]
      /\ \A i \in 1..(n - 1) : blocks[i] = [base |-> KernelTop + 1 - i, length |-> 1]
  BY <1>2, <1>4
<1>6. KernelTop + 1 - n \in KernelPages /\ KernelStart + length <= KernelTop + 1 - n
  BY <1>2, <1>3, <1>4, SizesAssumption DEF KernelPages, KernelStart, KernelTop
<1>. QED
  BY <1>1, <1>2, <1>3, <1>4, <1>5, <1>6 DEF Lowest

LEMMA CandidateIs ==
  ASSUME BlocksShape, NEW i \in 0..(Len(blocks) - 1)
  PROVE  Candidate(i) = KernelTop - i
<1>1. CASE i = 0
  BY <1>1, SizesAssumption DEF Candidate, KernelTop
<1>2. CASE i \in 1..(Len(blocks) - 1)
  <2>1. blocks[i].base = KernelTop + 1 - i
    <3>1. \A j \in 1..(Len(blocks) - 1) : blocks[j] = [base |-> KernelTop + 1 - j, length |-> 1]
      BY Shape
    <3>2. blocks[i] = [base |-> KernelTop + 1 - i, length |-> 1]
      BY <1>2, <3>1
    <3>. QED
      BY <3>2
  <2>2. i \in Int /\ i # 0
    BY <1>2
  <2>3. KernelTop \in Int
    BY SizesAssumption DEF KernelTop
  <2>4. Candidate(i) = blocks[i].base - 1
    BY <2>2 DEF Candidate
  <2>. QED
    BY <2>1, <2>2, <2>3, <2>4
<1>. QED
  BY <1>1, <1>2, Shape

LEMMA PlaceIs ==
  ASSUME BlocksShape
  PROVE  /\ Place = Len(blocks) - 1
         /\ Candidate(Place) = Lowest
<1>1. PICK n \in Nat \ {0} : n = Len(blocks)
  BY Shape
<1>2. \A j \in 1..(n - 1) : Covers(blocks[j], Candidate(j - 1))
  <2>1. TAKE j \in 1..(n - 1)
  <2>2. blocks[j] = [base |-> KernelTop + 1 - j, length |-> 1]
    BY <1>1, Shape
  <2>3. Candidate(j - 1) = KernelTop - (j - 1)
    BY <1>1, CandidateIs
  <2>. QED
    BY <2>2, <2>3, SizesAssumption DEF Covers, KernelTop
<1>3. ~Covers(blocks[n], Candidate(n - 1))
  <2>1. Candidate(n - 1) = KernelTop - (n - 1)
    BY <1>1, CandidateIs
  <2>2. KernelTop - (n - 1) = Lowest /\ Lowest \in Int
    BY <1>1, SizesAssumption DEF Lowest, KernelTop
  <2>. QED
    BY <1>1, <2>1, <2>2, Shape, SizesAssumption DEF Covers, KernelStart
<1>4. ASSUME NEW i \in 0..n,
             \A j \in 1..i : Covers(blocks[j], Candidate(j - 1)),
             i = n \/ ~Covers(blocks[i + 1], Candidate(i))
      PROVE  i = n - 1
  <2>1. i # n
    <3>1. SUFFICES ASSUME i = n PROVE FALSE
      OBVIOUS
    <3>. QED
      BY <3>1, <1>1, <1>3, <1>4
  <2>2. ~(i < n - 1)
    <3>1. SUFFICES ASSUME i < n - 1 PROVE FALSE
      OBVIOUS
    <3>2. i + 1 \in 1..(n - 1) /\ (i + 1) - 1 = i
      BY <3>1
    <3>. QED
      BY <3>1, <3>2, <1>2, <1>4
  <2>. QED
    BY <2>1, <2>2
<1>5. Place = n - 1
  <2>1. n - 1 \in 0..n /\ (n - 1) + 1 = n
    OBVIOUS
  <2>2. \E i \in 0..n : /\ \A j \in 1..i : Covers(blocks[j], Candidate(j - 1))
                        /\ i = n \/ ~Covers(blocks[i + 1], Candidate(i))
    BY <2>1, <1>2, <1>3
  <2>. QED
    BY <2>2, <1>1, <1>4 DEF Place
<1>6. n - 1 \in 0..(n - 1)
  OBVIOUS
<1>7. Candidate(n - 1) = KernelTop - (n - 1)
  BY <1>1, <1>6, CandidateIs
<1>. QED
  BY <1>1, <1>5, <1>7, SizesAssumption DEF Lowest, KernelTop

-----------------------------------------------------------------------------
(* What map_pages does to the tables e: it puts a page into the table t,   *)
(* which it may first have to make.                                        *)

Put(e, t, j, page) ==
  [e EXCEPT ![t] = [i \in DOMAIN @ \cup {j} |-> IF i = j THEN page ELSE @[i]]]
NewTable(e, dir, i, t) ==
  [p \in DOMAIN e \cup {t} |->
     CASE p = t -> << >>
       [] p = dir -> [j \in DOMAIN e[dir] \cup {i} |-> IF j = i THEN t ELSE e[dir][j]]
       [] OTHER -> e[p]]

LEMMA MappedPuts ==
  ASSUME NEW f, NEW e, NEW dir, NEW v, NEW page, NEW i, i = TableOf(v), i \in DOMAIN e[dir]
  PROVE  Mapped(f, e, dir, v, page)
           = [ok |-> TRUE, free |-> f, entry |-> Put(e, e[dir][i], SlotOf(v), page)]
BY Zenon DEF Mapped, Put

LEMMA MappedFails ==
  ASSUME NEW e, NEW dir, NEW v, NEW page, TableOf(v) \notin DOMAIN e[dir]
  PROVE  Mapped({}, e, dir, v, page) = [ok |-> FALSE, free |-> {}, entry |-> e]
BY Zenon DEF Mapped

LEMMA MappedMakes ==
  ASSUME NEW f, f # {}, NEW e, NEW dir, NEW v, NEW page,
         NEW i, i = TableOf(v), i \notin DOMAIN e[dir]
  PROVE  Mapped(f, e, dir, v, page)
           = [ok |-> TRUE, free |-> Rest(f),
              entry |-> Put(NewTable(e, dir, i, Pick(f)), Pick(f), SlotOf(v), page)]
BY DEF Mapped, Put, NewTable

\* What an address of the kernel is translated to, with the tables e.
At(e, v) ==
  IF TableOf(v) \notin DOMAIN e[kernel_page_dir] THEN None
  ELSE LET t == e[e[kernel_page_dir][TableOf(v)]]
       IN  IF SlotOf(v) \in DOMAIN t THEN t[SlotOf(v)] ELSE None

LEMMA KernelAt == \A v : Kernel(v) = At(entry, v)
BY Zenon DEF Kernel, Translated, At

\* The directory and the tables of the kernel are different pages.
Separate(e) ==
  LET dir == e[kernel_page_dir]
  IN  /\ kernel_page_dir \in DOMAIN e
      /\ \A i \in DOMAIN dir : dir[i] \in DOMAIN e /\ dir[i] # kernel_page_dir
      /\ \A i, j \in DOMAIN dir : dir[i] = dir[j] => i = j

LEMMA PutKeepsDirectory ==
  ASSUME NEW e, Separate(e), NEW i \in DOMAIN e[kernel_page_dir], NEW j, NEW page
  PROVE  Put(e, e[kernel_page_dir][i], j, page)[kernel_page_dir] = e[kernel_page_dir]
BY DEF Put, Separate

LEMMA PutKernel ==
  ASSUME NEW e, Separate(e), NEW v \in KernelPages, NEW page,
         TableOf(v) \in DOMAIN e[kernel_page_dir],
         NEW t, t = e[kernel_page_dir][TableOf(v)],
         NEW e2, e2 = Put(e, t, SlotOf(v), page)
  PROVE  /\ DOMAIN e2 = DOMAIN e /\ e2[kernel_page_dir] = e[kernel_page_dir] /\ Separate(e2)
         /\ \A p \in DOMAIN e \ {t} : e2[p] = e[p]
         /\ \A w \in KernelPages : At(e2, w) = IF w = v THEN page ELSE At(e, w)
<1>1. t \in DOMAIN e /\ t # kernel_page_dir /\ kernel_page_dir \in DOMAIN e
  BY DEF Separate
<1>2. /\ DOMAIN e2 = DOMAIN e
      /\ \A p \in DOMAIN e \ {t} : e2[p] = e[p]
      /\ e2[t] = [i \in DOMAIN e[t] \cup {SlotOf(v)} |->
                    IF i = SlotOf(v) THEN page ELSE e[t][i]]
  BY <1>1 DEF Put
<1>3. e2[kernel_page_dir] = e[kernel_page_dir]
  BY <1>1, <1>2
<1>4. Separate(e2)
  BY <1>2, <1>3 DEF Separate
<1>5. ASSUME NEW w \in KernelPages
      PROVE  At(e2, w) = IF w = v THEN page ELSE At(e, w)
  <2>1. PICK i, j : i = TableOf(w) /\ j = SlotOf(w)
    OBVIOUS
  <2>2. PICK vi, vj : vi = TableOf(v) /\ vj = SlotOf(v)
    OBVIOUS
  <2>3. w = v <=> i = vi /\ j = vj
    BY <2>1, <2>2, KernelPlace, SizesAssumption DEF KernelPages, KernelStart, KernelTop
  <2>4. CASE i \notin DOMAIN e[kernel_page_dir]
    BY <2>1, <2>2, <2>3, <2>4, <1>3 DEF At
  <2>5. CASE i \in DOMAIN e[kernel_page_dir] /\ i # vi
    <3>1. e[kernel_page_dir][i] \in DOMAIN e \ {t}
      BY <2>5, <2>2 DEF Separate
    <3>2. e2[e2[kernel_page_dir][i]] = e[e[kernel_page_dir][i]]
      BY <3>1, <1>2, <1>3
    <3>. QED
      BY <2>1, <2>3, <2>5, <3>2, <1>3 DEF At
  <2>6. CASE i = vi
    <3>1. e2[e2[kernel_page_dir][i]] = e2[t] /\ e[e[kernel_page_dir][i]] = e[t]
      BY <2>6, <2>2, <1>3
    <3>2. At(e2, w) = IF j \in DOMAIN e2[t] THEN e2[t][j] ELSE None
      BY <3>1, <2>1, <2>2, <2>6, <1>3 DEF At
    <3>3. At(e, w) = IF j \in DOMAIN e[t] THEN e[t][j] ELSE None
      BY <3>1, <2>1, <2>2, <2>6 DEF At
    <3>4. e2[t] = [k \in DOMAIN e[t] \cup {vj} |-> IF k = vj THEN page ELSE e[t][k]]
      BY <1>2, <2>2
    <3>. QED
      BY <3>2, <3>3, <3>4, <2>3, <2>6
  <2>. QED
    BY <2>4, <2>5, <2>6
<1>. QED
  BY <1>2, <1>3, <1>4, <1>5

-----------------------------------------------------------------------------
(* Uses, as what is made of the tables e and of the processes.             *)

KernelUses(e) ==
  {<<<<"kernel", v, "page">>, At(e, v)>> : v \in {w \in KernelPages : At(e, w) # None}}
    \cup {<<<<"kernel", i, "table">>, e[kernel_page_dir][i]>> :
            i \in DOMAIN e[kernel_page_dir] \ {UserTable, ImageTable}}
ProcessUses(ps, nw) ==
  (UNION {Holds(ps[i], "process", i) : i \in DOMAIN ps}) \cup Holds(nw, "process", 0)

LEMMA UsesAre == Uses = KernelUses(entry) \cup ProcessUses(procs, new)
<1>1. UsedKernelPages = {w \in KernelPages : At(entry, w) # None}
  BY KernelAt DEF UsedKernelPages
<1>2. {<<<<"kernel", v, "page">>, Kernel(v)>> : v \in UsedKernelPages}
         = {<<<<"kernel", v, "page">>, At(entry, v)>> : v \in UsedKernelPages}
  BY KernelAt
<1>. QED
  BY <1>1, <1>2 DEF Uses, KernelUses, ProcessUses

LEMMA PutUses ==
  ASSUME NEW e, NEW e2, NEW v \in KernelPages, NEW page, page # None, At(e, v) = None,
         e2[kernel_page_dir] = e[kernel_page_dir],
         At(e2, v) = page, \A w \in KernelPages \ {v} : At(e2, w) = At(e, w)
  PROVE  KernelUses(e2) = KernelUses(e) \cup {<<<<"kernel", v, "page">>, page>>}
<1>1. {w \in KernelPages : At(e2, w) # None} = {w \in KernelPages : At(e, w) # None} \cup {v}
  OBVIOUS
<1>2. {<<<<"kernel", w, "page">>, At(e2, w)>> : w \in {x \in KernelPages : At(e2, x) # None}}
        = {<<<<"kernel", w, "page">>, At(e, w)>> : w \in {x \in KernelPages : At(e, x) # None}}
             \cup {<<<<"kernel", v, "page">>, page>>}
  BY <1>1
<1>. QED
  BY <1>2 DEF KernelUses

LEMMA SameUses ==
  ASSUME NEW e, NEW e2, e2[kernel_page_dir] = e[kernel_page_dir],
         \A w \in KernelPages : At(e2, w) = At(e, w)
  PROVE  KernelUses(e2) = KernelUses(e)
<1>1. {w \in KernelPages : At(e2, w) # None} = {w \in KernelPages : At(e, w) # None}
  OBVIOUS
<1>2. {<<<<"kernel", w, "page">>, At(e2, w)>> : w \in {x \in KernelPages : At(e2, x) # None}}
        = {<<<<"kernel", w, "page">>, At(e, w)>> : w \in {x \in KernelPages : At(e, x) # None}}
  BY <1>1
<1>. QED
  BY <1>2 DEF KernelUses

LEMMA NewTableUses ==
  ASSUME NEW e, NEW e2, NEW t, NEW i \in {LowTable, HighTable}, i \notin DOMAIN e[kernel_page_dir],
         DOMAIN e2[kernel_page_dir] = DOMAIN e[kernel_page_dir] \cup {i},
         e2[kernel_page_dir][i] = t,
         \A j \in DOMAIN e[kernel_page_dir] : e2[kernel_page_dir][j] = e[kernel_page_dir][j],
         \A w \in KernelPages : At(e2, w) = At(e, w)
  PROVE  KernelUses(e2) = KernelUses(e) \cup {<<<<"kernel", i, "table">>, t>>}
<1>1. {<<<<"kernel", w, "page">>, At(e2, w)>> : w \in {x \in KernelPages : At(e2, x) # None}}
        = {<<<<"kernel", w, "page">>, At(e, w)>> : w \in {x \in KernelPages : At(e, x) # None}}
  OBVIOUS
<1>3. {<<<<"kernel", j, "table">>, e2[kernel_page_dir][j]>> :
         j \in DOMAIN e2[kernel_page_dir] \ {UserTable, ImageTable}}
        = {<<<<"kernel", j, "table">>, e[kernel_page_dir][j]>> :
             j \in DOMAIN e[kernel_page_dir] \ {UserTable, ImageTable}}
          \cup {<<<<"kernel", i, "table">>, t>>}
  OBVIOUS
<1>. QED
  BY <1>1, <1>3 DEF KernelUses

\* The page nw[name] gets its use.
LEMMA NewUses ==
  ASSUME NEW ps, NEW nw, NEW name \in PageNames, name \notin DOMAIN nw, NEW page
  PROVE  ProcessUses(ps, With(nw, name, page))
           = ProcessUses(ps, nw) \cup {<<<<"process", 0, name>>, page>>}
<1>1. /\ DOMAIN With(nw, name, page) = DOMAIN nw \cup {name}
      /\ With(nw, name, page)[name] = page
      /\ \A n \in DOMAIN nw : With(nw, name, page)[n] = nw[n]
  BY DEF With
<1>2. Holds(With(nw, name, page), "process", 0)
        = Holds(nw, "process", 0) \cup {<<<<"process", 0, name>>, page>>}
  BY <1>1 DEF Holds, PageNames
<1>. QED
  BY <1>2 DEF ProcessUses

\* What new has of kernel memory is not counted there.
LEMMA KernelNames ==
  ASSUME NEW ps, NEW nw, NEW name, name \notin PageNames, NEW page
  PROVE  ProcessUses(ps, With(nw, name, page)) = ProcessUses(ps, nw)
<1>1. /\ DOMAIN With(nw, name, page) = DOMAIN nw \cup {name}
      /\ \A n \in DOMAIN nw \ {name} : With(nw, name, page)[n] = nw[n]
  BY DEF With
<1>2. Holds(With(nw, name, page), "process", 0) = Holds(nw, "process", 0)
  BY <1>1 DEF Holds, PageNames
<1>. QED
  BY <1>2 DEF ProcessUses

\* OneUseEach for the uses u and the free pages f.
Exclusive(u, f) ==
  /\ \A a, b \in u : a[2] = b[2] => a = b
  /\ {a[2] : a \in u} \ {VideoMemory} = memory \ f

LEMMA ExclusiveAdds ==
  ASSUME NEW u, NEW f \in SUBSET memory, Exclusive(u, f), VideoMemory \notin memory,
         NEW page \in f, NEW use
  PROVE  Exclusive(u \cup {<<use, page>>}, f \ {page})
<1>1. page # VideoMemory
  OBVIOUS
<1>2. \A a \in u : a[2] # page
  BY DEF Exclusive
<1>3. <<use, page>>[2] = page
  OBVIOUS
<1>4. {a[2] : a \in u \cup {<<use, page>>}} = {a[2] : a \in u} \cup {page}
  BY <1>3, Zenon
<1>. QED
  BY <1>1, <1>2, <1>3, <1>4 DEF Exclusive

LEMMA ExclusiveVideo ==
  ASSUME NEW u, NEW f \in SUBSET memory, Exclusive(u, f), NEW use,
         \A a \in u : a[2] # VideoMemory
  PROVE  Exclusive(u \cup {<<use, VideoMemory>>}, f)
<1>1. <<use, VideoMemory>>[2] = VideoMemory
  OBVIOUS
<1>2. {a[2] : a \in u \cup {<<use, VideoMemory>>}} = {a[2] : a \in u} \cup {VideoMemory}
  BY <1>1, Zenon
<1>. QED
  BY <1>1, <1>2 DEF Exclusive

LEMMA OneUseIs == OneUseEach <=> Exclusive(Uses, free)
BY DEF OneUseEach, Exclusive

-----------------------------------------------------------------------------
(* The entries are pages.                                                  *)

EntriesTyped(e) ==
  \A p \in DOMAIN e : /\ p \in memory \cup 1..3
                      /\ DOMAIN e[p] \subseteq Index
                      /\ \A i \in DOMAIN e[p] : e[p][i] \in Targets

LEMMA MemorySize ==
  ASSUME MemoryOK
  PROVE  /\ memory \subseteq Targets /\ 0..PerTable \subseteq Targets
         /\ \A page \in memory, i \in Index : page + i - LowPages \in Targets
         /\ \A p \in memory : p \in Int /\ p >= LowPages
         /\ 0 \notin memory /\ memory \cap 1..3 = {} /\ None \notin memory
<1>1. PICK size \in Sizes : memory = LowPages..(LowPages + size - 1)
  BY DEF MemoryOK
<1>2. size \in Nat /\ size >= 2
  BY SizesAssumption
<1>3. Cardinality(memory) = size
  BY <1>1, <1>2, FS_Interval, SizesAssumption
<1>. QED
  BY <1>1, <1>2, <1>3, SizesAssumption DEF Targets, Index

LEMMA PutTyped ==
  ASSUME NEW e, EntriesTyped(e), NEW t \in DOMAIN e, NEW j \in Index, NEW page \in Targets,
         NEW e2, e2 = Put(e, t, j, page)
  PROVE  EntriesTyped(e2)
<1>1. /\ DOMAIN e2 = DOMAIN e
      /\ e2[t] = [i \in DOMAIN e[t] \cup {j} |-> IF i = j THEN page ELSE e[t][i]]
      /\ \A p \in DOMAIN e \ {t} : e2[p] = e[p]
  BY DEF Put
<1>2. \A i \in DOMAIN e2[t] : i \in Index /\ e2[t][i] \in Targets
  BY <1>1 DEF EntriesTyped
<1>. QED
  BY <1>1, <1>2 DEF EntriesTyped

LEMMA NewTableTyped ==
  ASSUME MemoryOK, NEW e, EntriesTyped(e), NEW dir \in DOMAIN e, NEW i \in Index,
         NEW t \in memory, NEW e2, e2 = NewTable(e, dir, i, t), t # dir
  PROVE  EntriesTyped(e2)
<1>1. /\ DOMAIN e2 = DOMAIN e \cup {t} /\ e2[t] = << >>
      /\ e2[dir] = [j \in DOMAIN e[dir] \cup {i} |-> IF j = i THEN t ELSE e[dir][j]]
      /\ \A p \in DOMAIN e \ {t, dir} : e2[p] = e[p]
  BY DEF NewTable
<1>2. \A j \in DOMAIN e2[dir] : j \in Index /\ e2[dir][j] \in Targets
  BY <1>1, MemorySize DEF EntriesTyped
<1>3. DOMAIN << >> = {}
  OBVIOUS
<1>. QED
  BY <1>1, <1>2, <1>3 DEF EntriesTyped

-----------------------------------------------------------------------------
(* alloc_virt_pages, by what it finds.                                     *)

LEMMA TablesSeparate ==
  ASSUME MemoryOK, BlocksShape, KernelTables, OneUseEach
  PROVE  Separate(entry)
<1>1. PICK dir : dir = entry[kernel_page_dir]
  OBVIOUS
<1>2. /\ 1..3 \subseteq DOMAIN entry
      /\ DOMAIN dir \subseteq {UserTable, LowTable, HighTable, ImageTable}
      /\ dir[UserTable] = 2 /\ dir[ImageTable] = 3
      /\ \A i \in DOMAIN dir \ {UserTable, ImageTable} : dir[i] \in DOMAIN entry \cap memory
  BY <1>1 DEF KernelTables
<1>3. \A i \in DOMAIN dir \ {UserTable, ImageTable} : <<<<"kernel", i, "table">>, dir[i]>> \in Uses
  BY <1>1 DEF Uses
<1>4. ASSUME NEW i \in DOMAIN dir \ {UserTable, ImageTable},
             NEW j \in DOMAIN dir \ {UserTable, ImageTable}, dir[i] = dir[j]
      PROVE  i = j
  <2>1. PICK a \in Uses : a = <<<<"kernel", i, "table">>, dir[i]>>
    BY <1>3
  <2>2. PICK b \in Uses : b = <<<<"kernel", j, "table">>, dir[j]>>
    BY <1>3
  <2>3. a[2] = b[2]
    BY <2>1, <2>2, <1>4
  <2>4. a = b
    BY <2>3 DEF OneUseEach
  <2>. QED
    BY <2>1, <2>2, <2>4
<1>5. kernel_page_dir \in DOMAIN entry
  BY <1>2
<1>6. \A i \in DOMAIN dir : dir[i] \in DOMAIN entry /\ dir[i] # kernel_page_dir
  BY <1>2, MemorySize
<1>7. \A i, j \in DOMAIN dir : dir[i] = dir[j] => i = j
  BY <1>2, <1>4, MemorySize
<1>. QED
  BY <1>1, <1>5, <1>6, <1>7 DEF Separate

First == Len(blocks) = 1
RoomLeft == Len(blocks) < 7 + 3 * MaxProcesses
NewBlock == [base |-> Lowest, length |-> 1]
TableEnd == KernelStart + Length   \* the page after the table of the blocks

LEMMA LowestTable ==
  ASSUME BlocksShape, KernelTables
  PROVE  /\ Len(blocks) = 1 => /\ TableOf(Lowest) = HighTable
                               /\ HighTable \notin DOMAIN entry[kernel_page_dir]
         /\ Len(blocks) # 1 => TableOf(Lowest) \in DOMAIN entry[kernel_page_dir]
         /\ LowTable \in DOMAIN entry[kernel_page_dir]
<1>1. Lowest \in KernelPages
  BY Shape
<1>2. Len(blocks) = 1 => ~(Lowest < 3 * PerTable)
  BY SizesAssumption DEF Lowest, KernelTop
<1>3. TableOf(Lowest) = IF Lowest < 3 * PerTable THEN LowTable ELSE HighTable
  BY <1>1, KernelPlace
<1>4. Len(blocks) \in Nat \ {0}
  BY Shape
<1>5. /\ {LowTable} \subseteq DOMAIN entry[kernel_page_dir]
      /\ HighTable \in DOMAIN entry[kernel_page_dir] <=> Len(blocks) > 1
  BY DEF KernelTables
<1>6. PICK i : i = TableOf(Lowest)
  OBVIOUS
<1>7. i = IF Lowest < 3 * PerTable THEN LowTable ELSE HighTable
  BY <1>3, <1>6
<1>8. Len(blocks) = 1 => i = HighTable /\ HighTable \notin DOMAIN entry[kernel_page_dir]
  BY <1>2, <1>5, <1>7
<1>9. Len(blocks) # 1 => i \in DOMAIN entry[kernel_page_dir]
  <2>1. i = LowTable \/ i = HighTable
    BY <1>7
  <2>2. \A n \in Nat \ {0} : n # 1 => n > 1
    OBVIOUS
  <2>3. Len(blocks) # 1 => Len(blocks) > 1
    BY <1>4, <2>2
  <2>. QED
    BY <1>5, <2>1, <2>3
<1>. QED
  BY <1>5, <1>6, <1>8, <1>9

LEMMA AllocSplits ==
  ASSUME BlocksShape, NEW page, NEW f,
         NEW m, m = Mapped(f, entry, kernel_page_dir, Lowest, page)
  PROVE  AllocVirt(page, f) = IF m.ok THEN Record(page, Lowest, m)
                              ELSE [ok |-> FALSE, free |-> m.free \cup {page}, entry |-> m.entry]
BY PlaceIs DEF AllocVirt

LEMMA AllocUnmapped ==
  ASSUME BlocksShape, NEW page, NEW f,
         NEW m, m = Mapped(f, entry, kernel_page_dir, Lowest, page),
         ~m.ok
  PROVE  AllocVirt(page, f) = [ok |-> FALSE, free |-> m.free \cup {page}, entry |-> m.entry]
BY AllocSplits

LEMMA AllocRecords ==
  ASSUME BlocksShape, NEW page, NEW f,
         NEW m, m = Mapped(f, entry, kernel_page_dir, Lowest, page),
         m.ok, ~Full
  PROVE  AllocVirt(page, f) =
           [ok |-> TRUE, free |-> m.free, entry |-> m.entry,
            blocks |-> Entered(blocks, Len(blocks) - 1, NewBlock),
            size |-> block_table_size, vaddr |-> Lowest]
<1>1. AllocVirt(page, f) = Record(page, Lowest, m)
  BY AllocSplits
<1>. QED
  BY <1>1, PlaceIs DEF Record, NewBlock

LEMMA AllocNoRoom ==
  ASSUME BlocksShape, NEW page, NEW f,
         NEW m, m = Mapped(f, entry, kernel_page_dir, Lowest, page),
         m.ok, Full, m.free = {}
  PROVE  AllocVirt(page, f) =
           [ok |-> FALSE, free |-> {page},
            entry |-> [m.entry EXCEPT
               ![m.entry[kernel_page_dir][TableOf(Lowest)]][SlotOf(Lowest)] = None]]
<1>1. AllocVirt(page, f) = Record(page, Lowest, m)
  BY AllocSplits
<1>. QED
  BY <1>1 DEF Record

LEMMA AllocGrows ==
  ASSUME BlocksShape, NEW page, NEW f,
         NEW m, m = Mapped(f, entry, kernel_page_dir, Lowest, page),
         m.ok, Full, m.free # {},
         NEW g, g = Mapped(Rest(m.free), m.entry, kernel_page_dir, TableEnd, Pick(m.free)), g.ok
  PROVE  AllocVirt(page, f) =
           [ok |-> TRUE, free |-> g.free, entry |-> g.entry,
            blocks |-> Entered(Grown(blocks), Len(blocks) - 1, NewBlock),
            size |-> block_table_size + PerPage, vaddr |-> Lowest]
<1>1. AllocVirt(page, f) = Record(page, Lowest, m)
  BY AllocSplits
<1>2. blocks[Len(blocks)].base + blocks[Len(blocks)].length = TableEnd
  BY Shape DEF TableEnd
<1>. QED
  BY <1>1, <1>2, PlaceIs DEF Record, NewBlock

LEMMA SmallNotFull ==
  ASSUME BlocksShape, Len(blocks) = 1
  PROVE  ~Full
<1>1. block_table_size = PerPage * Length /\ Length \in Nat \ {0}
  BY Shape
<1>2. \A k \in Nat \ {0} : PerPage * k >= 8
  <2>1. TAKE k \in Nat \ {0}
  <2>2. PICK d \in Nat : PerPage = 8 + d
    <3>1. PerPage - 8 \in Nat /\ PerPage = 8 + (PerPage - 8)
      BY SizesAssumption
    <3>. QED
      BY <3>1
  <2>3. PerPage * k = 8 * k + d * k /\ d * k >= 0
    BY <2>2
  <2>. QED
    BY <2>3
<1>3. block_table_size >= 8
  BY <1>1, <1>2
<1>. QED
  BY <1>3 DEF Full

\* The first block of all needs a page table; no other does.
LEMMA AllocFirst ==
  ASSUME BlocksShape, KernelTables, Len(blocks) = 1, NEW page, NEW f
  PROVE  /\ f = {} => AllocVirt(page, f) = [ok |-> FALSE, free |-> {page}, entry |-> entry]
         /\ f # {} => LET t == Pick(f)
                      IN  AllocVirt(page, f) =
                            [ok |-> TRUE, free |-> Rest(f),
                             entry |-> Put(NewTable(entry, kernel_page_dir, HighTable, t), t,
                                           SlotOf(Lowest), page),
                             blocks |-> Entered(blocks, Len(blocks) - 1, NewBlock),
                             size |-> block_table_size, vaddr |-> Lowest]
<1>2. /\ TableOf(Lowest) = HighTable
      /\ TableOf(Lowest) \notin DOMAIN entry[kernel_page_dir]
  BY LowestTable
<1>3. ~Full
  BY SmallNotFull
<1>4. CASE f = {}
  <2>1. Mapped(f, entry, kernel_page_dir, Lowest, page)
          = [ok |-> FALSE, free |-> f, entry |-> entry]
    BY <1>2, <1>4, MappedFails
  <2>2. AllocVirt(page, f) = [ok |-> FALSE, free |-> f \cup {page}, entry |-> entry]
    BY <2>1, AllocUnmapped
  <2>. QED
    BY <1>4, <2>2
<1>5. CASE f # {}
  <2>1. PICK m : m = Mapped(f, entry, kernel_page_dir, Lowest, page)
    OBVIOUS
  <2>2. m = [ok |-> TRUE, free |-> Rest(f),
             entry |-> Put(NewTable(entry, kernel_page_dir, HighTable, Pick(f)), Pick(f),
                           SlotOf(Lowest), page)]
    BY ZenonT(60), <1>2, <1>5, <2>1, MappedMakes
  <2>3. AllocVirt(page, f) =
          [ok |-> TRUE, free |-> m.free, entry |-> m.entry,
           blocks |-> Entered(blocks, Len(blocks) - 1, NewBlock),
           size |-> block_table_size, vaddr |-> Lowest]
    BY <1>3, <2>1, <2>2, AllocRecords
  <2>4. m.free = Rest(f) /\ m.entry = Put(NewTable(entry, kernel_page_dir, HighTable, Pick(f)),
                                         Pick(f), SlotOf(Lowest), page)
    BY <2>2
  <2>. QED
    BY <1>5, <2>3, <2>4
<1>. QED
  BY <1>4, <1>5

LEMMA LowestFree ==
  ASSUME BlocksShape, KernelMap
  PROVE  Lowest \in KernelPages /\ At(entry, Lowest) = None
<1>1. /\ Lowest \in KernelPages /\ TableEnd <= Lowest
      /\ TableEnd \in Int /\ Lowest \in Int
  BY Shape, SizesAssumption DEF TableEnd, KernelPages, KernelStart, KernelTop
<1>2. ~(Lowest > KernelTop + 1 - Len(blocks)) /\ ~(Lowest < KernelStart + blocks[Len(blocks)].length)
  BY <1>1 DEF Lowest, TableEnd, Length
<1>3. At(entry, Lowest) = None
  BY <1>1, <1>2, KernelAt DEF KernelMap
<1>. QED
  BY <1>1, <1>3

\* When the table of the blocks is full there are so many blocks that one more
\* fits, but not in the last free page below them.
LEMMA TableEndFree ==
  ASSUME BlocksShape, KernelMap, Full, RoomLeft
  PROVE  /\ TableEnd \in KernelPages /\ TableEnd < Lowest /\ At(entry, TableEnd) = None
         /\ PerPage * Length < Len(blocks) + 1
         /\ block_table_size + PerPage = PerPage * (Length + 1)
<1>1. PICK n \in Nat \ {0}, length \in Nat \ {0} : n = Len(blocks) /\ length = Length
  BY Shape
<1>2. n = PerPage * length /\ block_table_size = PerPage * length
  BY <1>1, Shape DEF Full
<1>3. PerPage * length < n + 1 /\ PerPage * (length + 1) = PerPage * length + PerPage
  BY <1>2, SizesAssumption
<1>4. PICK n1, length1 : n1 = n + 1 /\ length1 = length + 1
  OBVIOUS
<1>5. n1 + length1 <= 2 * PerTable
  <2>1. n1 \in 1..(7 + 3 * MaxProcesses) /\ length1 \in Nat \ {0} /\ length1 - 1 = length
    BY <1>1, <1>4, SizesAssumption DEF RoomLeft
  <2>2. PerPage * (length1 - 1) < n1
    BY <1>3, <1>4, <2>1
  <2>. QED
    BY <2>1, <2>2, Room
<1>6. /\ TableEnd \in KernelPages /\ TableEnd < Lowest
  BY <1>1, <1>4, <1>5, SizesAssumption DEF TableEnd, Lowest, KernelPages, KernelStart, KernelTop
<1>7. TableEnd \in Int /\ Lowest \in Int
  BY <1>1, SizesAssumption DEF TableEnd, Lowest, KernelStart, KernelTop
<1>8. ~(TableEnd > KernelTop + 1 - Len(blocks)) /\ ~(TableEnd < KernelStart + blocks[Len(blocks)].length)
  BY <1>6, <1>7 DEF Lowest, TableEnd, Length
<1>9. At(entry, TableEnd) = None
  BY <1>6, <1>8, KernelAt DEF KernelMap
<1>. QED
  BY <1>1, <1>2, <1>3, <1>6, <1>9

LEMMA TableEndMapped ==
  ASSUME BlocksShape, KernelTables, KernelMap, Len(blocks) # 1, RoomLeft, Full
  PROVE  TableOf(TableEnd) \in DOMAIN entry[kernel_page_dir]
<1>1. TableOf(TableEnd) = LowTable \/ TableOf(TableEnd) = HighTable
  BY TableEndFree, KernelPlace
<1>2. PICK n \in Nat \ {0} : n = Len(blocks)
  BY Shape
<1>3. n > 1
  BY <1>2
<1>4. LowTable \in DOMAIN entry[kernel_page_dir] /\ HighTable \in DOMAIN entry[kernel_page_dir]
  BY <1>2, <1>3 DEF KernelTables
<1>. QED
  BY <1>1, <1>4

LEMMA TableGrows ==
  ASSUME BlocksShape, Full, NEW page, NEW f, f # {}, NEW e,
         e[kernel_page_dir] = entry[kernel_page_dir],
         TableOf(TableEnd) \in DOMAIN entry[kernel_page_dir],
         NEW m, m = Mapped(f, entry, kernel_page_dir, Lowest, page),
         m = [ok |-> TRUE, free |-> f, entry |-> e]
  PROVE  AllocVirt(page, f) =
           [ok |-> TRUE, free |-> Rest(f),
            entry |-> Put(e, entry[kernel_page_dir][TableOf(TableEnd)], SlotOf(TableEnd), Pick(f)),
            blocks |-> Entered(Grown(blocks), Len(blocks) - 1, NewBlock),
            size |-> block_table_size + PerPage, vaddr |-> Lowest]
<1>1. PICK i : i = TableOf(TableEnd)
  OBVIOUS
<1>2. i \in DOMAIN e[kernel_page_dir]
  BY <1>1
<1>3. PICK left, last : left = Rest(f) /\ last = Pick(f)
  OBVIOUS
<1>4. PICK g : g = Mapped(left, e, kernel_page_dir, TableEnd, last)
  OBVIOUS
<1>5. g = [ok |-> TRUE, free |-> left,
           entry |-> Put(e, e[kernel_page_dir][i], SlotOf(TableEnd), last)]
  BY <1>1, <1>2, <1>4, MappedPuts
<1>6. AllocVirt(page, f) =
           [ok |-> TRUE, free |-> g.free, entry |-> g.entry,
            blocks |-> Entered(Grown(blocks), Len(blocks) - 1, NewBlock),
            size |-> block_table_size + PerPage, vaddr |-> Lowest]
  BY <1>3, <1>4, <1>5, AllocGrows
<1>. QED
  BY <1>1, <1>3, <1>5, <1>6

LEMMA AllocMore ==
  ASSUME BlocksShape, KernelTables, KernelMap, Separate(entry), Len(blocks) # 1,
         RoomLeft,
         NEW page, NEW f, NEW t, t = entry[kernel_page_dir][TableOf(Lowest)],
         NEW e, e = Put(entry, t, SlotOf(Lowest), page)
  PROVE  /\ TableOf(Lowest) \in DOMAIN entry[kernel_page_dir]
         /\ ~Full =>
              AllocVirt(page, f) =
                [ok |-> TRUE, free |-> f, entry |-> e,
                 blocks |-> Entered(blocks, Len(blocks) - 1, NewBlock),
                 size |-> block_table_size, vaddr |-> Lowest]
         /\ Full /\ f = {} =>
              AllocVirt(page, f) =
                [ok |-> FALSE, free |-> {page},
                 entry |-> [e EXCEPT
                   ![t][SlotOf(Lowest)] = None]]
         /\ Full /\ f # {} =>
              /\ TableOf(TableEnd) \in DOMAIN entry[kernel_page_dir]
              /\ AllocVirt(page, f) =
                   [ok |-> TRUE, free |-> Rest(f),
                    entry |-> Put(e, entry[kernel_page_dir][TableOf(TableEnd)],
                                  SlotOf(TableEnd), Pick(f)),
                    blocks |-> Entered(Grown(blocks), Len(blocks) - 1, NewBlock),
                    size |-> block_table_size + PerPage, vaddr |-> Lowest]
<1>1. TableOf(Lowest) \in DOMAIN entry[kernel_page_dir]
  BY LowestTable
<1>2. Lowest \in KernelPages
  BY Shape
<1>3. e[kernel_page_dir] = entry[kernel_page_dir]
  <2>1. PICK i : i = TableOf(Lowest)
    OBVIOUS
  <2>2. PICK j : j = SlotOf(Lowest)
    OBVIOUS
  <2>. QED
    BY <1>1, <2>1, <2>2, PutKeepsDirectory
<1>4. PICK m : m = Mapped(f, entry, kernel_page_dir, Lowest, page)
  OBVIOUS
<1>5. m = [ok |-> TRUE, free |-> f, entry |-> e]
  BY <1>1, <1>4, MappedPuts
<1>6. m.ok /\ m.free = f /\ m.entry = e
  BY <1>5
<1>7. ~Full =>
        AllocVirt(page, f) =
          [ok |-> TRUE, free |-> f, entry |-> e,
           blocks |-> Entered(blocks, Len(blocks) - 1, NewBlock),
           size |-> block_table_size, vaddr |-> Lowest]
  BY <1>4, <1>6, AllocRecords
<1>8. Full /\ f = {} =>
        AllocVirt(page, f) =
          [ok |-> FALSE, free |-> {page},
           entry |-> [e EXCEPT
             ![t][SlotOf(Lowest)] = None]]
  BY <1>3, <1>4, <1>6, AllocNoRoom
<1>9. Full /\ f # {} =>
        /\ TableOf(TableEnd) \in DOMAIN entry[kernel_page_dir]
        /\ AllocVirt(page, f) =
              [ok |-> TRUE, free |-> Rest(f),
               entry |-> Put(e, entry[kernel_page_dir][TableOf(TableEnd)], SlotOf(TableEnd), Pick(f)),
               blocks |-> Entered(Grown(blocks), Len(blocks) - 1, NewBlock),
               size |-> block_table_size + PerPage, vaddr |-> Lowest]
  BY <1>3, <1>4, <1>5, TableEndMapped, TableGrows
<1>. QED
  BY <1>1, <1>7, <1>8, <1>9

-----------------------------------------------------------------------------
(* The tables e2 are e with more pages of kernel memory mapped, those vs.  *)

KernelTablesOf(e) == {e[kernel_page_dir][i] : i \in DOMAIN e[kernel_page_dir]}

Maps(e, e2, vs) ==
  /\ Separate(e2) /\ EntriesTyped(e2)
  /\ \A w \in KernelPages : At(e2, w) # None <=> At(e, w) # None \/ w \in vs
  /\ DOMAIN e \subseteq DOMAIN e2
  /\ \A i \in DOMAIN e[kernel_page_dir] :
        i \in DOMAIN e2[kernel_page_dir] /\ e2[kernel_page_dir][i] = e[kernel_page_dir][i]
  /\ \A p \in DOMAIN e : p # kernel_page_dir /\ p \notin KernelTablesOf(e2) => e2[p] = e[p]

LEMMA MapsNothing ==
  ASSUME NEW e, Separate(e), EntriesTyped(e)
  PROVE  Maps(e, e, {})
BY DEF Maps

LEMMA MapsTwice ==
  ASSUME NEW e, NEW e1, NEW e2, NEW vs, NEW ws, Maps(e, e1, vs), Maps(e1, e2, ws)
  PROVE  Maps(e, e2, vs \cup ws)
<1>1. Separate(e2) /\ EntriesTyped(e2)
  BY DEF Maps
<1>2. \A w \in KernelPages : At(e2, w) # None <=> At(e, w) # None \/ w \in vs \cup ws
  BY DEF Maps
<1>3. DOMAIN e \subseteq DOMAIN e2
  BY DEF Maps
<1>4. \A i \in DOMAIN e[kernel_page_dir] :
        i \in DOMAIN e2[kernel_page_dir] /\ e2[kernel_page_dir][i] = e[kernel_page_dir][i]
  BY DEF Maps
<1>5. KernelTablesOf(e1) \subseteq KernelTablesOf(e2)
  BY DEF Maps, KernelTablesOf
<1>6. \A p \in DOMAIN e : p # kernel_page_dir /\ p \notin KernelTablesOf(e2) => e2[p] = e[p]
  BY <1>5 DEF Maps
<1>. QED
  BY <1>1, <1>2, <1>3, <1>4, <1>6 DEF Maps

\* e2 is e with page put in for v, in the table i, and with a new table t.
Mapping(e2, e, i, v, page) ==
  i = TableOf(v) /\ e2 = Put(e, e[kernel_page_dir][i], SlotOf(v), page)
Making(e2, e, i, t) == e2 = NewTable(e, kernel_page_dir, i, t)

PageIsPut(e2, e, v, page) ==
  /\ Maps(e, e2, {v}) /\ e2[kernel_page_dir] = e[kernel_page_dir]
  /\ At(e2, v) = page /\ \A w \in KernelPages \ {v} : At(e2, w) = At(e, w)

LEMMA PutMaps ==
  ASSUME NEW e, Separate(e), EntriesTyped(e), NEW v \in KernelPages,
         NEW page \in Targets, page # None,
         NEW i \in DOMAIN e[kernel_page_dir], NEW e2, Mapping(e2, e, i, v, page)
  PROVE  PageIsPut(e2, e, v, page)
<1>1. PICK t : /\ t = e[kernel_page_dir][i] /\ i = TableOf(v)
               /\ e2 = Put(e, t, SlotOf(v), page)
  BY DEF Mapping
<1>2. t \in DOMAIN e /\ t # kernel_page_dir
  BY <1>1 DEF Separate
<1>3. /\ DOMAIN e2 = DOMAIN e /\ e2[kernel_page_dir] = e[kernel_page_dir] /\ Separate(e2)
      /\ \A p \in DOMAIN e \ {t} : e2[p] = e[p]
      /\ \A w \in KernelPages : At(e2, w) = IF w = v THEN page ELSE At(e, w)
  BY <1>1, PutKernel
<1>4. SlotOf(v) \in Index
  BY KernelPlace
<1>5. EntriesTyped(e2)
  BY <1>1, <1>2, <1>4, PutTyped
<1>6. t \in KernelTablesOf(e2)
  BY <1>1, <1>3 DEF KernelTablesOf
<1>7. \A p \in DOMAIN e : p # kernel_page_dir /\ p \notin KernelTablesOf(e2) => e2[p] = e[p]
  BY <1>3, <1>6
<1>8. \A w \in KernelPages : At(e2, w) # None <=> At(e, w) # None \/ w \in {v}
  BY <1>3
<1>. QED
  BY <1>3, <1>5, <1>7, <1>8 DEF Maps, PageIsPut

LEMMA NewTableMaps ==
  ASSUME MemoryOK, NEW e, Separate(e), EntriesTyped(e), NEW i \in {LowTable, HighTable},
         i \notin DOMAIN e[kernel_page_dir], NEW t \in memory, t \notin KernelTablesOf(e),
         NEW e2, Making(e2, e, i, t)
  PROVE  /\ Maps(e, e2, {}) /\ t \in DOMAIN e2
         /\ DOMAIN e2[kernel_page_dir] = DOMAIN e[kernel_page_dir] \cup {i}
         /\ e2[kernel_page_dir][i] = t
         /\ \A j \in DOMAIN e[kernel_page_dir] : e2[kernel_page_dir][j] = e[kernel_page_dir][j]
         /\ \A w \in KernelPages : At(e2, w) = At(e, w)
<1>1. t # kernel_page_dir /\ \A k \in DOMAIN e[kernel_page_dir] : e[kernel_page_dir][k] # t
  BY MemorySize DEF KernelTablesOf
<1>2. kernel_page_dir \in DOMAIN e
  BY DEF Separate
<1>3. /\ DOMAIN e2 = DOMAIN e \cup {t}
      /\ e2[kernel_page_dir] = [j \in DOMAIN e[kernel_page_dir] \cup {i} |->
                                  IF j = i THEN t ELSE e[kernel_page_dir][j]]
      /\ e2[t] = << >>
      /\ \A p \in DOMAIN e \ {t, kernel_page_dir} : e2[p] = e[p]
  BY <1>1, <1>2 DEF NewTable, Making
<1>4. Separate(e2)
  BY <1>1, <1>3 DEF Separate
<1>5. DOMAIN << >> = {}
  OBVIOUS
<1>6. ASSUME NEW w
      PROVE  At(e2, w) = At(e, w)
  <2>1. PICK k, j : k = TableOf(w) /\ j = SlotOf(w)
    OBVIOUS
  <2>2. CASE k \in DOMAIN e[kernel_page_dir]
    <3>1. k \in DOMAIN e2[kernel_page_dir] /\ e2[kernel_page_dir][k] = e[kernel_page_dir][k]
      BY <1>3, <2>2
    <3>2. e2[e[kernel_page_dir][k]] = e[e[kernel_page_dir][k]]
      BY <1>1, <1>3, <2>2 DEF Separate
    <3>. QED
      BY <3>1, <3>2, <2>1, <2>2 DEF At
  <2>3. CASE k \notin DOMAIN e[kernel_page_dir] /\ k # i
    BY <2>1, <2>3, <1>3 DEF At
  <2>4. CASE k = i
    BY <2>1, <2>4, <1>3, <1>5 DEF At
  <2>. QED
    BY <2>2, <2>3, <2>4
<1>7. i \in Index
  BY SizesAssumption DEF Index
<1>8. EntriesTyped(e2)
  BY <1>1, <1>2, <1>7, NewTableTyped DEF Making
<1>9. t \in KernelTablesOf(e2)
  BY <1>3 DEF KernelTablesOf
<1>10. \A p \in DOMAIN e : p # kernel_page_dir /\ p \notin KernelTablesOf(e2) => e2[p] = e[p]
  BY <1>3, <1>9
<1>11. \A w : At(e2, w) = At(e, w)
  BY <1>6
<1>12. /\ DOMAIN e \subseteq DOMAIN e2 /\ t \in DOMAIN e2
       /\ \A j \in DOMAIN e[kernel_page_dir] :
            j \in DOMAIN e2[kernel_page_dir] /\ e2[kernel_page_dir][j] = e[kernel_page_dir][j]
  BY <1>3
<1>. QED
  BY <1>3, <1>4, <1>8, <1>10, <1>11, <1>12 DEF Maps

\* A page that is mapped and then taken away again.
TakingBack(e2, e, i, v, page) ==
  LET t == e[kernel_page_dir][i]
  IN  i = TableOf(v) /\ e2 = [Put(e, t, SlotOf(v), page) EXCEPT ![t][SlotOf(v)] = None]
PageIsBack(e2, e) ==
  /\ Maps(e, e2, {}) /\ e2[kernel_page_dir] = e[kernel_page_dir]
  /\ \A w \in KernelPages : At(e2, w) = At(e, w)

LEMMA PutBackMaps ==
  ASSUME NEW e, Separate(e), EntriesTyped(e), NEW v \in KernelPages, At(e, v) = None,
         NEW page \in Targets, page # None,
         NEW i \in DOMAIN e[kernel_page_dir], NEW e2, TakingBack(e2, e, i, v, page)
  PROVE  PageIsBack(e2, e)
<1>0. PICK t, e1 : /\ t = e[kernel_page_dir][i] /\ i = TableOf(v) /\ e1 = Put(e, t, SlotOf(v), page)
                   /\ e2 = [e1 EXCEPT ![t][SlotOf(v)] = None]
  BY DEF TakingBack
<1>1. PICK j : j = SlotOf(v)
  OBVIOUS
<1>2. t \in DOMAIN e
  BY <1>0 DEF Separate
<1>3. e2 = Put(e, t, j, None)
  <2>1. /\ DOMAIN e1 = DOMAIN e /\ \A p \in DOMAIN e \ {t} : e1[p] = e[p]
        /\ e1[t] = [k \in DOMAIN e[t] \cup {j} |-> IF k = j THEN page ELSE e[t][k]]
    BY <1>0, <1>1, <1>2 DEF Put
  <2>2. e2 = [p \in DOMAIN e |-> IF p = t THEN [e1[t] EXCEPT ![j] = None] ELSE e[p]]
    BY <1>0, <1>1, <1>2, <2>1
  <2>3. [e1[t] EXCEPT ![j] = None] = [k \in DOMAIN e[t] \cup {j} |-> IF k = j THEN None ELSE e[t][k]]
    BY <2>1
  <2>4. Put(e, t, j, None)
           = [p \in DOMAIN e |-> IF p = t THEN [k \in DOMAIN e[t] \cup {j} |->
                                                  IF k = j THEN None ELSE e[t][k]] ELSE e[p]]
    BY <1>2 DEF Put
  <2>. QED
    BY <2>2, <2>3, <2>4
<1>4. /\ DOMAIN e2 = DOMAIN e /\ e2[kernel_page_dir] = e[kernel_page_dir] /\ Separate(e2)
      /\ \A p \in DOMAIN e \ {t} : e2[p] = e[p]
      /\ \A w \in KernelPages : At(e2, w) = IF w = v THEN None ELSE At(e, w)
  BY <1>0, <1>1, <1>3, PutKernel
<1>5. j \in Index /\ None \in Targets
  BY <1>1, KernelPlace DEF Targets
<1>6. EntriesTyped(e2)
  BY <1>2, <1>3, <1>5, PutTyped
<1>7. t \in KernelTablesOf(e2)
  BY <1>0, <1>4 DEF KernelTablesOf
<1>8. \A p \in DOMAIN e : p # kernel_page_dir /\ p \notin KernelTablesOf(e2) => e2[p] = e[p]
  BY <1>4, <1>7
<1>9. \A w \in KernelPages : At(e2, w) = At(e, w)
  BY <1>4
<1>. QED
  BY <1>4, <1>6, <1>8, <1>9 DEF Maps, PageIsBack

-----------------------------------------------------------------------------
(* What alloc_virt_pages does, r, when page is the page to be mapped and o *)
(* are the uses that are not the kernel's.                                 *)

Effect(r, page, o) ==
  /\ Maps(entry, r.entry, IF r.ok THEN {Lowest} \cup (IF Full THEN {TableEnd} ELSE {}) ELSE {})
  /\ Exclusive(KernelUses(r.entry) \cup o, r.free) /\ r.free \subseteq memory
  /\ DOMAIN r.entry[kernel_page_dir] \subseteq {UserTable, LowTable, HighTable, ImageTable}
  /\ \A i \in DOMAIN r.entry[kernel_page_dir] \ {UserTable, ImageTable} :
        r.entry[kernel_page_dir][i] \in memory
  /\ HighTable \in DOMAIN r.entry[kernel_page_dir] <=> Len(blocks) # 1 \/ r.ok
  /\ \A w \in KernelPages : At(r.entry, w) = VideoMemory => \/ At(entry, w) = VideoMemory
                                                           \/ page = VideoMemory
  /\ r.ok \in BOOLEAN
  /\ r.ok => /\ r.blocks = Entered(IF Full THEN Grown(blocks) ELSE blocks, Len(blocks) - 1, NewBlock)
             /\ r.size = IF Full THEN block_table_size + PerPage ELSE block_table_size
             /\ r.vaddr = Lowest

LEMMA KernelDirectory ==
  ASSUME BlocksShape, KernelTables
  PROVE  LET dir == entry[kernel_page_dir]
         IN  /\ DOMAIN dir \subseteq {UserTable, LowTable, HighTable, ImageTable}
             /\ \A i \in DOMAIN dir \ {UserTable, ImageTable} : dir[i] \in memory
             /\ HighTable \in DOMAIN dir <=> Len(blocks) # 1
<1>1. PICK n \in Nat \ {0} : n = Len(blocks)
  BY Shape
<1>2. n # 1 <=> n > 1
  OBVIOUS
<1>. QED
  BY <1>1, <1>2 DEF KernelTables

LEMMA NotInTables ==
  ASSUME MemoryOK, KernelTables, NEW o, NEW fr \in SUBSET memory,
         Exclusive(KernelUses(entry) \cup o, fr), NEW t \in fr
  PROVE  t \notin KernelTablesOf(entry)
<1>1. PICK dir : dir = entry[kernel_page_dir]
  OBVIOUS
<1>2. SUFFICES ASSUME NEW i \in DOMAIN dir, dir[i] = t PROVE FALSE
  BY <1>1 DEF KernelTablesOf
<1>3. i # UserTable /\ i # ImageTable
  BY <1>1, <1>2, MemorySize DEF KernelTables
<1>4. <<<<"kernel", i, "table">>, t>> \in KernelUses(entry)
  BY <1>1, <1>2, <1>3 DEF KernelUses
<1>5. PICK a \in KernelUses(entry) \cup o : a[2] = t
  BY <1>4
<1>6. t # VideoMemory
  BY MemorySize
<1>. QED
  BY <1>5, <1>6 DEF Exclusive

LEMMA PageMapped ==
  ASSUME NEW u, NEW o, NEW f \in SUBSET memory, Exclusive(u \cup o, f), VideoMemory \notin memory,
         NEW page \in f, NEW use
  PROVE  Exclusive((u \cup {<<use, page>>}) \cup o, f \ {page})
<1>1. (u \cup {<<use, page>>}) \cup o = (u \cup o) \cup {<<use, page>>}
  OBVIOUS
<1>. QED
  BY <1>1, ExclusiveAdds

LEMMA FirstEffect ==
  ASSUME MemoryOK, BlocksShape, KernelTables, KernelMap, Separate(entry), EntriesTyped(entry),
         First, NEW o, NEW fr \in SUBSET memory, fr # {},
         Exclusive(KernelUses(entry) \cup o, fr),
         NEW page, page = Pick(fr), NEW f, f = Rest(fr), NEW r, r = AllocVirt(page, f)
  PROVE  Effect(r, page, o)
<1>1. page \in fr /\ f = fr \ {page}
  BY FreePage DEF Rest
<1>2. VideoMemory \notin memory /\ None \notin memory /\ memory \subseteq Targets
  BY MemorySize
<1>3. CASE f = {}
  <2>1. r = [ok |-> FALSE, free |-> {page}, entry |-> entry]
    BY <1>3, AllocFirst DEF First
  <2>2. r.free = fr /\ r.entry = entry /\ r.ok = FALSE
    BY <1>1, <1>3, <2>1
  <2>3. Maps(entry, r.entry, {})
    BY <2>2, MapsNothing
  <2>. QED
    BY <2>2, <2>3, KernelDirectory DEF Effect, First
<1>4. CASE f # {}
  <2>1. PICK t : t = Pick(f)
    OBVIOUS
  <2>2. t \in f /\ Rest(f) = f \ {t}
    BY <1>1, <1>4, <2>1, FreePage DEF Rest
  <2>3. PICK e1, e2 : /\ e1 = NewTable(entry, kernel_page_dir, HighTable, t)
                      /\ e2 = Put(e1, t, SlotOf(Lowest), page)
    OBVIOUS
  <2>4. r = [ok |-> TRUE, free |-> f \ {t}, entry |-> e2,
             blocks |-> Entered(blocks, Len(blocks) - 1, NewBlock),
             size |-> block_table_size, vaddr |-> Lowest]
    BY <1>4, <2>1, <2>2, <2>3, AllocFirst DEF First
  <2>5. /\ TableOf(Lowest) = HighTable /\ HighTable \notin DOMAIN entry[kernel_page_dir]
        /\ Lowest \in KernelPages /\ At(entry, Lowest) = None
    BY LowestTable, LowestFree DEF First
  <2>6. t \in memory /\ t \notin KernelTablesOf(entry)
    BY <1>1, <2>2, NotInTables
  <2>7. /\ Maps(entry, e1, {}) /\ t \in DOMAIN e1
        /\ DOMAIN e1[kernel_page_dir] = DOMAIN entry[kernel_page_dir] \cup {HighTable}
        /\ e1[kernel_page_dir][HighTable] = t
        /\ \A j \in DOMAIN entry[kernel_page_dir] : e1[kernel_page_dir][j] = entry[kernel_page_dir][j]
        /\ \A w \in KernelPages : At(e1, w) = At(entry, w)
    <3>1. Making(e1, entry, HighTable, t)
      BY <2>3 DEF Making
    <3>. QED
      BY <3>1, <2>5, <2>6, NewTableMaps
  <2>8. /\ Separate(e1) /\ EntriesTyped(e1) /\ e1[kernel_page_dir][HighTable] = t
        /\ HighTable \in DOMAIN e1[kernel_page_dir]
    BY <2>7 DEF Maps
  <2>9. /\ Maps(e1, e2, {Lowest}) /\ e2[kernel_page_dir] = e1[kernel_page_dir]
        /\ At(e2, Lowest) = page /\ \A w \in KernelPages \ {Lowest} : At(e2, w) = At(e1, w)
    <3>1. page \in Targets /\ page # None
      BY <1>1, <1>2
    <3>2. Mapping(e2, e1, HighTable, Lowest, page)
      BY <2>3, <2>5, <2>8 DEF Mapping
    <3>3. PICK i : i = HighTable
      OBVIOUS
    <3>4. PICK v \in KernelPages : v = Lowest
      BY <2>5
    <3>5. i \in DOMAIN e1[kernel_page_dir] /\ Mapping(e2, e1, i, v, page)
      BY <2>8, <3>2, <3>3, <3>4
    <3>6. PageIsPut(e2, e1, v, page)
      BY <2>8, <3>1, <3>5, PutMaps
    <3>. QED
      BY <3>4, <3>6 DEF PageIsPut
  <2>10. Maps(entry, e2, {} \cup {Lowest})
    BY <2>7, <2>9, MapsTwice
  <2>11. KernelUses(e1) = KernelUses(entry) \cup {<<<<"kernel", HighTable, "table">>, t>>}
    BY <2>5, <2>7, NewTableUses
  <2>12. KernelUses(e2) = KernelUses(e1) \cup {<<<<"kernel", Lowest, "page">>, page>>}
    <3>1. page # None /\ At(e1, Lowest) = None
      BY <1>1, <1>2, <2>5, <2>7
    <3>. QED
      BY <2>5, <2>9, <3>1, PutUses
  <2>13. Exclusive(KernelUses(e2) \cup o, f \ {t})
    <3>1. PICK k, tu, pu : /\ k = KernelUses(entry)
                           /\ tu = {<<<<"kernel", HighTable, "table">>, t>>}
                           /\ pu = {<<<<"kernel", Lowest, "page">>, page>>}
      OBVIOUS
    <3>2. Exclusive((k \cup pu) \cup o, fr \ {page})
      BY <1>1, <1>2, <3>1, PageMapped
    <3>3. Exclusive(((k \cup pu) \cup tu) \cup o, f \ {t})
      BY <1>1, <1>2, <2>2, <3>1, <3>2, PageMapped
    <3>4. KernelUses(e2) = (k \cup pu) \cup tu
      BY <2>11, <2>12, <3>1
    <3>. QED
      BY <3>3, <3>4
  <2>14. ~Full
    BY <1>4, SmallNotFull DEF First
  <2>15. \A w \in KernelPages : At(e2, w) = VideoMemory => At(entry, w) = VideoMemory
    BY <1>1, <1>2, <2>7, <2>9
  <2>16. /\ DOMAIN e2[kernel_page_dir] = DOMAIN entry[kernel_page_dir] \cup {HighTable}
         /\ \A i \in DOMAIN e2[kernel_page_dir] \ {UserTable, ImageTable} :
               e2[kernel_page_dir][i] \in memory
    BY <2>6, <2>7, <2>9, KernelDirectory
  <2>17. /\ r.ok = TRUE /\ r.free = f \ {t} /\ r.entry = e2 /\ r.size = block_table_size
         /\ r.blocks = Entered(blocks, Len(blocks) - 1, NewBlock) /\ r.vaddr = Lowest
    BY <2>4
  <2>18. f \ {t} \subseteq memory /\ {} \cup {Lowest} = {Lowest} \cup {}
    BY <1>1
  <2>. QED
    BY <2>10, <2>13, <2>14, <2>15, <2>16, <2>17, <2>18, KernelDirectory DEF Effect
<1>. QED
  BY <1>3, <1>4

More == Len(blocks) # 1

LEMMA MoreEffect ==
  ASSUME MemoryOK, BlocksShape, KernelTables, KernelMap, Separate(entry), EntriesTyped(entry),
         More, RoomLeft, NEW o, NEW f \in SUBSET memory,
         NEW page \in memory \cup {VideoMemory}, page = VideoMemory => ~Full,
         page # VideoMemory => Exclusive(KernelUses(entry) \cup o, f \cup {page}),
         Exclusive((KernelUses(entry) \cup {<<<<"kernel", Lowest, "page">>, page>>}) \cup o, f),
         NEW r, r = AllocVirt(page, f)
  PROVE  Effect(r, page, o)
<1>1. VideoMemory \notin memory /\ None \notin memory /\ memory \subseteq Targets /\ 0 \in Targets
  BY MemorySize, SizesAssumption
<1>2. page \in Targets /\ page # None
  BY <1>1
<1>3. Lowest \in KernelPages /\ At(entry, Lowest) = None
  BY LowestFree
<1>4. PICK i : i = TableOf(Lowest)
  OBVIOUS
<1>5. i \in DOMAIN entry[kernel_page_dir]
  BY <1>4, LowestTable DEF More
<1>6. PICK t, e : t = entry[kernel_page_dir][i] /\ e = Put(entry, t, SlotOf(Lowest), page)
  OBVIOUS
<1>7. PageIsPut(e, entry, Lowest, page)
  <2>1. Mapping(e, entry, i, Lowest, page)
    BY <1>4, <1>6 DEF Mapping
  <2>. QED
    BY <1>2, <1>3, <1>5, <2>1, PutMaps
<1>8. KernelUses(e) = KernelUses(entry) \cup {<<<<"kernel", Lowest, "page">>, page>>}
  BY <1>2, <1>3, <1>7, PutUses DEF PageIsPut
<1>9. Exclusive(KernelUses(e) \cup o, f)
  BY <1>8
<1>10. /\ DOMAIN entry[kernel_page_dir] \subseteq {UserTable, LowTable, HighTable, ImageTable}
       /\ \A j \in DOMAIN entry[kernel_page_dir] \ {UserTable, ImageTable} :
             entry[kernel_page_dir][j] \in memory
       /\ HighTable \in DOMAIN entry[kernel_page_dir]
  BY KernelDirectory DEF More
<1>11. /\ e[kernel_page_dir] = entry[kernel_page_dir] /\ Maps(entry, e, {Lowest})
       /\ \A w \in KernelPages : At(e, w) = VideoMemory => \/ At(entry, w) = VideoMemory
                                                           \/ page = VideoMemory
  BY <1>7 DEF PageIsPut
<1>12. CASE ~Full
  <2>1. r = [ok |-> TRUE, free |-> f, entry |-> e,
             blocks |-> Entered(blocks, Len(blocks) - 1, NewBlock),
             size |-> block_table_size, vaddr |-> Lowest]
    BY <1>4, <1>6, <1>12, AllocMore DEF More
  <2>2. /\ r.ok = TRUE /\ r.free = f /\ r.entry = e /\ r.size = block_table_size
        /\ r.blocks = Entered(blocks, Len(blocks) - 1, NewBlock) /\ r.vaddr = Lowest
    BY <2>1
  <2>3. Maps(entry, e, {Lowest} \cup {})
    BY <1>11
  <2>. QED
    BY <1>9, <1>10, <1>11, <1>12, <2>2, <2>3 DEF Effect, More
<1>13. CASE Full /\ f = {}
  <2>1. r = [ok |-> FALSE, free |-> {page}, entry |-> [e EXCEPT ![t][SlotOf(Lowest)] = None]]
    BY <1>4, <1>6, <1>13, AllocMore DEF More
  <2>2. PICK e2 : e2 = [e EXCEPT ![t][SlotOf(Lowest)] = None]
    OBVIOUS
  <2>3. r.ok = FALSE /\ r.free = {page} /\ r.entry = e2
    BY <2>1, <2>2
  <2>4. /\ Maps(entry, e2, {}) /\ e2[kernel_page_dir] = entry[kernel_page_dir]
        /\ \A w \in KernelPages : At(e2, w) = At(entry, w)
    <3>1. TakingBack(e2, entry, i, Lowest, page)
      BY <1>4, <1>6, <2>2 DEF TakingBack
    <3>2. PageIsBack(e2, entry)
      BY <1>2, <1>3, <1>5, <3>1, PutBackMaps
    <3>. QED
      BY <3>2 DEF PageIsBack
  <2>5. KernelUses(e2) = KernelUses(entry)
    BY <2>4, SameUses
  <2>6. page \in memory /\ Exclusive(KernelUses(e2) \cup o, {page})
    BY <1>13, <2>5
  <2>. QED
    BY <1>10, <2>3, <2>4, <2>6 DEF Effect, More
<1>14. CASE Full /\ f # {}
  <2>1. PICK last, j : last = Pick(f) /\ j = TableOf(TableEnd)
    OBVIOUS
  <2>2. last \in f /\ Rest(f) = f \ {last}
    BY <1>14, <2>1, FreePage DEF Rest
  <2>3. PICK e2 : e2 = Put(e, entry[kernel_page_dir][j], SlotOf(TableEnd), last)
    OBVIOUS
  <2>4. /\ j \in DOMAIN entry[kernel_page_dir]
        /\ r = [ok |-> TRUE, free |-> f \ {last}, entry |-> e2,
                blocks |-> Entered(Grown(blocks), Len(blocks) - 1, NewBlock),
                size |-> block_table_size + PerPage, vaddr |-> Lowest]
    BY <1>4, <1>6, <1>14, <2>1, <2>2, <2>3, AllocMore DEF More
  <2>5. /\ TableEnd \in KernelPages /\ TableEnd # Lowest /\ At(entry, TableEnd) = None
    <3>1. /\ TableEnd \in KernelPages /\ TableEnd < Lowest /\ At(entry, TableEnd) = None
      BY <1>14, TableEndFree
    <3>2. TableEnd \in Int
      BY <3>1, SizesAssumption DEF KernelPages, KernelStart, KernelTop
    <3>. QED
      BY <3>1, <3>2
  <2>6. Separate(e) /\ EntriesTyped(e) /\ At(e, TableEnd) = None
    BY <1>7, <2>5 DEF PageIsPut, Maps
  <2>7. PageIsPut(e2, e, TableEnd, last)
    <3>1. Mapping(e2, e, j, TableEnd, last)
      BY <1>11, <2>1, <2>3 DEF Mapping
    <3>2. j \in DOMAIN e[kernel_page_dir] /\ last \in Targets /\ last # None
      BY <1>1, <1>11, <2>2, <2>4
    <3>. QED
      BY <2>5, <2>6, <3>1, <3>2, PutMaps
  <2>8. KernelUses(e2) = KernelUses(e) \cup {<<<<"kernel", TableEnd, "page">>, last>>}
    <3>1. last # None
      BY <1>1, <2>2
    <3>. QED
      BY <2>5, <2>6, <2>7, <3>1, PutUses DEF PageIsPut
  <2>9. Exclusive(KernelUses(e2) \cup o, f \ {last})
    <3>1. PICK k : k = KernelUses(e)
      OBVIOUS
    <3>2. Exclusive((k \cup {<<<<"kernel", TableEnd, "page">>, last>>}) \cup o, f \ {last})
      BY <1>1, <1>9, <2>2, <3>1, PageMapped
    <3>. QED
      BY <2>8, <3>1, <3>2
  <2>10. /\ e2[kernel_page_dir] = entry[kernel_page_dir] /\ Maps(e, e2, {TableEnd})
         /\ \A w \in KernelPages : At(e2, w) = VideoMemory => At(e, w) = VideoMemory
    BY <1>1, <1>11, <2>2, <2>7 DEF PageIsPut
  <2>11. Maps(entry, e2, {Lowest} \cup {TableEnd})
    BY <1>11, <2>10, MapsTwice
  <2>12. /\ r.ok = TRUE /\ r.free = f \ {last} /\ r.entry = e2 /\ r.size = block_table_size + PerPage
         /\ r.blocks = Entered(Grown(blocks), Len(blocks) - 1, NewBlock) /\ r.vaddr = Lowest
    BY <2>4
  <2>. QED
    BY <1>10, <1>11, <1>14, <2>9, <2>10, <2>11, <2>12 DEF Effect, More
<1>. QED
  BY <1>12, <1>13, <1>14

-----------------------------------------------------------------------------
(* The steps.  SpacesInv' is proved of each in parts.                      *)

LEMMA Parts ==
  ASSUME SpacesInv
  PROVE  /\ MemoryOK /\ free \subseteq memory /\ EntriesTyped(entry) /\ Separate(entry)
         /\ BlocksShape /\ KernelTables /\ KernelMap /\ OneUseEach
         /\ ProcessesComplete /\ Progress
         /\ Exclusive(KernelUses(entry) \cup ProcessUses(procs, new), free)
         /\ \A n \in DOMAIN new : new[n] \in memory \cup KernelPages
         /\ \A i \in DOMAIN procs : \A n \in DOMAIN procs[i] : procs[i][n] \in memory \cup KernelPages
         /\ IsSeq(todo)
         /\ IsSeq(procs)
         /\ failed \in BOOLEAN
<1>1. /\ MemoryOK /\ BlocksShape /\ KernelTables /\ KernelMap /\ OneUseEach
      /\ ProcessesComplete /\ Progress
  BY DEF SpacesInv, Typed
<1>2. Separate(entry)
  BY <1>1, TablesSeparate
<1>3. Exclusive(KernelUses(entry) \cup ProcessUses(procs, new), free)
  BY <1>1, UsesAre, OneUseIs
<1>4. free \subseteq memory /\ EntriesTyped(entry)
  BY DEF SpacesInv, TypeOK, EntriesTyped
<1>5. /\ \A n \in DOMAIN new : new[n] \in memory \cup KernelPages
      /\ \A i \in DOMAIN procs : \A n \in DOMAIN procs[i] : procs[i][n] \in memory \cup KernelPages
      /\ IsSeq(todo)
      /\ IsSeq(procs)
      /\ failed \in BOOLEAN
  BY DEF SpacesInv, TypeOK, Typed
<1>. QED
  BY <1>1, <1>2, <1>3, <1>4, <1>5

\* The process of a number: 0 is the one that is being made.
Process(k) == IF k = 0 THEN new ELSE procs[k]
Owners == {0} \cup DOMAIN procs

LEMMA OwnedUse ==
  ASSUME NEW k \in Owners, IsSeq(procs),
         NEW a \in DOMAIN Process(k) \cap PageNames
  PROVE  <<<<"process", k, a>>, Process(k)[a]>> \in ProcessUses(procs, new)
<1>1. 0 \notin DOMAIN procs
  BY DEF IsSeq
<1>2. <<<<"process", k, a>>, Process(k)[a]>> \in Holds(Process(k), "process", k)
  BY DEF Holds, PageNames
<1>3. CASE k = 0
  BY <1>2, <1>3 DEF ProcessUses, Process
<1>4. CASE k \in DOMAIN procs
  <2>1. Process(k) = procs[k]
    BY <1>1, <1>4 DEF Process
  <2>. QED
    BY <1>2, <1>4, <2>1 DEF ProcessUses
<1>. QED
  BY <1>3, <1>4 DEF Owners

LEMMA OwnedPage ==
  ASSUME SpacesInv, NEW k \in Owners, NEW a \in DOMAIN Process(k) \cap PageNames
  PROVE  /\ Process(k)[a] \in memory /\ Process(k)[a] \notin free
         /\ Process(k)[a] \notin KernelTablesOf(entry)
         /\ Process(k)[a] # kernel_page_dir
<1>1. PICK p : p = Process(k)[a]
  OBVIOUS
<1>2. <<<<"process", k, a>>, p>> \in ProcessUses(procs, new)
  BY <1>1, Parts, OwnedUse
<1>3. p \in memory \cup KernelPages
  BY <1>1, Parts DEF Process, Owners
<1>4. p # VideoMemory
  BY <1>3, Parts, MemorySize, SizesAssumption DEF KernelPages, KernelStart, KernelTop
<1>5. PICK u \in KernelUses(entry) \cup ProcessUses(procs, new) : u = <<<<"process", k, a>>, p>>
  BY <1>2
<1>6. p \in memory \ free
  BY <1>4, <1>5, Parts DEF Exclusive
<1>7. p # kernel_page_dir
  BY <1>6, Parts, MemorySize
<1>8. p \notin KernelTablesOf(entry)
  <2>1. SUFFICES ASSUME NEW i \in DOMAIN entry[kernel_page_dir], entry[kernel_page_dir][i] = p
                 PROVE  FALSE
    BY DEF KernelTablesOf
  <2>2. i # UserTable /\ i # ImageTable
    BY <2>1, <1>6, Parts, MemorySize DEF KernelTables
  <2>3. PICK w \in KernelUses(entry) : w = <<<<"kernel", i, "table">>, p>>
    BY <2>1, <2>2 DEF KernelUses
  <2>4. u[2] = w[2] /\ w \in KernelUses(entry) \cup ProcessUses(procs, new)
    BY <1>5, <2>3
  <2>5. u = w
    BY <2>4, <1>5, Parts DEF Exclusive
  <2>6. "process" = "kernel"
    BY <1>5, <2>3, <2>5
  <2>. QED
    BY <2>6
<1>. QED
  BY <1>1, <1>6, <1>7, <1>8

LEMMA OwnedApart ==
  ASSUME SpacesInv, NEW k \in Owners, NEW a \in DOMAIN Process(k) \cap PageNames,
         NEW l \in Owners, NEW b \in DOMAIN Process(l) \cap PageNames,
         Process(k)[a] = Process(l)[b]
  PROVE  k = l /\ a = b
<1>1. PICK u \in ProcessUses(procs, new) : u = <<<<"process", k, a>>, Process(k)[a]>>
  BY Parts, OwnedUse
<1>2. PICK w \in ProcessUses(procs, new) : w = <<<<"process", l, b>>, Process(l)[b]>>
  BY Parts, OwnedUse
<1>3. u[2] = w[2]
  BY <1>1, <1>2
<1>4. u = w
  BY <1>3, Parts DEF Exclusive
<1>. QED
  BY <1>1, <1>2, <1>4

\* A process keeps its tables as long as a step does not write to them.
LEMMA TablesKept ==
  ASSUME NEW p, HasTables(entry, p),
         \A q \in {p.dir, p.first, p.last} : q \in DOMAIN entry' /\ entry'[q] = entry[q],
         HighTable \in DOMAIN entry'[kernel_page_dir],
         \A i \in {HighTable, ImageTable} : entry'[kernel_page_dir][i] = entry[kernel_page_dir][i]
  PROVE  HasTables(entry', p) /\ (HasTss(entry, p) => HasTss(entry', p)) /\ (HasStack(entry, p) => HasStack(entry', p))
<1>1. HasTables(entry', p)
  BY DEF HasTables
<1>2. HasTss(entry, p) => HasTss(entry', p)
  BY DEF HasTss
<1>3. HasStack(entry, p) => HasStack(entry', p)
  BY DEF HasStack
<1>. QED
  BY <1>1, <1>2, <1>3

LEMMA LenIs ==
  ASSUME NEW s, NEW n \in Nat, DOMAIN s = 1..n
  PROVE  Len(s) = n
OBVIOUS

\* The blocks after one is entered.
LEMMA ShapeKept ==
  ASSUME BlocksShape, KernelMap, RoomLeft,
         blocks' = Entered(IF Full THEN Grown(blocks) ELSE blocks, Len(blocks) - 1, NewBlock),
         block_table_size' = IF Full THEN block_table_size + PerPage ELSE block_table_size
  PROVE  /\ BlocksShape' /\ Len(blocks') = Len(blocks) + 1
         /\ Length' = IF Full THEN Length + 1 ELSE Length
<1>1. PICK n, length : n = Len(blocks) /\ length = Length
  OBVIOUS
<1>2. /\ n \in Nat \ {0} /\ length \in Nat \ {0} /\ DOMAIN blocks = 1..n
      /\ blocks[n] = [base |-> KernelStart, length |-> length]
      /\ \A i \in 1..(n - 1) : blocks[i] = [base |-> KernelTop + 1 - i, length |-> 1]
      /\ n <= block_table_size /\ block_table_size = PerPage * length
      /\ length = 1 \/ PerPage * (length - 1) < n
  BY <1>1, Shape
<1>3. PICK length1 : length1 = IF Full THEN length + 1 ELSE length
  OBVIOUS
<1>4. PICK bs : bs = IF Full THEN Grown(blocks) ELSE blocks
  OBVIOUS
<1>5. /\ DOMAIN bs = 1..n /\ bs[n] = [base |-> KernelStart, length |-> length1]
      /\ \A i \in 1..(n - 1) : bs[i] = [base |-> KernelTop + 1 - i, length |-> 1]
  <2>1. CASE Full
    <3>1. bs = [blocks EXCEPT ![n].length = @ + 1] /\ length1 = length + 1
      BY <2>1, <1>1, <1>3, <1>4 DEF Grown
    <3>. QED
      BY <3>1, <1>2
  <2>2. CASE ~Full
    BY <2>2, <1>2, <1>3, <1>4
  <2>. QED
    BY <2>1, <2>2
<1>6. Len(bs) = n
  BY <1>2, <1>5, LenIs
<1>7. blocks' = [j \in 1..(n + 1) |-> IF j <= n - 1 THEN bs[j] ELSE IF j = n THEN NewBlock ELSE bs[n]]
  BY <1>1, <1>2, <1>4, <1>6 DEF Entered
<1>8. NewBlock = [base |-> KernelTop + 1 - n, length |-> 1]
  BY <1>1 DEF NewBlock, Lowest
<1>9. blocks' = [j \in 1..(n + 1) |-> IF j = n + 1 THEN [base |-> KernelStart, length |-> length1]
                                     ELSE [base |-> KernelTop + 1 - j, length |-> 1]]
  BY <1>2, <1>5, <1>7, <1>8
<1>10. Len(blocks') = n + 1
  BY <1>2, <1>9, LenIs
<1>11. blocks'[n + 1] = [base |-> KernelStart, length |-> length1]
  BY <1>2, <1>9
<1>12. Length' = length1
  BY <1>10, <1>11 DEF Length
<1>13. PICK n1 : n1 = n + 1
  OBVIOUS
<1>14. n1 \in 1..(7 + 3 * MaxProcesses) /\ length1 \in Nat \ {0}
  <2>1. n < 7 + 3 * MaxProcesses
    BY <1>1 DEF RoomLeft
  <2>2. n \in Nat \ {0} /\ MaxProcesses \in Nat
    BY <1>2, SizesAssumption
  <2>3. n1 \in 1..(7 + 3 * MaxProcesses)
    BY <2>1, <2>2, <1>13
  <2>4. length \in Nat \ {0}
    BY <1>2
  <2>. QED
    BY <2>3, <2>4, <1>3
<1>15. /\ n1 <= block_table_size' /\ block_table_size' = PerPage * length1
       /\ length1 = 1 \/ PerPage * (length1 - 1) < n1
  <2>1. CASE Full
    <3>1. n = PerPage * length
      BY <2>1, <1>1, <1>2 DEF Full
    <3>2. length1 = length + 1 /\ length1 - 1 = length
      BY <2>1, <1>2, <1>3
    <3>3. PerPage * length1 = PerPage * length + PerPage
      BY <3>2, <1>2, SizesAssumption
    <3>4. block_table_size' = block_table_size + PerPage
      BY <2>1
    <3>5. PICK x : x = PerPage * length
      OBVIOUS
    <3>6. n = x /\ x \in Nat /\ PerPage * length1 = x + PerPage /\ PerPage * (length1 - 1) = x
      BY <3>1, <3>2, <3>3, <3>5, <1>2
    <3>7. block_table_size' = x + PerPage
      BY <3>4, <3>5, <1>2
    <3>8. n1 <= x + PerPage /\ x < n1
      BY <3>6, <1>13, SizesAssumption
    <3>. QED
      BY <3>6, <3>7, <3>8
  <2>2. CASE ~Full
    <3>1. n # block_table_size /\ length1 = length /\ block_table_size' = block_table_size
      BY <2>2, <1>1, <1>3 DEF Full
    <3>2. PICK x, y : x = PerPage * length /\ y = PerPage * (length - 1)
      OBVIOUS
    <3>3. x \in Nat /\ y \in Nat
      <4>1. length \in Nat \ {0} /\ PerPage \in Nat
        BY <1>2, SizesAssumption
      <4>2. PerPage * length \in Nat /\ PerPage * (length - 1) \in Nat
        BY <4>1
      <4>. QED
        BY <3>2, <4>2
    <3>4. /\ n <= block_table_size /\ block_table_size = x
          /\ length = 1 \/ y < n
      BY <3>2, <1>2
    <3>5. n1 <= x /\ (length = 1 \/ y < n1)
      BY <3>1, <3>3, <3>4, <1>2, <1>13
    <3>. QED
      BY <3>1, <3>2, <3>4, <3>5
  <2>. QED
    BY <2>1, <2>2
<1>16. blocks'[Len(blocks')].length = length1
  BY <1>10, <1>11
<1>17. BlocksShape'
  BY ZenonT(60), <1>9, <1>10, <1>13, <1>14, <1>15, <1>16 DEF BlocksShape
<1>. QED
  BY <1>1, <1>3, <1>10, <1>12, <1>17

LEMMA KernelAtNext == \A v : Kernel(v)' = At(entry', v)
BY Zenon DEF Kernel, Translated, At

LEMMA MapKept ==
  ASSUME BlocksShape, KernelMap, RoomLeft,
         Maps(entry, entry', {Lowest} \cup (IF Full THEN {TableEnd} ELSE {})),
         blocks' = Entered(IF Full THEN Grown(blocks) ELSE blocks, Len(blocks) - 1, NewBlock),
         block_table_size' = IF Full THEN block_table_size + PerPage ELSE block_table_size
  PROVE  KernelMap'
<1>1. PICK n, length : n = Len(blocks) /\ length = Length
  OBVIOUS
<1>2. n \in Nat /\ length \in Nat
  BY <1>1, Shape
<1>3. PICK n1, length1 : n1 = Len(blocks') /\ length1 = Length'
  OBVIOUS
<1>4. n1 = n + 1 /\ length1 = IF Full THEN length + 1 ELSE length
  BY <1>1, <1>3, ShapeKept
<1>5. PICK s, t : s = KernelStart /\ t = KernelTop
  OBVIOUS
<1>6. s \in Int /\ t \in Int /\ KernelPages \subseteq Int
  BY <1>5, SizesAssumption DEF KernelStart, KernelTop, LowTable, HighTable, KernelPages
<1>7. SUFFICES ASSUME NEW v \in KernelPages
               PROVE  At(entry', v) # None <=> v > t + 1 - n1 \/ v < s + length1
  BY <1>3, <1>5, KernelAtNext DEF KernelMap, Length
<1>8. At(entry, v) # None <=> v > t + 1 - n \/ v < s + length
  BY <1>1, <1>5, KernelAt DEF KernelMap, Length
<1>9. At(entry', v) # None <=> \/ At(entry, v) # None \/ v = Lowest
                               \/ Full /\ v = TableEnd
  BY DEF Maps
<1>10. Lowest = t + 1 - n /\ TableEnd = s + length
  BY <1>1, <1>5 DEF Lowest, TableEnd
<1>11. v > t + 1 - n1 <=> v > t + 1 - n \/ v = Lowest
  BY <1>2, <1>4, <1>6, <1>10
<1>12. v < s + length1 <=> v < s + length \/ (Full /\ v = TableEnd)
  BY <1>2, <1>4, <1>6, <1>10
<1>. QED
  BY <1>8, <1>9, <1>11, <1>12

LEMMA BlocksTyped ==
  BlocksShape => /\ \A i \in DOMAIN blocks :
                       blocks[i] \in [base : KernelPages, length : 1..PerTable]
                 /\ block_table_size \in Nat
<1>. SUFFICES ASSUME BlocksShape
              PROVE  /\ \A i \in DOMAIN blocks :
                           blocks[i] \in [base : KernelPages, length : 1..PerTable]
                     /\ block_table_size \in Nat
  OBVIOUS
<1>1. PICK n, length : n = Len(blocks) /\ length = Length
  OBVIOUS
<1>2. /\ n \in Nat \ {0} /\ length \in Nat \ {0} /\ DOMAIN blocks = 1..n
      /\ blocks[n] = [base |-> KernelStart, length |-> length]
      /\ \A i \in 1..(n - 1) : blocks[i] = [base |-> KernelTop + 1 - i, length |-> 1]
      /\ n + length <= 2 * PerTable
      /\ length = 1 \/ PerPage * (length - 1) < n
      /\ block_table_size = PerPage * length
  BY <1>1, Shape
<1>3. length <= PerTable
  <2>1. CASE length = 1
    BY <2>1, SizesAssumption
  <2>2. CASE length # 1
    <3>1. PICK k \in Nat : k = length - 1
      BY <1>2
    <3>2. PerPage * k < n /\ k >= 1
      BY <3>1, <1>2, <2>2
    <3>3. 8 * k <= PerPage * k
      BY <3>1, SizesAssumption
    <3>4. PerPage * k \in Nat
      BY <3>1, SizesAssumption
    <3>5. 8 * k < n
      BY <3>1, <3>2, <3>3, <3>4, <1>2
    <3>6. n \in Nat /\ n + (k + 1) <= 2 * PerTable /\ length = k + 1
      BY <3>1, <1>2
    <3>7. k >= 1 /\ PerTable \in Nat
      BY <3>2, SizesAssumption
    <3>. QED
      BY <3>5, <3>6, <3>7
  <2>. QED
    BY <2>1, <2>2
<1>4. KernelStart = 2 * PerTable /\ KernelTop = 4 * PerTable - 1 /\ PerTable \in Nat
  BY SizesAssumption DEF KernelStart, KernelTop, LowTable, HighTable
<1>5. ASSUME NEW i \in 1..n PROVE blocks[i] \in [base : KernelPages, length : 1..PerTable]
  <2>1. CASE i = n
    <3>1. KernelStart \in KernelPages
      BY <1>4, SizesAssumption DEF KernelPages
    <3>. QED
      BY <2>1, <3>1, <1>2, <1>3
  <2>2. CASE i # n
    <3>1. i \in 1..(n - 1)
      BY <2>2, <1>2
    <3>2. i + 1 <= 2 * PerTable
      BY <3>1, <1>2, <1>4
    <3>3. KernelTop + 1 - i \in KernelPages
      BY <3>1, <3>2, <1>2, <1>4 DEF KernelPages
    <3>4. 1 \in 1..PerTable
      BY SizesAssumption
    <3>5. blocks[i] = [base |-> KernelTop + 1 - i, length |-> 1]
      BY <3>1, <1>2
    <3>. QED
      BY <3>3, <3>4, <3>5
  <2>. QED
    BY <2>1, <2>2
<1>6. block_table_size \in Nat
  BY <1>2, SizesAssumption
<1>. QED
  BY <1>2, <1>5, <1>6

\* The pages of a process are in no table of the kernel, nor are they its directory.
LEMMA OwnedOutside ==
  ASSUME SpacesInv, NEW e, NEW f \in SUBSET memory,
         Exclusive(KernelUses(e) \cup ProcessUses(procs, new), f),
         e[kernel_page_dir][UserTable] = 2, e[kernel_page_dir][ImageTable] = 3,
         NEW k \in Owners, NEW a \in DOMAIN Process(k) \cap PageNames
  PROVE  Process(k)[a] \notin KernelTablesOf(e) /\ Process(k)[a] # kernel_page_dir
<1>1. PICK p : p = Process(k)[a]
  OBVIOUS
<1>2. p \in memory /\ p # kernel_page_dir
  BY <1>1, OwnedPage
<1>3. PICK u \in ProcessUses(procs, new) : u = <<<<"process", k, a>>, p>>
  BY <1>1, Parts, OwnedUse
<1>4. SUFFICES ASSUME NEW i \in DOMAIN e[kernel_page_dir], e[kernel_page_dir][i] = p
               PROVE  FALSE
  BY <1>1, <1>2 DEF KernelTablesOf
<1>5. i # UserTable /\ i # ImageTable
  BY <1>2, <1>4, Parts, MemorySize
<1>6. PICK w \in KernelUses(e) : w = <<<<"kernel", i, "table">>, p>>
  BY <1>4, <1>5 DEF KernelUses
<1>7. u[2] = w[2]
  BY <1>3, <1>6
<1>8. u = w
  BY <1>7 DEF Exclusive
<1>9. "process" = "kernel"
  BY <1>3, <1>6, <1>8
<1>. QED
  BY <1>9

\* The tables of a process are kept when the kernel's are written to.
LEMMA OwnedKept ==
  ASSUME SpacesInv, NEW vs, Maps(entry, entry', vs), NEW f \in SUBSET memory,
         Exclusive(KernelUses(entry') \cup ProcessUses(procs, new), f),
         NEW k \in Owners, NEW p, p = Process(k), {"dir", "first", "last"} \subseteq DOMAIN p,
         HasTables(entry, p)
  PROVE  HasTables(entry', p) /\ (HasTss(entry, p) => HasTss(entry', p)) /\ (HasStack(entry, p) => HasStack(entry', p))
<1>1. /\ {UserTable, ImageTable} \subseteq DOMAIN entry[kernel_page_dir]
      /\ entry[kernel_page_dir][UserTable] = 2 /\ entry[kernel_page_dir][ImageTable] = 3
  BY Parts DEF KernelTables
<1>2. entry'[kernel_page_dir][UserTable] = 2 /\ entry'[kernel_page_dir][ImageTable] = 3
  BY <1>1 DEF Maps
<1>3. \A a \in {"dir", "first", "last"} :
         p[a] \notin KernelTablesOf(entry') /\ p[a] # kernel_page_dir
  BY <1>2, OwnedOutside DEF PageNames
<1>4. {p.dir, p.first, p.last} \subseteq DOMAIN entry
  BY DEF HasTables
<1>5. \A q \in {p.dir, p.first, p.last} : q \in DOMAIN entry' /\ entry'[q] = entry[q]
  BY <1>3, <1>4 DEF Maps
<1>6. HighTable \in DOMAIN entry[kernel_page_dir]
  BY DEF HasTables
<1>7. /\ HighTable \in DOMAIN entry'[kernel_page_dir]
      /\ \A i \in {HighTable, ImageTable} : entry'[kernel_page_dir][i] = entry[kernel_page_dir][i]
  BY <1>1, <1>6 DEF Maps
<1>. QED
  BY <1>5, <1>7, TablesKept

LEMMA CompleteKept ==
  ASSUME SpacesInv, NEW vs, Maps(entry, entry', vs), NEW f \in SUBSET memory,
         Exclusive(KernelUses(entry') \cup ProcessUses(procs, new), f), procs' = procs
  PROVE  ProcessesComplete'
<1>1. SUFFICES ASSUME NEW i \in DOMAIN procs, NEW p, p = procs[i]
               PROVE  PageNames \subseteq DOMAIN p /\ HasTables(entry', p) /\ HasTss(entry', p) /\ HasStack(entry', p)
  BY DEF ProcessesComplete
<1>2. PageNames \subseteq DOMAIN p /\ HasTables(entry, p) /\ HasTss(entry, p) /\ HasStack(entry, p)
  BY <1>1, Parts DEF ProcessesComplete
<1>3. i \in Owners /\ p = Process(i)
  <2>1. 0 \notin DOMAIN procs
    BY Parts DEF IsSeq
  <2>. QED
    BY <2>1, <1>1 DEF Owners, Process
<1>4. {"dir", "first", "last"} \subseteq DOMAIN p
  BY <1>2 DEF PageNames
<1>. QED
  BY <1>2, <1>3, <1>4, OwnedKept

\* The parts of SpacesInv' that a step shows.
LEMMA Assembled ==
  ASSUME MemoryOK', free' \subseteq memory', EntriesTyped(entry)',
         BlocksShape', KernelTables', KernelMap', ProcessesComplete', Progress',
         (Exclusive(KernelUses(entry) \cup ProcessUses(procs, new), free))',
         (\A n \in DOMAIN new : new[n] \in memory \cup KernelPages)',
         (\A i \in DOMAIN procs : \A n \in DOMAIN procs[i] : procs[i][n] \in memory \cup KernelPages)',
         IsSeq(todo)',
         IsSeq(procs)', failed' \in BOOLEAN
  PROVE  SpacesInv'
<1>1. OneUseEach'
  <2>1. (Uses = KernelUses(entry) \cup ProcessUses(procs, new))'
    BY UsesAre, PTL
  <2>2. (OneUseEach <=> Exclusive(Uses, free))'
    BY OneUseIs, PTL
  <2>. QED
    BY <2>1, <2>2
<1>2. /\ (\A i \in DOMAIN blocks : blocks[i] \in [base : KernelPages, length : 1..PerTable])'
      /\ block_table_size' \in Nat
  <2>1. (BlocksShape => /\ \A i \in DOMAIN blocks :
                              blocks[i] \in [base : KernelPages, length : 1..PerTable]
                        /\ block_table_size \in Nat)'
    BY BlocksTyped, PTL
  <2>. QED
    BY <2>1
<1>4. TypeOK'
  BY <1>2 DEF TypeOK, EntriesTyped
<1>5. Typed'
  BY DEF Typed
<1>. QED
  BY <1>1, <1>4, <1>5 DEF SpacesInv

-----------------------------------------------------------------------------
(* Where the kernel thread is.                                             *)

LEMMA OwnElements ==
  ASSUME NEW T, NEW s \in Seq(T)
  PROVE  IsSeq(s)
BY DEF IsSeq

LEMMA BootIs ==
  /\ Len(Boot) = 6
  /\ \A i \in 1..5 : Boot[i].op = "virt" /\ Boot[i].name \notin PageNames
  /\ Boot[6].op = "screen"
<1>1. Len(Boot) = 6
  BY DEF Boot
<1>2. /\ Boot[1] = Virt("idt") /\ Boot[2] = Virt("process") /\ Boot[3] = Virt("blocks")
      /\ Boot[4] = Virt("blocks") /\ Boot[5] = Virt("thread") /\ Boot[6] = Do("screen")
  BY DEF Boot
<1>3. \A name : Virt(name).op = "virt" /\ Virt(name).name = name
  BY DEF Virt
<1>4. Do("screen").op = "screen"
  BY DEF Do
<1>5. "idt" \notin PageNames /\ "process" \notin PageNames /\ "blocks" \notin PageNames
      /\ "thread" \notin PageNames
  BY DEF PageNames
<1>. QED
  BY <1>1, <1>2, <1>3, <1>4, <1>5

\* The steps of run_new_process by the number of steps that are left.
LEMMA NewProcessIs ==
  /\ Len(run_new_process) = 12
  /\ run_new_process[13 - 12] = Phys("image") /\ run_new_process[13 - 11] = Phys("first")
  /\ run_new_process[13 - 10] = Phys("last") /\ run_new_process[13 - 9] = Phys("dir")
  /\ run_new_process[13 - 8] = Do("tables") /\ run_new_process[13 - 7] = Phys("tss")
  /\ run_new_process[13 - 6] = Do("tss") /\ run_new_process[13 - 5] = Virt("process")
  /\ run_new_process[13 - 4] = Virt("blocks") /\ run_new_process[13 - 3] = Virt("thread")
  /\ run_new_process[13 - 2] = Do("stack") /\ run_new_process[13 - 1] = Do("link")
<1>1. Len(run_new_process) = 12
  BY DEF run_new_process
<1>. QED
  BY <1>1 DEF run_new_process

LEMMA Remaining ==
  ASSUME NEW steps, Len(steps) \in Nat, IsSeq(todo),
         todo # << >>, todo' = Tail(todo), IsRest(todo, steps)
  PROVE  /\ Len(todo) \in 1..Len(steps) /\ Head(todo) = steps[Len(steps) + 1 - Len(todo)]
         /\ Len(todo') = Len(todo) - 1 /\ IsRest(todo', steps)
         /\ IsSeq(todo')
<1>1. /\ Len(todo) \in 1..Len(steps) /\ Len(todo') = Len(todo) - 1
      /\ todo' \in Seq({todo[i] : i \in DOMAIN todo}) /\ Head(todo) = todo[1]
  BY DEF IsRest, IsSeq
<1>2. Head(todo) = steps[Len(steps) + 1 - Len(todo)]
  <2>1. todo[1] = steps[Len(steps) - Len(todo) + 1]
    BY <1>1 DEF IsRest
  <2>. QED
    BY <2>1, <1>1
<1>3. ASSUME NEW i \in 1..Len(todo')
      PROVE  todo'[i] = steps[Len(steps) - Len(todo') + i]
  <2>1. todo'[i] = todo[i + 1] /\ i + 1 \in 1..Len(todo)
    BY <1>1 DEF IsSeq
  <2>2. todo[i + 1] = steps[Len(steps) - Len(todo) + (i + 1)]
    BY <2>1 DEF IsRest
  <2>3. Len(steps) - Len(todo) + (i + 1) = Len(steps) - Len(todo') + i
    BY <1>1
  <2>. QED
    BY <2>1, <2>2, <2>3
<1>4. IsRest(todo', steps)
  BY <1>1, <1>3 DEF IsRest
<1>5. IsSeq(todo')
  BY <1>1, OwnElements
<1>. QED
  BY <1>1, <1>2, <1>4, <1>5

AtBoot == Booting /\ Len(todo) \in 1..6 /\ Head(todo) = Boot[7 - Len(todo)]
AtStart == Starting /\ Len(todo) \in 1..12 /\ Head(todo) = run_new_process[13 - Len(todo)]

LEMMA Where ==
  ASSUME SpacesInv, NEW op, Takes(op)
  PROVE  /\ ~failed /\ Head(todo).op = op
         /\ IsSeq(todo') /\ Len(todo') = Len(todo) - 1
         /\ \/ AtBoot /\ IsRest(todo', Boot)
            \/ AtStart /\ IsRest(todo', run_new_process)
<1>1. /\ IsSeq(todo) /\ todo # << >> /\ ~failed /\ todo' = Tail(todo)
      /\ Head(todo).op = op
  BY Parts DEF Takes
<1>2. CASE Booting
  <2>1. IsRest(todo, Boot) /\ Len(Boot) = 6 /\ Len(Boot) \in Nat
    BY <1>2, BootIs DEF Booting
  <2>2. PICK r : r = Len(todo)
    OBVIOUS
  <2>3. /\ r \in 1..6 /\ Head(todo) = Boot[6 + 1 - r]
        /\ Len(todo') = Len(todo) - 1 /\ IsRest(todo', Boot) /\ IsSeq(todo')
    <3>1. /\ Len(todo) \in 1..Len(Boot)
          /\ Head(todo) = Boot[Len(Boot) + 1 - Len(todo)]
          /\ Len(todo') = Len(todo) - 1 /\ IsRest(todo', Boot) /\ IsSeq(todo')
      BY <2>1, <1>1, Remaining
    <3>. QED
      BY <2>1, <2>2, <3>1
  <2>4. 6 + 1 - r = 7 - r
    BY <2>3
  <2>5. AtBoot
    BY <1>2, <2>2, <2>3, <2>4 DEF AtBoot
  <2>. QED
    BY <1>1, <2>3, <2>5
<1>3. CASE Starting
  <2>1. IsRest(todo, run_new_process) /\ Len(run_new_process) = 12 /\ Len(run_new_process) \in Nat
    BY <1>3, NewProcessIs DEF Starting
  <2>2. PICK r : r = Len(todo)
    OBVIOUS
  <2>3. /\ r \in 1..12 /\ Head(todo) = run_new_process[12 + 1 - r]
        /\ Len(todo') = Len(todo) - 1 /\ IsRest(todo', run_new_process) /\ IsSeq(todo')
    <3>1. /\ Len(todo) \in 1..Len(run_new_process)
          /\ Head(todo) = run_new_process[Len(run_new_process) + 1 - Len(todo)]
          /\ Len(todo') = Len(todo) - 1 /\ IsRest(todo', run_new_process) /\ IsSeq(todo')
      BY <2>1, <1>1, Remaining
    <3>. QED
      BY <2>1, <2>2, <3>1
  <2>4. 12 + 1 - r = 13 - r
    BY <2>3
  <2>5. AtStart
    BY <1>3, <2>2, <2>3, <2>4 DEF AtStart
  <2>. QED
    BY <1>1, <2>3, <2>5
<1>. QED
  BY <1>1, <1>2, <1>3, Parts DEF Progress, Idle

\* What a step of run_new_process is, by the number of steps that are left.
IsStep(step, r) == r \in 1..12 /\ step = run_new_process[13 - r]

LEMMA ProcessStep ==
  ASSUME NEW r, NEW step, IsStep(step, r)
  PROVE  /\ step.op = "phys" => r \in {12, 11, 10, 9, 7}
         /\ step.op = "virt" => r \in {5, 4, 3} /\ step.name \notin PageNames
         /\ step.op = "tables" => r = 8
         /\ step.op = "tss" => r = 6
         /\ step.op = "stack" => r = 2
         /\ step.op = "link" => r = 1
         /\ step.op # "screen"
         /\ r = 12 => step.name = "image"
         /\ r = 11 => step.name = "first"
         /\ r = 10 => step.name = "last"
         /\ r = 9 => step.name = "dir"
         /\ r = 7 => step.name = "tss"
<1>1. \A name : /\ Virt(name).op = "virt" /\ Virt(name).name = name
                /\ Phys(name).op = "phys" /\ Phys(name).name = name
                /\ Do(name).op = name
  BY DEF Virt, Phys, Do
<1>2. "process" \notin PageNames /\ "blocks" \notin PageNames /\ "thread" \notin PageNames
  BY DEF PageNames
<1>3. /\ r = 12 => step = Phys("image")
      /\ r = 11 => step = Phys("first")
      /\ r = 10 => step = Phys("last")
      /\ r = 9 => step = Phys("dir")
      /\ r = 7 => step = Phys("tss")
  BY NewProcessIs DEF IsStep
<1>4. /\ r = 5 => step = Virt("process")
      /\ r = 4 => step = Virt("blocks")
      /\ r = 3 => step = Virt("thread")
  BY NewProcessIs DEF IsStep
<1>5. /\ r = 8 => step = Do("tables")
      /\ r = 6 => step = Do("tss")
      /\ r = 2 => step = Do("stack")
      /\ r = 1 => step = Do("link")
  BY NewProcessIs DEF IsStep
<1>6. \/ r = 12 \/ r = 11 \/ r = 10 \/ r = 9 \/ r = 8 \/ r = 7
      \/ r = 6 \/ r = 5 \/ r = 4 \/ r = 3 \/ r = 2 \/ r = 1
  BY DEF IsStep
<1>7. CASE r \in {12, 11, 10, 9, 7}
  BY <1>1, <1>3, <1>7
<1>8. CASE r \in {5, 4, 3}
  BY <1>1, <1>2, <1>4, <1>8
<1>9. CASE r \in {8, 6, 2, 1}
  BY <1>1, <1>5, <1>9
<1>. QED
  BY <1>6, <1>7, <1>8, <1>9

LEMMA PagesMadeIs ==
  /\ PagesMade(12) = {}
  /\ PagesMade(11) = PagesMade(12) \cup {"image"} /\ "image" \notin PagesMade(12)
  /\ PagesMade(10) = PagesMade(11) \cup {"first"} /\ "first" \notin PagesMade(11)
  /\ PagesMade(9) = PagesMade(10) \cup {"last"} /\ "last" \notin PagesMade(10)
  /\ PagesMade(8) = PagesMade(9) \cup {"dir"} /\ "dir" \notin PagesMade(9)
  /\ PagesMade(7) = PagesMade(8)
  /\ PagesMade(6) = PagesMade(7) \cup {"tss"} /\ "tss" \notin PagesMade(7)
  /\ \A r \in {5, 4, 3, 2} : PagesMade(r) = PagesMade(6)
  /\ PagesMade(1) = PagesMade(2) \cup {"stack"} /\ "stack" \notin PagesMade(2)
  /\ PagesMade(1) = PageNames
  /\ \A r \in 1..8 : {"image", "first", "last", "dir"} \subseteq PagesMade(r)
  /\ \A r \in 1..6 : "tss" \in PagesMade(r)
<1>1. /\ PagesMade(12) = {} /\ PagesMade(11) = {"image"} /\ PagesMade(10) = {"image", "first"}
      /\ PagesMade(9) = {"image", "first", "last"}
      /\ PagesMade(8) = {"image", "first", "last", "dir"}
      /\ PagesMade(7) = {"image", "first", "last", "dir"}
  BY DEF PagesMade
<1>2. /\ \A r \in {6, 5, 4, 3, 2} : PagesMade(r) = {"image", "first", "last", "dir", "tss"}
      /\ PagesMade(1) = {"image", "first", "last", "dir", "tss", "stack"}
  BY DEF PagesMade
<1>3. \A r \in 1..6 : r \in {6, 5, 4, 3, 2} \/ r = 1
  OBVIOUS
<1>4. \A r \in 1..8 : r \in 1..6 \/ r = 7 \/ r = 8
  OBVIOUS
<1>. QED
  BY <1>1, <1>2, <1>3, <1>4 DEF PageNames

LEMMA BlocksMadeIs ==
  /\ \A r \in 6..12 : BlocksMade(r) = 0
  /\ BlocksMade(5) = 0 /\ BlocksMade(4) = 1 /\ BlocksMade(3) = 2
  /\ BlocksMade(2) = 3 /\ BlocksMade(1) = 3
BY DEF BlocksMade

-----------------------------------------------------------------------------
(* An allocation in kernel memory keeps every part but Progress.           *)

LEMMA Allocated ==
  ASSUME SpacesInv, RoomLeft, NEW r, NEW page, Effect(r, page, ProcessUses(procs, new)), Result(r),
         memory' = memory, procs' = procs
  PROVE  /\ free' \subseteq memory /\ EntriesTyped(entry)' /\ BlocksShape' /\ KernelTables'
         /\ KernelMap' /\ ProcessesComplete'
         /\ Exclusive(KernelUses(entry') \cup ProcessUses(procs, new), free')
         /\ failed' \in BOOLEAN
         /\ ~failed' => Len(blocks') = Len(blocks) + 1
         /\ {"dir", "first", "last"} \subseteq DOMAIN new /\ HasTables(entry, new) =>
              /\ HasTables(entry', new)
              /\ HasTss(entry, new) => HasTss(entry', new)
              /\ HasStack(entry, new) => HasStack(entry', new)
         /\ \A w \in KernelPages : At(entry', w) = VideoMemory => \/ At(entry, w) = VideoMemory
                                                                \/ page = VideoMemory
<1>1. /\ MemoryOK /\ BlocksShape /\ KernelTables /\ KernelMap /\ Separate(entry)
      /\ EntriesTyped(entry)
  BY Parts
<1>2. PICK vs : vs = IF r.ok THEN {Lowest} \cup (IF Full THEN {TableEnd} ELSE {}) ELSE {}
  OBVIOUS
<1>3. /\ Maps(entry, entry', vs)
      /\ Exclusive(KernelUses(entry') \cup ProcessUses(procs, new), free') /\ free' \subseteq memory
      /\ DOMAIN entry'[kernel_page_dir] \subseteq {UserTable, LowTable, HighTable, ImageTable}
      /\ \A i \in DOMAIN entry'[kernel_page_dir] \ {UserTable, ImageTable} :
            entry'[kernel_page_dir][i] \in memory
      /\ HighTable \in DOMAIN entry'[kernel_page_dir] <=> Len(blocks) # 1 \/ r.ok
      /\ \A w \in KernelPages : At(entry', w) = VideoMemory => \/ At(entry, w) = VideoMemory
                                                             \/ page = VideoMemory
      /\ failed' = ~r.ok /\ r.ok \in BOOLEAN
  BY <1>2 DEF Effect, Result
<1>4. EntriesTyped(entry)'
  BY <1>3 DEF Maps, EntriesTyped, Targets
<1>5. /\ BlocksShape' /\ KernelMap'
      /\ Len(blocks') # 1 <=> Len(blocks) # 1 \/ r.ok
      /\ r.ok => Len(blocks') = Len(blocks) + 1
  <2>1. CASE r.ok
    <3>1. /\ blocks' = Entered(IF Full THEN Grown(blocks) ELSE blocks, Len(blocks) - 1, NewBlock)
          /\ block_table_size' = IF Full THEN block_table_size + PerPage ELSE block_table_size
      BY <2>1 DEF Effect, Result
    <3>2. BlocksShape' /\ Len(blocks') = Len(blocks) + 1
      BY <3>1, <1>1, ShapeKept
    <3>3. KernelMap'
      BY <3>1, <2>1, <1>1, <1>2, <1>3, MapKept
    <3>4. Len(blocks') # 1
      BY <3>2, <1>1, Shape
    <3>. QED
      BY <2>1, <3>2, <3>3, <3>4
  <2>2. CASE ~r.ok
    <3>1. blocks' = blocks /\ block_table_size' = block_table_size /\ vs = {}
      BY <2>2, <1>2 DEF Result
    <3>2. BlocksShape'
      BY <3>1, <1>1 DEF BlocksShape
    <3>3. \A v \in KernelPages : Kernel(v)' # None <=> Kernel(v) # None
      BY <3>1, <1>3, KernelAt, KernelAtNext DEF Maps
    <3>4. KernelMap'
      BY <3>1, <3>3, <1>1 DEF KernelMap
    <3>. QED
      BY <2>2, <3>1, <3>2, <3>4
  <2>. QED
    BY <2>1, <2>2, <1>3
<1>6. KernelTables'
  <2>1. Len(blocks') \in Nat \ {0}
    <3>1. (BlocksShape => Len(blocks) \in Nat \ {0})'
      BY Shape, PTL
    <3>. QED
      BY <3>1, <1>5
  <2>2. Len(blocks') > 1 <=> Len(blocks') # 1
    <3>1. \A n \in Nat \ {0} : n > 1 <=> n # 1
      OBVIOUS
    <3>. QED
      BY <2>1, <3>1
  <2>3. /\ 1..3 \subseteq DOMAIN entry'
        /\ {UserTable, LowTable, ImageTable} \subseteq DOMAIN entry'[kernel_page_dir]
        /\ entry'[kernel_page_dir][UserTable] = 2 /\ entry'[kernel_page_dir][ImageTable] = 3
    BY <1>1, <1>3 DEF Maps, KernelTables
  <2>4. \A i \in DOMAIN entry'[kernel_page_dir] : entry'[kernel_page_dir][i] \in DOMAIN entry'
    BY <1>3 DEF Maps, Separate
  <2>5. HighTable \in DOMAIN entry'[kernel_page_dir] <=> Len(blocks') > 1
    BY <2>2, <1>3, <1>5
  <2>. QED
    BY <2>3, <2>4, <2>5, <1>3 DEF KernelTables
<1>7. ProcessesComplete'
  BY <1>3, CompleteKept
<1>8. {"dir", "first", "last"} \subseteq DOMAIN new /\ HasTables(entry, new) =>
        /\ HasTables(entry', new)
        /\ HasTss(entry, new) => HasTss(entry', new)
        /\ HasStack(entry, new) => HasStack(entry', new)
  <2>1. 0 \in Owners /\ new = Process(0)
    BY DEF Owners, Process
  <2>. QED
    BY <2>1, <1>3, OwnedKept
<1>9. failed' \in BOOLEAN /\ (~failed' => r.ok)
  BY <1>3
<1>. QED
  BY <1>3, <1>4, <1>5, <1>6, <1>7, <1>8, <1>9

-----------------------------------------------------------------------------
(* The steps one by one.                                                   *)

LEMMA BootStep ==
  ASSUME AtBoot
  PROVE  /\ Head(todo).op \in {"virt", "screen"}
         /\ Head(todo).op = "virt" => Len(todo) \in 2..6 /\ Head(todo).name \notin PageNames
         /\ Head(todo).op = "screen" => Len(todo) = 1
<1>1. PICK r \in 1..6 : r = Len(todo) /\ Head(todo) = Boot[7 - r]
  BY DEF AtBoot
<1>2. CASE r = 1
  <2>1. Head(todo) = Boot[6]
    BY <1>1, <1>2
  <2>2. Head(todo).op = "screen"
    BY <2>1, BootIs
  <2>. QED
    BY <1>1, <1>2, <2>2
<1>3. CASE r # 1
  <2>1. 7 - r \in 1..5 /\ r \in 2..6
    BY <1>3
  <2>2. Head(todo).op = "virt" /\ Head(todo).name \notin PageNames
    BY <1>1, <2>1, BootIs
  <2>. QED
    BY <1>1, <2>1, <2>2
<1>. QED
  BY <1>2, <1>3

\* A step that only run_new_process has.
LEMMA Starts ==
  ASSUME SpacesInv, NEW op \in {"phys", "tables", "tss", "stack", "link"}, Takes(op),
         NEW r, r = Len(todo)
  PROVE  /\ Starting /\ ~failed /\ r \in 1..12 /\ Len(todo') = r - 1
         /\ IsRest(todo', run_new_process) /\ IsSeq(todo')
         /\ op = "phys" => r \in {12, 11, 10, 9, 7}
         /\ op = "tables" => r = 8
         /\ op = "tss" => r = 6
         /\ op = "stack" => r = 2
         /\ op = "link" => r = 1
         /\ r = 12 => Head(todo).name = "image"
         /\ r = 11 => Head(todo).name = "first"
         /\ r = 10 => Head(todo).name = "last"
         /\ r = 9 => Head(todo).name = "dir"
         /\ r = 7 => Head(todo).name = "tss"
<1>1. ~failed /\ Head(todo).op = op /\ IsSeq(todo') /\ Len(todo') = r - 1
  BY Where
<1>2. AtStart /\ IsRest(todo', run_new_process)
  <2>1. ~AtBoot
    BY <1>1, BootStep
  <2>. QED
    BY <2>1, Where
<1>3. PICK step : step = Head(todo)
  OBVIOUS
<1>4. Starting /\ r \in 1..12 /\ step = run_new_process[13 - r]
  BY <1>2, <1>3 DEF AtStart
<1>5. IsStep(step, r)
  BY <1>4 DEF IsStep
<1>6. /\ step.op = "phys" => r \in {12, 11, 10, 9, 7}
      /\ step.op = "tables" => r = 8
      /\ step.op = "tss" => r = 6
      /\ step.op = "stack" => r = 2
      /\ step.op = "link" => r = 1
      /\ r = 12 => step.name = "image"
      /\ r = 11 => step.name = "first"
      /\ r = 10 => step.name = "last"
      /\ r = 9 => step.name = "dir"
      /\ r = 7 => step.name = "tss"
  BY ZenonT(60), <1>5, ProcessStep
<1>7. Head(todo).op = step.op /\ Head(todo).name = step.name /\ step.op = op
  BY <1>1, <1>3
<1>8. /\ op = "phys" => r \in {12, 11, 10, 9, 7}
      /\ op = "tables" => r = 8
      /\ op = "tss" => r = 6
      /\ op = "stack" => r = 2
      /\ op = "link" => r = 1
  BY ZenonT(30), <1>6, <1>7
<1>9. /\ r = 12 => Head(todo).name = "image"
      /\ r = 11 => Head(todo).name = "first"
      /\ r = 10 => Head(todo).name = "last"
      /\ r = 9 => Head(todo).name = "dir"
      /\ r = 7 => Head(todo).name = "tss"
  BY ZenonT(30), <1>6, <1>7
<1>. QED
  BY ZenonT(30), <1>1, <1>2, <1>4, <1>8, <1>9

LEMMA WithIs ==
  ASSUME NEW f, NEW name, NEW page
  PROVE  /\ DOMAIN With(f, name, page) = DOMAIN f \cup {name} /\ With(f, name, page)[name] = page
         /\ \A n \in DOMAIN f \ {name} : With(f, name, page)[n] = f[n]
BY DEF With

LEMMA WithKeeps ==
  ASSUME NEW p, NEW name, NEW page, NEW q, q = With(p, name, page), NEW e,
         {"dir", "first", "last", "image"} \subseteq DOMAIN p,
         name \notin {"dir", "first", "last", "image"}
  PROVE  /\ HasTables(e, p) => HasTables(e, q)
         /\ name # "tss" /\ "tss" \in DOMAIN p /\ HasTss(e, p) => HasTss(e, q)
         /\ q.dir = p.dir /\ q.first = p.first /\ q.last = p.last /\ q.image = p.image
<1>1. q.dir = p.dir /\ q.first = p.first /\ q.last = p.last /\ q.image = p.image
  <2>1. \A n \in DOMAIN p \ {name} : q[n] = p[n]
    BY DEF With
  <2>2. {"dir", "first", "last", "image"} \subseteq DOMAIN p \ {name}
    OBVIOUS
  <2>. QED
    BY <2>1, <2>2
<1>2. HasTables(e, p) => HasTables(e, q)
  BY <1>1 DEF HasTables
<1>3. name # "tss" /\ "tss" \in DOMAIN p => q.tss = p.tss
  <2>1. \A n \in DOMAIN p \ {name} : q[n] = p[n]
    BY DEF With
  <2>. QED
    BY <2>1
<1>4. name # "tss" /\ "tss" \in DOMAIN p /\ HasTss(e, p) => HasTss(e, q)
  BY <1>1, <1>3 DEF HasTss
<1>. QED
  BY <1>1, <1>2, <1>4

LEMMA SameSpaces ==
  ASSUME SpacesInv, UNCHANGED <<entry, blocks, block_table_size, memory>>
  PROVE  /\ MemoryOK' /\ EntriesTyped(entry)' /\ BlocksShape' /\ KernelTables' /\ KernelMap'
         /\ procs' = procs => ProcessesComplete'
<1>1. /\ MemoryOK /\ EntriesTyped(entry) /\ BlocksShape /\ KernelTables /\ KernelMap
      /\ ProcessesComplete
  BY Parts
<1>2. MemoryOK'
  BY <1>1 DEF MemoryOK
<1>3. EntriesTyped(entry)'
  BY <1>1 DEF EntriesTyped, Targets
<1>4. BlocksShape'
  BY <1>1 DEF BlocksShape
<1>5. KernelTables'
  BY <1>1 DEF KernelTables
<1>6. KernelMap'
  BY <1>1, KernelAt, KernelAtNext DEF KernelMap
<1>7. procs' = procs => ProcessesComplete'
  BY <1>1 DEF ProcessesComplete
<1>. QED
  BY <1>2, <1>3, <1>4, <1>5, <1>6, <1>7

\* What is left to show of a step that ends in a failure.
LEMMA FailedAnyhow ==
  ASSUME SpacesInv, UNCHANGED <<free, entry, blocks, block_table_size, new, memory, procs>>,
         IsSeq(todo'), failed' = TRUE
  PROVE  SpacesInv'
<1>1. /\ MemoryOK' /\ EntriesTyped(entry)' /\ BlocksShape' /\ KernelTables' /\ KernelMap'
      /\ ProcessesComplete'
  BY SameSpaces
<1>2. /\ free' \subseteq memory'
      /\ (Exclusive(KernelUses(entry) \cup ProcessUses(procs, new), free))'
      /\ (\A n \in DOMAIN new : new[n] \in memory \cup KernelPages)'
      /\ (\A i \in DOMAIN procs : \A n \in DOMAIN procs[i] : procs[i][n] \in memory \cup KernelPages)'
      /\ IsSeq(procs)'
  BY Parts DEF Exclusive
<1>3. Progress'
  BY DEF Progress
<1>. QED
  BY <1>1, <1>2, <1>3, Assembled

LEMMA PhysKeeps ==
  ASSUME SpacesInv, alloc_phys_pages
  PROVE  SpacesInv'
<1>1. PICK r : r = Len(todo)
  OBVIOUS
<1>2. Takes("phys") /\ UNCHANGED <<memory, procs, entry, blocks, block_table_size>>
  BY DEF alloc_phys_pages, Unused
<1>3. /\ Starting /\ ~failed /\ r \in {12, 11, 10, 9, 7} /\ Len(todo') = r - 1
      /\ IsRest(todo', run_new_process) /\ IsSeq(todo')
      /\ r = 12 => Head(todo).name = "image"
      /\ r = 11 => Head(todo).name = "first"
      /\ r = 10 => Head(todo).name = "last"
      /\ r = 9 => Head(todo).name = "dir"
      /\ r = 7 => Head(todo).name = "tss"
  BY <1>1, <1>2, Starts
<1>4. CASE free = {}
  BY <1>2, <1>3, <1>4, FailedAnyhow DEF alloc_phys_pages
<1>5. CASE free # {}
  <2>1. PICK name, page : name = Head(todo).name /\ page = Pick(free)
    OBVIOUS
  <2>2. free' = free \ {page} /\ new' = With(new, name, page) /\ failed' = failed
    BY <1>5, <2>1 DEF alloc_phys_pages, Rest
  <2>3. page \in free /\ free \subseteq memory /\ page \in memory
    BY <1>5, <2>1, FreePage, Parts
  <2>4. /\ MemoryOK' /\ EntriesTyped(entry)' /\ BlocksShape' /\ KernelTables' /\ KernelMap'
        /\ ProcessesComplete'
    BY <1>2, SameSpaces
  <2>5. DOMAIN new \cap PageNames = PagesMade(r) /\ (r < 8 => HasTables(entry, new))
    BY <1>1, <1>3 DEF Starting
  <2>6. /\ PagesMade(r - 1) = PagesMade(r) \cup {name} /\ name \notin PagesMade(r)
        /\ name \in PageNames
    BY <1>3, <2>1, PagesMadeIs DEF PageNames
  <2>7. name \notin DOMAIN new
    BY <2>5, <2>6
  <2>8. ProcessUses(procs, new') = ProcessUses(procs, new) \cup {<<<<"process", 0, name>>, page>>}
    BY <2>2, <2>6, <2>7, NewUses
  <2>9. (Exclusive(KernelUses(entry) \cup ProcessUses(procs, new), free))'
    <3>1. PICK u : u = KernelUses(entry) \cup ProcessUses(procs, new)
      OBVIOUS
    <3>2. Exclusive(u, free) /\ VideoMemory \notin memory
      BY <3>1, Parts, MemorySize DEF VideoMemory
    <3>3. Exclusive(u \cup {<<<<"process", 0, name>>, page>>}, free \ {page})
      BY <2>3, <3>2, ExclusiveAdds
    <3>4. KernelUses(entry') \cup ProcessUses(procs', new') = u \cup {<<<<"process", 0, name>>, page>>}
      BY <1>2, <2>8, <3>1
    <3>. QED
      BY <1>2, <2>2, <3>3, <3>4 DEF Exclusive
  <2>10. (\A n \in DOMAIN new : new[n] \in memory \cup KernelPages)'
    BY <1>2, <2>2, <2>3, Parts DEF With
  <2>11. /\ (\A i \in DOMAIN procs : \A n \in DOMAIN procs[i] : procs[i][n] \in memory \cup KernelPages)'
         /\ IsSeq(procs)' /\ failed' \in BOOLEAN
    BY <1>2, <2>2, Parts
  <2>12. Starting'
    <3>1. DOMAIN new' \cap PageNames = PagesMade(r - 1)
      BY <2>2, <2>5, <2>6 DEF With
    <3>2. r - 1 < 8 => r = 7
      BY <1>3
    <3>3. r = 7 => HasTables(entry', new')
      <4>1. SUFFICES ASSUME r = 7 PROVE HasTables(entry', new')
        OBVIOUS
      <4>2. {"dir", "first", "last", "image"} \subseteq DOMAIN new /\ HasTables(entry, new)
        BY <4>1, <2>5, PagesMadeIs
      <4>3. name \notin {"dir", "first", "last", "image"}
        BY <4>1, <1>3, <2>1
      <4>4. HasTables(entry, With(new, name, page))
        BY <4>2, <4>3, WithKeeps
      <4>. QED
        BY <4>4, <2>2, <1>2
    <3>4. r - 1 \in 6..12 /\ r \in 6..12 /\ ~(r - 1 < 6) /\ ~(r - 1 < 2)
      BY <1>3
    <3>5. /\ Len(blocks') = 7 + 3 * Len(procs') + BlocksMade(r - 1) /\ Len(procs') < MaxProcesses
      <4>1. Len(blocks) = 7 + 3 * Len(procs) + BlocksMade(r) /\ Len(procs) < MaxProcesses
        BY <1>1, <1>3 DEF Starting
      <4>. QED
        BY <4>1, <3>4, <1>2, BlocksMadeIs
    <3>6. r - 1 > 0
      BY <3>4
    <3>. QED
      BY <1>3, <3>1, <3>2, <3>3, <3>4, <3>5, <3>6 DEF Starting
  <2>13. Progress'
    BY <2>12 DEF Progress
  <2>14. free' \subseteq memory'
    BY <1>2, <2>2, <2>3
  <2>. QED
    BY <1>3, <2>4, <2>9, <2>10, <2>11, <2>13, <2>14, Assembled
<1>. QED
  BY <1>4, <1>5

LEMMA VirtWhere ==
  ASSUME SpacesInv, Takes("virt"), NEW r, r = Len(todo)
  PROVE  /\ ~failed /\ Head(todo).name \notin PageNames /\ RoomLeft
         /\ IsSeq(todo') /\ Len(todo') = r - 1
         /\ \/ Booting /\ r \in 2..6 /\ IsRest(todo', Boot)
            \/ Starting /\ r \in {5, 4, 3} /\ IsRest(todo', run_new_process)
<1>1. ~failed /\ Head(todo).op = "virt" /\ IsSeq(todo') /\ Len(todo') = r - 1
  BY Where
<1>2. CASE AtBoot /\ IsRest(todo', Boot)
  <2>1. Head(todo).name \notin PageNames /\ r \in 2..6
    BY <1>1, <1>2, BootStep
  <2>2. Booting /\ Len(blocks) = 7 - r
    BY <1>2 DEF AtBoot, Booting
  <2>3. RoomLeft
    BY <2>1, <2>2, SizesAssumption DEF RoomLeft
  <2>. QED
    BY <1>1, <1>2, <2>1, <2>2, <2>3
<1>3. CASE AtStart /\ IsRest(todo', run_new_process)
  <2>1. PICK step : step = Head(todo)
    OBVIOUS
  <2>2. IsStep(step, r) /\ Starting
    BY <1>3, <2>1 DEF AtStart, IsStep
  <2>3. r \in {5, 4, 3} /\ step.name \notin PageNames
    BY <1>1, <2>1, <2>2, ProcessStep
  <2>4. RoomLeft
    <3>1. PICK k, m : k = Len(procs) /\ m = BlocksMade(r)
      OBVIOUS
    <3>2. Len(blocks) = 7 + 3 * k + m /\ k < MaxProcesses
      BY <2>2, <3>1 DEF Starting
    <3>3. m \in {0, 1, 2}
      BY <2>3, <3>1, BlocksMadeIs
    <3>4. k \in Nat
      BY <3>1, Parts DEF IsSeq
    <3>5. 7 + 3 * k + m < 7 + 3 * MaxProcesses
      BY <3>2, <3>3, <3>4, SizesAssumption
    <3>. QED
      BY <3>2, <3>5 DEF RoomLeft
  <2>. QED
    BY <1>1, <1>3, <2>1, <2>2, <2>3, <2>4
<1>. QED
  BY <1>2, <1>3, Where

LEMMA VirtSteps ==
  \A r \in {5, 4, 3} : /\ BlocksMade(r) \in {0, 1, 2} /\ BlocksMade(r - 1) = BlocksMade(r) + 1
                        /\ PagesMade(r - 1) = PagesMade(r)
                        /\ r - 1 > 0 /\ ~(r - 1 < 2) /\ r < 6 /\ r < 8
BY BlocksMadeIs, PagesMadeIs

\* Progress' when a block has been made.
LEMMA VirtProgress ==
  ASSUME SpacesInv, NEW r, r = Len(todo), procs' = procs, Len(todo') = r - 1,
         Len(blocks') = Len(blocks) + 1, DOMAIN new' \cap PageNames = DOMAIN new \cap PageNames,
         \/ Booting /\ r \in 2..6 /\ IsRest(todo', Boot)
         \/ Starting /\ r \in {5, 4, 3} /\ IsRest(todo', run_new_process),
         Booting => \A v \in KernelPages : At(entry', v) # VideoMemory,
         Starting => HasTables(entry', new') /\ (r < 6 => HasTss(entry', new'))
  PROVE  Progress'
<1>1. CASE Booting /\ r \in 2..6 /\ IsRest(todo', Boot)
  <2>1. Len(blocks) = 7 - r /\ procs = << >> /\ DOMAIN new \cap PageNames = {}
    BY <1>1 DEF Booting
  <2>2. Len(blocks') = 7 - (r - 1)
    BY <1>1, <2>1
  <2>3. \A v \in KernelPages : Kernel(v)' # VideoMemory
    BY <1>1, KernelAtNext
  <2>4. Booting'
    BY <1>1, <2>1, <2>2, <2>3 DEF Booting
  <2>. QED
    BY <2>4 DEF Progress
<1>2. CASE Starting /\ r \in {5, 4, 3} /\ IsRest(todo', run_new_process)
  <2>1. PICK k, m : k = 7 + 3 * Len(procs) /\ m = BlocksMade(r)
    OBVIOUS
  <2>2. Len(blocks) = k + m /\ Len(procs) < MaxProcesses /\ DOMAIN new \cap PageNames = PagesMade(r)
    BY <1>2, <2>1 DEF Starting
  <2>3. k \in Nat
    BY <2>1, Parts DEF IsSeq
  <2>4. m \in {0, 1, 2} /\ BlocksMade(r - 1) = m + 1
    BY <1>2, <2>1, VirtSteps
  <2>5. Len(blocks') = k + BlocksMade(r - 1)
    BY <2>2, <2>3, <2>4
  <2>6. PagesMade(r - 1) = PagesMade(r)
    BY <1>2, VirtSteps
  <2>7. /\ r - 1 > 0 /\ ~(r - 1 < 2) /\ r < 6
    BY <1>2, VirtSteps
  <2>8. Starting'
    BY <1>2, <2>1, <2>2, <2>5, <2>6, <2>7 DEF Starting
  <2>. QED
    BY <2>8 DEF Progress
<1>. QED
  BY <1>1, <1>2

\* The uses after a page has been taken from the free ones and is mapped.
LEMMA VirtEffect ==
  ASSUME SpacesInv, RoomLeft, free # {}, NEW page, page = Pick(free),
         NEW r, r = AllocVirt(page, Rest(free))
  PROVE  Effect(r, page, ProcessUses(procs, new)) /\ page \in memory
<1>1. /\ MemoryOK /\ BlocksShape /\ KernelTables /\ KernelMap /\ Separate(entry)
      /\ EntriesTyped(entry) /\ free \in SUBSET memory
      /\ Exclusive(KernelUses(entry) \cup ProcessUses(procs, new), free)
  BY Parts
<1>2. PICK o : o = ProcessUses(procs, new)
  OBVIOUS
<1>3. PICK f : f = Rest(free)
  OBVIOUS
<1>4. page \in free /\ page \in memory /\ VideoMemory \notin memory /\ page # VideoMemory
  BY <1>1, FreePage, MemorySize DEF VideoMemory
<1>5. f = free \ {page} /\ f \in SUBSET memory /\ free = f \cup {page}
  BY <1>1, <1>3, <1>4 DEF Rest
<1>6. CASE First
  BY <1>1, <1>2, <1>3, <1>6, FirstEffect, <1>4
<1>7. CASE More
  <2>1. Exclusive(KernelUses(entry) \cup o, free)
    BY <1>1, <1>2
  <2>2. Exclusive((KernelUses(entry) \cup {<<<<"kernel", Lowest, "page">>, page>>}) \cup o, f)
    BY <1>1, <1>4, <1>5, <2>1, PageMapped
  <2>3. Exclusive(KernelUses(entry) \cup o, f \cup {page})
    BY <1>5, <2>1
  <2>4. r = AllocVirt(page, f)
    BY <1>3
  <2>. QED
    BY <1>1, <1>2, <1>4, <1>5, <1>7, <2>2, <2>3, <2>4, MoreEffect
<1>. QED
  BY <1>6, <1>7 DEF First, More

\* A boot step is not one of run_new_process, by the number of the blocks.
LEMMA TwoPhases ==
  ASSUME SpacesInv, Starting
  PROVE  ~Booting
<1>1. PICK k, m, r, n : k = Len(procs) /\ m = BlocksMade(r) /\ r = Len(todo) /\ n = Len(blocks)
  OBVIOUS
<1>2. n = 7 + 3 * k + m /\ r > 0
  BY <1>1 DEF Starting
<1>3. k \in Nat /\ r \in Nat
  BY <1>1, Parts DEF IsSeq
<1>4. m \in Nat
  BY <1>1 DEF BlocksMade
<1>5. n # 7 - r
  BY <1>2, <1>3, <1>4
<1>. QED
  BY <1>1, <1>5 DEF Booting

LEMMA VirtKeeps ==
  ASSUME SpacesInv, alloc_virt_pages
  PROVE  SpacesInv'
<1>1. PICK r, name : r = Len(todo) /\ name = Head(todo).name
  OBVIOUS
<1>2. Takes("virt") /\ UNCHANGED <<memory, procs>>
  BY DEF alloc_virt_pages, Unused
<1>3. /\ ~failed /\ name \notin PageNames /\ RoomLeft /\ IsSeq(todo') /\ Len(todo') = r - 1
      /\ \/ Booting /\ r \in 2..6 /\ IsRest(todo', Boot)
         \/ Starting /\ r \in {5, 4, 3} /\ IsRest(todo', run_new_process)
  BY <1>1, <1>2, VirtWhere
<1>4. CASE free = {}
  BY <1>2, <1>3, <1>4, FailedAnyhow DEF alloc_virt_pages
<1>5. CASE free # {}
  <2>1. PICK page, a : page = Pick(free) /\ a = AllocVirt(page, Rest(free))
    OBVIOUS
  <2>2. Result(a) /\ new' = IF a.ok THEN With(new, name, a.vaddr) ELSE new
    BY <1>1, <1>5, <2>1 DEF alloc_virt_pages
  <2>3. Effect(a, page, ProcessUses(procs, new)) /\ page \in memory
    BY <1>3, <1>5, <2>1, VirtEffect
  <2>4. /\ free' \subseteq memory /\ EntriesTyped(entry)' /\ BlocksShape' /\ KernelTables'
        /\ KernelMap' /\ ProcessesComplete' /\ failed' \in BOOLEAN
        /\ Exclusive(KernelUses(entry') \cup ProcessUses(procs, new), free')
        /\ ~failed' => Len(blocks') = Len(blocks) + 1
        /\ {"dir", "first", "last"} \subseteq DOMAIN new /\ HasTables(entry, new) =>
             /\ HasTables(entry', new)
             /\ HasTss(entry, new) => HasTss(entry', new)
             /\ HasStack(entry, new) => HasStack(entry', new)
        /\ \A w \in KernelPages : At(entry', w) = VideoMemory => \/ At(entry, w) = VideoMemory
                                                               \/ page = VideoMemory
    BY <1>2, <1>3, <2>2, <2>3, Allocated
  <2>5. /\ ProcessUses(procs, new') = ProcessUses(procs, new)
        /\ DOMAIN new' \cap PageNames = DOMAIN new \cap PageNames
        /\ \A n \in DOMAIN new' : new'[n] \in memory \cup KernelPages
    <3>1. CASE a.ok
      <4>1. new' = With(new, name, Lowest) /\ Lowest \in KernelPages
        BY <2>2, <2>3, <3>1, Parts, Shape DEF Effect
      <4>2. ProcessUses(procs, new') = ProcessUses(procs, new)
        BY <1>3, <4>1, KernelNames
      <4>3. DOMAIN new' \cap PageNames = DOMAIN new \cap PageNames
        BY <1>3, <4>1 DEF With
      <4>4. \A n \in DOMAIN new' : new'[n] \in memory \cup KernelPages
        BY <4>1, Parts DEF With
      <4>. QED
        BY <4>2, <4>3, <4>4
    <3>2. CASE ~a.ok
      BY <2>2, <3>2, Parts
    <3>. QED
      BY <3>1, <3>2
  <2>6. MemoryOK' /\ IsSeq(procs)'
        /\ (\A i \in DOMAIN procs : \A n \in DOMAIN procs[i] : procs[i][n] \in memory \cup KernelPages)'
    BY <1>2, Parts DEF MemoryOK
  <2>7. (Exclusive(KernelUses(entry) \cup ProcessUses(procs, new), free))'
    BY <1>2, <2>4, <2>5 DEF Exclusive
  <2>8. Progress'
    <3>1. SUFFICES ASSUME ~failed' PROVE Progress'
      BY DEF Progress
    <3>2. a.ok
      BY <2>2, <3>1 DEF Result
    <3>3. Booting => \A v \in KernelPages : At(entry', v) # VideoMemory
      <4>1. SUFFICES ASSUME Booting, NEW v \in KernelPages PROVE At(entry', v) # VideoMemory
        OBVIOUS
      <4>2. todo # << >>
        BY <1>2 DEF Takes
      <4>3. At(entry, v) # VideoMemory
        BY <4>1, <4>2, KernelAt DEF Booting
      <4>4. page # VideoMemory
        BY <2>3, Parts, MemorySize DEF VideoMemory
      <4>. QED
        BY <2>4, <4>3, <4>4
    <3>4. Starting => HasTables(entry', new') /\ (r < 6 => HasTss(entry', new'))
      <4>1. SUFFICES ASSUME Starting PROVE HasTables(entry', new') /\ HasTss(entry', new')
        OBVIOUS
      <4>2. r \in {5, 4, 3}
        <5>1. ~Booting
          BY <4>1, TwoPhases
        <5>. QED
          BY <5>1, <1>3
      <4>3. /\ HasTables(entry, new) /\ HasTss(entry, new)
            /\ {"dir", "first", "last", "image", "tss"} \subseteq DOMAIN new
        <5>1. r < 8 /\ r < 6 /\ r \in 1..8 /\ r \in 1..6
          BY <4>2, VirtSteps
        <5>2. DOMAIN new \cap PageNames = PagesMade(r)
          BY <1>1, <4>1 DEF Starting
        <5>3. {"dir", "first", "last", "image", "tss"} \subseteq PagesMade(r)
          BY <5>1, PagesMadeIs
        <5>. QED
          BY <1>1, <4>1, <5>1, <5>2, <5>3 DEF Starting
      <4>4. HasTables(entry', new) /\ HasTss(entry', new)
        BY <2>4, <4>3
      <4>5. name \notin {"dir", "first", "last", "image"} /\ name # "tss"
        BY <1>3 DEF PageNames
      <4>6. HasTables(entry', With(new, name, a.vaddr)) /\ HasTss(entry', With(new, name, a.vaddr))
        BY <4>3, <4>4, <4>5, WithKeeps
      <4>. QED
        BY <2>2, <3>2, <4>6
    <3>. QED
      BY <1>1, <1>2, <1>3, <2>4, <2>5, <3>1, <3>3, <3>4, VirtProgress
  <2>9. free' \subseteq memory' /\ (\A n \in DOMAIN new : new[n] \in memory \cup KernelPages)'
    BY <1>2, <2>4, <2>5
  <2>. QED
    BY <1>3, <2>4, <2>6, <2>7, <2>8, <2>9, Assembled
<1>. QED
  BY <1>4, <1>5

LEMMA ScreenKeeps ==
  ASSUME SpacesInv, init_tty
  PROVE  SpacesInv'
<1>1. PICK a, page : a = AllocVirt(page, free) /\ page = VideoMemory
  OBVIOUS
<1>2. Takes("screen") /\ UNCHANGED <<memory, procs, new>> /\ Result(a)
  BY <1>1 DEF init_tty, Unused
<1>3. ~failed /\ Head(todo).op = "screen" /\ IsSeq(todo') /\ Len(todo') = Len(todo) - 1
  BY <1>2, Where
<1>4. Booting /\ Len(todo) = 1
  <2>1. ~AtStart
    <3>1. SUFFICES ASSUME AtStart PROVE FALSE
      OBVIOUS
    <3>2. PICK r, step : r = Len(todo) /\ step = Head(todo)
      OBVIOUS
    <3>3. IsStep(step, r)
      BY <3>1, <3>2 DEF AtStart, IsStep
    <3>. QED
      BY <1>3, <3>2, <3>3, ProcessStep
  <2>2. AtBoot
    BY <1>2, <2>1, Where
  <2>. QED
    BY <1>3, <2>2, BootStep DEF AtBoot
<1>5. Len(blocks) = 6 /\ procs = << >> /\ todo # << >>
  BY <1>2, <1>4 DEF Booting, Takes
<1>6. RoomLeft /\ More /\ ~Full
  <2>1. RoomLeft /\ More
    BY <1>5, SizesAssumption DEF RoomLeft, More
  <2>2. PICK x : x = Length
    OBVIOUS
  <2>3. x \in Nat \ {0} /\ block_table_size = PerPage * x
    BY <2>2, Parts, Shape
  <2>4. PerPage * x >= PerPage
    BY <2>3, SizesAssumption
  <2>5. PerPage * x # 6
    BY <2>3, <2>4, SizesAssumption
  <2>. QED
    BY <2>1, <2>3, <2>5, <1>5 DEF Full
<1>7. PICK o : o = ProcessUses(procs, new)
  OBVIOUS
<1>8. \A u \in KernelUses(entry) \cup o : u[2] # VideoMemory
  <2>1. ASSUME NEW v \in KernelPages PROVE At(entry, v) # VideoMemory
    BY <1>4, <1>5, KernelAt DEF Booting
  <2>2. ASSUME NEW i \in DOMAIN entry[kernel_page_dir] \ {UserTable, ImageTable}
        PROVE  entry[kernel_page_dir][i] # VideoMemory
    BY Parts, KernelDirectory, MemorySize DEF VideoMemory
  <2>3. ASSUME NEW u \in KernelUses(entry) PROVE u[2] # VideoMemory
    BY <2>1, <2>2 DEF KernelUses
  <2>4. o = {}
    <3>1. DOMAIN new \cap {"image", "first", "last", "dir", "tss", "stack"} = {}
      BY <1>4 DEF Booting, PageNames
    <3>2. Holds(new, "process", 0) = {}
      BY <3>1 DEF Holds
    <3>3. DOMAIN procs = {}
      BY <1>5
    <3>. QED
      BY <1>7, <3>2, <3>3 DEF ProcessUses
  <2>. QED
    BY <2>3, <2>4
<1>9. Exclusive((KernelUses(entry) \cup {<<<<"kernel", Lowest, "page">>, page>>}) \cup o, free)
  <2>1. Exclusive(KernelUses(entry) \cup o, free) /\ free \in SUBSET memory
    BY <1>7, Parts
  <2>2. PICK u : u = KernelUses(entry) \cup o
    OBVIOUS
  <2>3. Exclusive(u \cup {<<<<"kernel", Lowest, "page">>, VideoMemory>>}, free)
    BY <1>8, <2>1, <2>2, ExclusiveVideo
  <2>4. u \cup {<<<<"kernel", Lowest, "page">>, VideoMemory>>}
          = (KernelUses(entry) \cup {<<<<"kernel", Lowest, "page">>, page>>}) \cup o
    BY <1>1, <2>2
  <2>. QED
    BY <2>3, <2>4
<1>10. Effect(a, page, o)
  BY <1>1, <1>6, <1>9, Parts, MoreEffect
<1>11. /\ free' \subseteq memory /\ EntriesTyped(entry)' /\ BlocksShape' /\ KernelTables'
       /\ KernelMap' /\ ProcessesComplete' /\ failed' \in BOOLEAN
       /\ Exclusive(KernelUses(entry') \cup o, free')
       /\ ~failed' => Len(blocks') = Len(blocks) + 1
  BY <1>2, <1>6, <1>7, <1>10, Allocated
<1>12. /\ MemoryOK' /\ IsSeq(procs)' /\ free' \subseteq memory'
       /\ (\A i \in DOMAIN procs : \A n \in DOMAIN procs[i] : procs[i][n] \in memory \cup KernelPages)'
       /\ (\A n \in DOMAIN new : new[n] \in memory \cup KernelPages)'
  BY <1>2, <1>11, Parts DEF MemoryOK
<1>13. (Exclusive(KernelUses(entry) \cup ProcessUses(procs, new), free))'
  BY <1>2, <1>7, <1>11 DEF Exclusive
<1>14. Progress'
  <2>1. SUFFICES ASSUME ~failed' PROVE Booting'
    BY DEF Progress
  <2>2. Len(blocks') = 7 /\ Len(todo') = 0
    BY <2>1, <1>3, <1>4, <1>5, <1>11
  <2>3. todo' = << >>
    BY <2>2, <1>3 DEF IsSeq
  <2>4. IsRest(todo', Boot)
    BY <2>2, BootIs DEF IsRest
  <2>5. procs' = << >> /\ DOMAIN new' \cap PageNames = {}
    BY <1>2, <1>4 DEF Booting
  <2>. QED
    BY <2>2, <2>3, <2>4, <2>5 DEF Booting
<1>. QED
  BY <1>3, <1>11, <1>12, <1>13, <1>14, Assembled

NewPages == {new[a] : a \in DOMAIN new \cap PageNames}

\* A step that writes to pages of the new process only.
LEMMA WritesNew ==
  ASSUME SpacesInv, NEW W \in SUBSET NewPages, DOMAIN entry \subseteq DOMAIN entry',
         \A p \in DOMAIN entry \ W : entry'[p] = entry[p],
         UNCHANGED <<blocks, block_table_size, memory, procs>>
  PROVE  /\ MemoryOK' /\ BlocksShape' /\ KernelTables' /\ KernelMap' /\ ProcessesComplete'
         /\ KernelUses(entry') = KernelUses(entry)
         /\ entry'[kernel_page_dir] = entry[kernel_page_dir]
<1>1. ASSUME NEW p \in W
      PROVE  p # kernel_page_dir /\ p \notin KernelTablesOf(entry)
  <2>1. PICK a \in DOMAIN new \cap PageNames : p = new[a]
    BY DEF NewPages
  <2>2. 0 \in Owners /\ new = Process(0)
    BY DEF Owners, Process
  <2>. QED
    BY <2>1, <2>2, OwnedPage
<1>2. Separate(entry) /\ KernelTables
  BY Parts
<1>3. kernel_page_dir \in DOMAIN entry /\ entry'[kernel_page_dir] = entry[kernel_page_dir]
  BY <1>1, <1>2 DEF Separate
<1>4. \A i \in DOMAIN entry[kernel_page_dir] :
         /\ entry[kernel_page_dir][i] \in DOMAIN entry
         /\ entry'[entry[kernel_page_dir][i]] = entry[entry[kernel_page_dir][i]]
  BY <1>1, <1>2 DEF Separate, KernelTablesOf
<1>5. \A w \in KernelPages : At(entry', w) = At(entry, w)
  BY <1>3, <1>4 DEF At
<1>6. KernelUses(entry') = KernelUses(entry)
  BY <1>3, <1>5, SameUses
<1>7. MemoryOK'
  BY Parts DEF MemoryOK
<1>8. BlocksShape'
  BY Parts DEF BlocksShape
<1>9. KernelTables'
  BY <1>2, <1>3 DEF KernelTables
<1>10. KernelMap'
  <2>1. \A v \in KernelPages : Kernel(v)' = Kernel(v)
    BY <1>5, KernelAt, KernelAtNext
  <2>. QED
    BY <2>1, Parts DEF KernelMap
<1>11. ProcessesComplete'
  <2>1. SUFFICES ASSUME NEW i \in DOMAIN procs, NEW p, p = procs[i]
                 PROVE  /\ PageNames \subseteq DOMAIN p /\ HasTables(entry', p)
                        /\ HasTss(entry', p) /\ HasStack(entry', p)
    BY DEF ProcessesComplete
  <2>2. /\ PageNames \subseteq DOMAIN p /\ HasTables(entry, p)
        /\ HasTss(entry, p) /\ HasStack(entry, p)
    BY <2>1, Parts DEF ProcessesComplete
  <2>3. i \in Owners /\ p = Process(i) /\ 0 \in Owners /\ new = Process(0) /\ i # 0
    <3>1. 0 \notin DOMAIN procs
      BY Parts DEF IsSeq
    <3>. QED
      BY <3>1, <2>1 DEF Owners, Process
  <2>4. ASSUME NEW a \in {"dir", "first", "last"} PROVE p[a] \notin W
    <3>1. SUFFICES ASSUME NEW b \in DOMAIN new \cap PageNames, p[a] = new[b] PROVE FALSE
      BY DEF NewPages
    <3>2. a \in DOMAIN p \cap PageNames
      BY <2>2 DEF PageNames
    <3>. QED
      BY <2>3, <3>1, <3>2, OwnedApart
  <2>5. \A q \in {p.dir, p.first, p.last} : q \in DOMAIN entry' /\ entry'[q] = entry[q]
    BY <2>2, <2>4 DEF HasTables
  <2>6. /\ HighTable \in DOMAIN entry'[kernel_page_dir]
        /\ \A j \in {HighTable, ImageTable} : entry'[kernel_page_dir][j] = entry[kernel_page_dir][j]
    BY <1>3, <2>2 DEF HasTables
  <2>. QED
    BY <2>2, <2>5, <2>6, TablesKept
<1>. QED
  BY <1>3, <1>6, <1>7, <1>8, <1>9, <1>10, <1>11

LEMMA StartsNew ==
  ASSUME SpacesInv, Starting, NEW r, r = Len(todo), r \in 1..8
  PROVE  /\ {"image", "first", "last", "dir"} \subseteq DOMAIN new \cap PageNames
         /\ DOMAIN new \cap PageNames = PagesMade(r)
         /\ {new.image, new.first, new.last, new.dir} \subseteq memory \ free
         /\ {new.first, new.last, new.dir} \subseteq NewPages
         /\ new.first # new.last /\ new.first # new.dir /\ new.last # new.dir
         /\ HighTable \in DOMAIN entry[kernel_page_dir]
<1>1. DOMAIN new \cap PageNames = PagesMade(r)
  BY DEF Starting
<1>2. {"image", "first", "last", "dir"} \subseteq DOMAIN new \cap PageNames
  BY <1>1, PagesMadeIs
<1>3. 0 \in Owners /\ new = Process(0)
  BY DEF Owners, Process
<1>4. {new.image, new.first, new.last, new.dir} \subseteq memory \ free
  BY <1>2, <1>3, OwnedPage
<1>5. {new.first, new.last, new.dir} \subseteq NewPages
  BY <1>2 DEF NewPages
<1>6. new.first # new.last /\ new.first # new.dir /\ new.last # new.dir
  <2>1. "first" # "last" /\ "first" # "dir" /\ "last" # "dir"
    OBVIOUS
  <2>. QED
    BY <1>2, <1>3, <2>1, OwnedApart
<1>7. HighTable \in DOMAIN entry[kernel_page_dir]
  <2>1. PICK n, k, m : n = Len(blocks) /\ k = Len(procs) /\ m = BlocksMade(r)
    OBVIOUS
  <2>2. n = 7 + 3 * k + m
    BY <2>1 DEF Starting
  <2>3. k \in Nat /\ m \in Nat
    BY <2>1, Parts DEF IsSeq, BlocksMade
  <2>4. n > 1
    BY <2>2, <2>3
  <2>. QED
    BY <2>1, <2>4, Parts DEF KernelTables
<1>. QED
  BY <1>1, <1>2, <1>4, <1>5, <1>6, <1>7

LEMMA DoSteps ==
  \A r \in {8, 6, 2} : BlocksMade(r - 1) = BlocksMade(r) /\ r - 1 > 0
BY BlocksMadeIs

\* Starting' when no block is made.
LEMMA StartProgress ==
  ASSUME SpacesInv, Starting, NEW r \in {8, 6, 2}, r = Len(todo), Len(todo') = r - 1,
         UNCHANGED <<blocks, procs>>, IsRest(todo', run_new_process),
         DOMAIN new' \cap PageNames = PagesMade(r - 1),
         HasTables(entry', new'), r - 1 < 6 => HasTss(entry', new'),
         r - 1 < 2 => HasStack(entry', new')
  PROVE  Progress'
<1>1. BlocksMade(r - 1) = BlocksMade(r) /\ r - 1 > 0
  BY DoSteps
<1>2. Len(blocks') = 7 + 3 * Len(procs') + BlocksMade(r - 1) /\ Len(procs') < MaxProcesses
  BY <1>1 DEF Starting
<1>3. Starting'
  BY <1>1, <1>2 DEF Starting
<1>. QED
  BY <1>3 DEF Progress

LEMMA FirstTableIs ==
  ASSUME NEW image \in memory, MemoryOK
  PROVE  /\ DOMAIN FirstTable(image) = Index /\ FirstTable(image)[ImagePage] = image
         /\ \A i \in Index : FirstTable(image)[i] \in Targets
<1>1. DOMAIN FirstTable(image) = Index
  BY DEF FirstTable
<1>2. FirstTable(image)[ImagePage] = image
  <2>1. ImagePage = LowPages /\ LowPages \in Index /\ LowPages \in Nat
    BY UserPlaces, SizesAssumption DEF ImagePage
  <2>2. FirstTable(image)[LowPages] = image + LowPages - LowPages
    BY <2>1 DEF FirstTable
  <2>3. image \in Int
    BY MemorySize
  <2>. QED
    BY <2>1, <2>2, <2>3
<1>3. ASSUME NEW i \in Index PROVE FirstTable(image)[i] \in Targets
  <2>1. CASE i < LowPages
    <3>1. i \in 0..PerTable
      BY SizesAssumption DEF Index
    <3>2. i \in Targets
      BY <3>1, MemorySize
    <3>. QED
      BY <2>1, <3>2 DEF FirstTable
  <2>2. CASE ~(i < LowPages)
    <3>1. image + i - LowPages \in Targets
      BY MemorySize
    <3>. QED
      BY <2>2, <3>1 DEF FirstTable
  <2>. QED
    BY <2>1, <2>2
<1>. QED
  BY <1>1, <1>2, <1>3

LEMMA TablesKeeps ==
  ASSUME SpacesInv, init_page_tables
  PROVE  SpacesInv'
<1>1. Takes("tables") /\ UNCHANGED <<memory, procs, free, blocks, block_table_size, new, failed>>
  BY DEF init_page_tables, Unused
<1>2. PICK r : r = Len(todo)
  OBVIOUS
<1>3. /\ Starting /\ ~failed /\ r = 8 /\ Len(todo') = r - 1
      /\ IsRest(todo', run_new_process) /\ IsSeq(todo')
  BY <1>1, <1>2, Starts
<1>4. PICK p : p = new
  OBVIOUS
<1>5. /\ {"image", "first", "last", "dir"} \subseteq DOMAIN p
      /\ {p.image, p.first, p.last, p.dir} \subseteq memory
      /\ {p.first, p.last, p.dir} \subseteq NewPages
      /\ p.first # p.last /\ p.first # p.dir /\ p.last # p.dir
      /\ HighTable \in DOMAIN entry[kernel_page_dir]
      /\ DOMAIN new \cap PageNames = PagesMade(r)
  BY <1>2, <1>3, <1>4, StartsNew
<1>6. PICK dir : dir = [i \in {UserTable, TssTable} \cup Shared |->
                         CASE i = UserTable -> p.first [] i = TssTable -> p.last
                           [] OTHER -> entry[kernel_page_dir][i]]
  OBVIOUS
<1>7. entry' = [q \in DOMAIN entry \cup {p.dir, p.first, p.last} |->
                 CASE q = p.dir -> dir
                   [] q = p.first -> FirstTable(p.image)
                   [] q = p.last -> << >>
                   [] OTHER -> entry[q]]
  BY <1>4, <1>6 DEF init_page_tables
<1>8. /\ DOMAIN entry' = DOMAIN entry \cup {p.dir, p.first, p.last}
      /\ entry'[p.dir] = dir /\ entry'[p.first] = FirstTable(p.image) /\ entry'[p.last] = << >>
      /\ \A q \in DOMAIN entry \ {p.dir, p.first, p.last} : entry'[q] = entry[q]
  <2>1. DOMAIN entry' = DOMAIN entry \cup {p.dir, p.first, p.last}
    BY <1>7
  <2>2. entry'[p.dir] = dir
    BY <1>5, <1>7
  <2>3. entry'[p.first] = FirstTable(p.image)
    BY <1>5, <1>7
  <2>4. entry'[p.last] = << >>
    BY <1>5, <1>7
  <2>5. \A q \in DOMAIN entry \ {p.dir, p.first, p.last} : entry'[q] = entry[q]
    BY <1>7
  <2>. QED
    BY <2>1, <2>2, <2>3, <2>4, <2>5
<1>9. /\ MemoryOK' /\ BlocksShape' /\ KernelTables' /\ KernelMap' /\ ProcessesComplete'
      /\ KernelUses(entry') = KernelUses(entry)
      /\ entry'[kernel_page_dir] = entry[kernel_page_dir]
  BY <1>1, <1>5, <1>8, WritesNew
<1>10. /\ DOMAIN dir = {UserTable, TssTable, HighTable, ImageTable}
       /\ dir[UserTable] = p.first /\ dir[TssTable] = p.last
       /\ \A i \in {HighTable, ImageTable} : dir[i] = entry[kernel_page_dir][i]
  BY <1>6 DEF Shared, UserTable, TssTable, HighTable, ImageTable
<1>11. HasTables(entry', p)
  BY <1>5, <1>8, <1>9, <1>10, FirstTableIs, Parts DEF HasTables
<1>12. EntriesTyped(entry)'
  <2>1. ASSUME NEW q \in DOMAIN entry'
        PROVE  /\ q \in memory \cup 1..3
               /\ DOMAIN entry'[q] \subseteq Index
               /\ \A i \in DOMAIN entry'[q] : entry'[q][i] \in Targets
    <3>1. CASE q = p.dir
      <4>1. {UserTable, TssTable, HighTable, ImageTable} \subseteq Index
        BY SizesAssumption DEF Index, UserTable, TssTable, HighTable, ImageTable
      <4>2. p.first \in Targets /\ p.last \in Targets
        BY <1>5, Parts, MemorySize
      <4>3. /\ kernel_page_dir \in DOMAIN entry
            /\ {HighTable, ImageTable} \subseteq DOMAIN entry[kernel_page_dir]
        BY <1>5, Parts DEF KernelTables, Separate
      <4>4. \A i \in {HighTable, ImageTable} : entry[kernel_page_dir][i] \in Targets
        BY <4>3, Parts DEF EntriesTyped
      <4>5. \A i \in {UserTable, TssTable, HighTable, ImageTable} : dir[i] \in Targets
        BY <1>10, <4>2, <4>4
      <4>. QED
        BY <1>5, <1>8, <1>10, <3>1, <4>1, <4>5
    <3>2. CASE q = p.first
      BY <1>5, <1>8, <3>2, FirstTableIs, Parts
    <3>3. CASE q = p.last
      BY <1>5, <1>8, <3>3
    <3>4. CASE q \notin {p.dir, p.first, p.last}
      BY <1>8, <3>4, Parts DEF EntriesTyped
    <3>. QED
      BY <3>1, <3>2, <3>3, <3>4
  <2>. QED
    BY <2>1, <1>1 DEF EntriesTyped, Targets
<1>13. Progress'
  <2>1. PagesMade(8 - 1) = PagesMade(8) /\ ~(8 - 1 < 6) /\ ~(8 - 1 < 2)
    BY PagesMadeIs
  <2>. QED
    BY <1>1, <1>2, <1>3, <1>4, <1>5, <1>11, <2>1, StartProgress
<1>14. /\ (Exclusive(KernelUses(entry) \cup ProcessUses(procs, new), free))'
       /\ IsSeq(procs)' /\ failed' \in BOOLEAN /\ free' \subseteq memory'
       /\ (\A n \in DOMAIN new : new[n] \in memory \cup KernelPages)'
       /\ (\A i \in DOMAIN procs : \A n \in DOMAIN procs[i] : procs[i][n] \in memory \cup KernelPages)'
  BY <1>1, <1>9, Parts DEF Exclusive
<1>. QED
  BY <1>3, <1>9, <1>12, <1>13, <1>14, Assembled

LEMMA TssKeeps ==
  ASSUME SpacesInv, FillTss
  PROVE  SpacesInv'
<1>1. Takes("tss") /\ UNCHANGED <<memory, procs, free, blocks, block_table_size, new, failed>>
  BY DEF FillTss, Unused
<1>2. PICK r, p, slot : r = Len(todo) /\ p = new /\ slot = SlotOf(TssPage)
  OBVIOUS
<1>3. /\ Starting /\ ~failed /\ r = 6 /\ Len(todo') = r - 1
      /\ IsRest(todo', run_new_process) /\ IsSeq(todo')
  BY <1>1, <1>2, Starts
<1>4. /\ {"image", "first", "last", "dir"} \subseteq DOMAIN p
      /\ {p.last} \in SUBSET NewPages
      /\ p.first # p.last /\ p.last # p.dir
      /\ DOMAIN new \cap PageNames = PagesMade(r)
  BY <1>2, <1>3, StartsNew
<1>5. HasTables(entry, p)
  BY <1>2, <1>3 DEF Starting
<1>6. p.tss \in memory
  <2>1. "tss" \in DOMAIN new \cap PageNames
    BY <1>3, <1>4, PagesMadeIs
  <2>2. 0 \in Owners /\ new = Process(0)
    BY DEF Owners, Process
  <2>. QED
    BY <1>2, <2>1, <2>2, OwnedPage
<1>7. PICK table : table = With(entry[p.last], slot, p.tss)
  OBVIOUS
<1>8. /\ DOMAIN entry' = DOMAIN entry /\ p.last \in DOMAIN entry /\ entry'[p.last] = table
      /\ \A q \in DOMAIN entry \ {p.last} : entry'[q] = entry[q]
  <2>1. entry' = [entry EXCEPT ![p.last] = With(@, slot, p.tss)]
    BY <1>2 DEF FillTss
  <2>2. p.last \in DOMAIN entry
    BY <1>5 DEF HasTables
  <2>. QED
    BY <1>7, <2>1, <2>2
<1>9. /\ MemoryOK' /\ BlocksShape' /\ KernelTables' /\ KernelMap' /\ ProcessesComplete'
      /\ KernelUses(entry') = KernelUses(entry)
      /\ entry'[kernel_page_dir] = entry[kernel_page_dir]
  BY <1>1, <1>4, <1>8, WritesNew
<1>10. /\ DOMAIN table = DOMAIN entry[p.last] \cup {slot} /\ table[slot] = p.tss
       /\ \A i \in DOMAIN entry[p.last] \ {slot} : table[i] = entry[p.last][i]
  BY <1>7 DEF With
<1>11. HasTables(entry', p) /\ HasTss(entry', p)
  <2>1. /\ {p.dir, p.first, p.last} \subseteq DOMAIN entry' /\ entry'[p.dir] = entry[p.dir]
        /\ entry'[p.first] = entry[p.first]
    BY <1>4, <1>5, <1>8 DEF HasTables
  <2>2. HasTables(entry', p)
    BY <1>5, <1>9, <2>1 DEF HasTables
  <2>3. HasTss(entry', p)
    BY <1>2, <1>8, <1>10 DEF HasTss
  <2>. QED
    BY <2>2, <2>3
<1>12. EntriesTyped(entry)'
  <2>1. EntriesTyped(entry) /\ slot \in Index /\ p.tss \in Targets
    BY <1>2, <1>6, UserPlaces, Parts, MemorySize
  <2>2. /\ DOMAIN table \subseteq Index
        /\ \A i \in DOMAIN table : table[i] \in Targets
    BY <1>8, <1>10, <2>1 DEF EntriesTyped
  <2>. QED
    BY <1>1, <1>8, <2>1, <2>2 DEF EntriesTyped, Targets
<1>13. Progress'
  <2>1. PagesMade(6 - 1) = PagesMade(6) /\ ~(6 - 1 < 2)
    BY PagesMadeIs
  <2>. QED
    BY <1>1, <1>2, <1>3, <1>4, <1>11, <2>1, StartProgress
<1>14. /\ (Exclusive(KernelUses(entry) \cup ProcessUses(procs, new), free))'
       /\ IsSeq(procs)' /\ failed' \in BOOLEAN /\ free' \subseteq memory'
       /\ (\A n \in DOMAIN new : new[n] \in memory \cup KernelPages)'
       /\ (\A i \in DOMAIN procs : \A n \in DOMAIN procs[i] : procs[i][n] \in memory \cup KernelPages)'
  BY <1>1, <1>9, Parts DEF Exclusive
<1>. QED
  BY <1>3, <1>9, <1>12, <1>13, <1>14, Assembled

LEMMA StackKeeps ==
  ASSUME SpacesInv, AllocStack
  PROVE  SpacesInv'
<1>1. Takes("stack") /\ UNCHANGED <<memory, procs, blocks, block_table_size>>
  BY DEF AllocStack, Unused
<1>2. PICK r, p, page : r = Len(todo) /\ p = new /\ page = Pick(free)
  OBVIOUS
<1>3. /\ Starting /\ ~failed /\ r = 2 /\ Len(todo') = r - 1
      /\ IsRest(todo', run_new_process) /\ IsSeq(todo')
  BY <1>1, <1>2, Starts
<1>4. CASE free = {}
  BY <1>1, <1>3, <1>4, FailedAnyhow DEF AllocStack
<1>5. CASE free # {}
  <2>1. /\ {"image", "first", "last", "dir"} \subseteq DOMAIN p
        /\ {p.first} \in SUBSET NewPages
        /\ p.first # p.last /\ p.first # p.dir
        /\ DOMAIN p \cap PageNames = PagesMade(r)
    BY <1>2, <1>3, StartsNew
  <2>2. HasTables(entry, p) /\ HasTss(entry, p)
    <3>1. r < 8 /\ r < 6
      BY <1>3
    <3>. QED
      BY <1>2, <1>3, <3>1 DEF Starting
  <2>3. page \in free /\ free \subseteq memory /\ page \in memory
    BY <1>2, <1>5, FreePage, Parts
  <2>4. PICK m : m = Mapped(Rest(free), entry, p.dir, StackPage, page)
    OBVIOUS
  <2>5. m = [ok |-> TRUE, free |-> Rest(free), entry |-> Put(entry, p.first, StackPage, page)]
    <3>1. /\ TableOf(StackPage) = UserTable /\ SlotOf(StackPage) = StackPage
          /\ UserTable \in DOMAIN entry[p.dir] /\ entry[p.dir][UserTable] = p.first
      BY <2>2, UserPlaces DEF HasTables
    <3>2. m = [ok |-> TRUE, free |-> Rest(free),
               entry |-> Put(entry, entry[p.dir][TableOf(StackPage)], SlotOf(StackPage), page)]
      <4>1. TableOf(StackPage) \in DOMAIN entry[p.dir]
        BY <3>1
      <4>2. Mapped(Rest(free), entry, p.dir, StackPage, page)
              = [ok |-> TRUE, free |-> Rest(free),
                 entry |-> Put(entry, entry[p.dir][TableOf(StackPage)], SlotOf(StackPage), page)]
        BY <4>1, Zenon DEF Mapped, Put
      <4>. QED
        BY <2>4, <4>2
    <3>. QED
      BY <3>1, <3>2
  <2>6. /\ free' = Rest(free) /\ entry' = Put(entry, p.first, StackPage, page) /\ failed' = FALSE
        /\ new' = With(p, "stack", page)
    <3>1. free' = m.free /\ entry' = m.entry /\ failed' = ~m.ok /\ new' = With(p, "stack", page)
      BY <1>2, <1>5, <2>4 DEF AllocStack
    <3>. QED
      BY <2>5, <3>1
  <2>7. free' = free \ {page}
    BY <1>2, <2>6 DEF Rest
  <2>8. PICK table : table = [i \in DOMAIN entry[p.first] \cup {StackPage} |->
                                IF i = StackPage THEN page ELSE entry[p.first][i]]
    OBVIOUS
  <2>9. /\ DOMAIN entry' = DOMAIN entry /\ p.first \in DOMAIN entry /\ entry'[p.first] = table
        /\ \A q \in DOMAIN entry \ {p.first} : entry'[q] = entry[q]
    <3>1. p.first \in DOMAIN entry
      BY <2>2 DEF HasTables
    <3>. QED
      BY <2>6, <2>8, <3>1 DEF Put
  <2>10. /\ MemoryOK' /\ BlocksShape' /\ KernelTables' /\ KernelMap' /\ ProcessesComplete'
         /\ KernelUses(entry') = KernelUses(entry)
         /\ entry'[kernel_page_dir] = entry[kernel_page_dir]
    BY <1>1, <2>1, <2>9, WritesNew
  <2>11. /\ DOMAIN table = Index /\ table[StackPage] = page
         /\ \A i \in Index \ {StackPage} : table[i] = entry[p.first][i]
    BY <2>2, <2>8, UserPlaces DEF HasTables
  <2>12. HasTables(entry', p) /\ HasTss(entry', p)
    <3>1. /\ {p.dir, p.first, p.last} \subseteq DOMAIN entry' /\ entry'[p.dir] = entry[p.dir]
          /\ entry'[p.last] = entry[p.last] /\ entry'[p.first] = table
      BY <2>1, <2>2, <2>9 DEF HasTables
    <3>2. DOMAIN table = Index /\ table[ImagePage] = entry[p.first][ImagePage]
      BY <2>11, UserPlaces
    <3>3. HasTables(entry', p)
      BY <2>2, <2>10, <3>1, <3>2 DEF HasTables
    <3>4. HasTss(entry', p)
      BY <2>2, <3>1 DEF HasTss
    <3>. QED
      BY <3>3, <3>4
  <2>13. HasTables(entry', new') /\ HasTss(entry', new') /\ HasStack(entry', new')
    <3>1. "tss" \in DOMAIN p
      BY <1>3, <2>1, PagesMadeIs
    <3>2. /\ HasTables(entry', With(p, "stack", page)) /\ HasTss(entry', With(p, "stack", page))
          /\ With(p, "stack", page).first = p.first
      BY <2>1, <2>12, <3>1, WithKeeps
    <3>3. With(p, "stack", page).stack = page
      BY DEF With
    <3>4. HasStack(entry', With(p, "stack", page))
      BY <2>9, <2>11, <3>2, <3>3 DEF HasStack
    <3>. QED
      BY <2>6, <3>2, <3>4
  <2>14. EntriesTyped(entry)'
    <3>1. EntriesTyped(entry) /\ page \in Targets
      BY <2>3, Parts, MemorySize
    <3>2. \A i \in DOMAIN table : table[i] \in Targets
      BY <2>8, <2>9, <3>1 DEF EntriesTyped
    <3>. QED
      BY <1>1, <2>9, <2>11, <3>1, <3>2 DEF EntriesTyped, Targets
  <2>15. /\ PagesMade(1) = PagesMade(2) \cup {"stack"} /\ "stack" \notin PagesMade(2)
         /\ "stack" \in PageNames
    BY PagesMadeIs DEF PageNames
  <2>16. "stack" \notin DOMAIN p
    BY <1>3, <2>1, <2>15
  <2>17. Progress'
    <3>1. DOMAIN new' \cap PageNames = PagesMade(r - 1)
      BY <1>3, <2>1, <2>6, <2>15 DEF With
    <3>. QED
      BY <1>1, <1>2, <1>3, <2>13, <3>1, StartProgress
  <2>18. (Exclusive(KernelUses(entry) \cup ProcessUses(procs, new), free))'
    <3>1. PICK u : u = KernelUses(entry) \cup ProcessUses(procs, new)
      OBVIOUS
    <3>2. Exclusive(u, free) /\ VideoMemory \notin memory
      BY <3>1, Parts, MemorySize DEF VideoMemory
    <3>3. Exclusive(u \cup {<<<<"process", 0, "stack">>, page>>}, free \ {page})
      BY <2>3, <3>2, ExclusiveAdds
    <3>4. ProcessUses(procs, new') = ProcessUses(procs, new) \cup {<<<<"process", 0, "stack">>, page>>}
      BY <1>2, <2>6, <2>15, <2>16, NewUses
    <3>5. KernelUses(entry') \cup ProcessUses(procs', new')
            = u \cup {<<<<"process", 0, "stack">>, page>>}
      BY <1>1, <2>10, <3>1, <3>4
    <3>. QED
      BY <1>1, <2>7, <3>3, <3>5 DEF Exclusive
  <2>19. (\A n \in DOMAIN new : new[n] \in memory \cup KernelPages)'
    BY <1>1, <1>2, <2>3, <2>6, Parts DEF With
  <2>20. /\ IsSeq(procs)' /\ failed' \in BOOLEAN /\ free' \subseteq memory'
         /\ (\A i \in DOMAIN procs : \A n \in DOMAIN procs[i] : procs[i][n] \in memory \cup KernelPages)'
    BY <1>1, <2>3, <2>6, <2>7, Parts
  <2>. QED
    BY <1>3, <2>10, <2>14, <2>17, <2>18, <2>19, <2>20, Assembled
<1>. QED
  BY <1>4, <1>5

-----------------------------------------------------------------------------

\* The uses when the process that was made gets its number.
LEMMA LinkUses ==
  ASSUME SpacesInv, NEW ps, ps = Append(procs, new)
  PROVE  Exclusive(KernelUses(entry) \cup ProcessUses(ps, << >>), free)
<1>1. PICK k, names : k = Len(procs) /\ names = DOMAIN new \cap PageNames
  OBVIOUS
<1>2. /\ k \in Nat /\ DOMAIN procs = 1..k /\ DOMAIN ps = 1..(k + 1) /\ ps[k + 1] = new
      /\ \A i \in 1..k : ps[i] = procs[i]
  BY <1>1, Parts DEF IsSeq
<1>3. PICK o : o = KernelUses(entry) \cup UNION {Holds(procs[i], "process", i) : i \in 1..k}
  OBVIOUS
<1>4. Holds(<< >>, "process", 0) = {}
  BY DEF Holds
<1>5. KernelUses(entry) \cup ProcessUses(ps, << >>) = o \cup Holds(new, "process", k + 1)
  <2>1. UNION {Holds(ps[i], "process", i) : i \in 1..(k + 1)}
          = (UNION {Holds(procs[i], "process", i) : i \in 1..k}) \cup Holds(new, "process", k + 1)
    <3>1. \A i \in 1..(k + 1) : i \in 1..k \/ i = k + 1
      BY <1>2
    <3>2. k + 1 \in 1..(k + 1) /\ 1..k \subseteq 1..(k + 1)
      BY <1>2
    <3>. QED
      BY <1>2, <3>1, <3>2
  <2>. QED
    BY <1>2, <1>3, <1>4, <2>1 DEF ProcessUses
<1>6. KernelUses(entry) \cup ProcessUses(procs, new) = o \cup Holds(new, "process", 0)
  BY <1>2, <1>3 DEF ProcessUses
<1>7. PICK u : u = o \cup Holds(new, "process", 0)
  OBVIOUS
<1>8. Exclusive(u, free)
  BY <1>6, <1>7, Parts
<1>9. \A i : Holds(new, "process", i) = {<<<<"process", i, n>>, new[n]>> : n \in names}
  BY <1>1 DEF Holds, PageNames
<1>10. ASSUME NEW a \in o, NEW n \in names, a[2] = new[n]
       PROVE  FALSE
  <2>1. PICK b \in u : b = <<<<"process", 0, n>>, new[n]>>
    BY <1>7, <1>9
  <2>2. a = b
    <3>1. a \in u /\ a[2] = b[2]
      BY <1>7, <1>10, <2>1
    <3>. QED
      BY <3>1, <1>8 DEF Exclusive
  <2>3. CASE a \in KernelUses(entry)
    <3>1. a[1][1] = "kernel"
      BY <2>3 DEF KernelUses
    <3>2. a[1][1] = "process"
      BY <2>1, <2>2
    <3>. QED
      BY <3>1, <3>2
  <2>4. CASE a \notin KernelUses(entry)
    <3>1. PICK i \in 1..k : a \in Holds(procs[i], "process", i)
      BY <1>3, <2>4
    <3>2. a[1][2] = i
      BY <3>1 DEF Holds
    <3>3. a[1][2] = 0
      BY <2>1, <2>2
    <3>. QED
      BY <3>2, <3>3
  <2>. QED
    BY <2>3, <2>4
<1>11. ASSUME NEW n \in names, NEW m \in names, new[n] = new[m]
       PROVE  n = m
  <2>1. PICK b \in u : b = <<<<"process", 0, n>>, new[n]>>
    BY <1>7, <1>9
  <2>2. PICK c \in u : c = <<<<"process", 0, m>>, new[m]>>
    BY <1>7, <1>9
  <2>3. b[2] = c[2]
    BY <1>11, <2>1, <2>2
  <2>4. b = c
    BY <2>3, <1>8 DEF Exclusive
  <2>. QED
    BY <2>1, <2>2, <2>4
<1>12. PICK h : h = Holds(new, "process", k + 1)
  OBVIOUS
<1>13. \A a \in h : \E n \in names : a = <<<<"process", k + 1, n>>, new[n]>> /\ a[2] = new[n]
  BY <1>9, <1>12
<1>14. \A a, b \in o \cup h : a[2] = b[2] => a = b
  <2>1. SUFFICES ASSUME NEW a \in o \cup h, NEW b \in o \cup h, a[2] = b[2] PROVE a = b
    OBVIOUS
  <2>2. CASE a \in o /\ b \in o
    BY <2>1, <2>2, <1>7, <1>8 DEF Exclusive
  <2>3. CASE a \in h /\ b \in h
    BY <2>1, <2>3, <1>11, <1>13
  <2>4. CASE a \in o /\ b \in h
    BY <2>1, <2>4, <1>10, <1>13
  <2>5. CASE a \in h /\ b \in o
    BY <2>1, <2>5, <1>10, <1>13
  <2>. QED
    BY <2>2, <2>3, <2>4, <2>5
<1>15. \A n \in names : /\ \E a \in h : a[2] = new[n]
                        /\ \E a \in u : a[2] = new[n]
  <2>1. ASSUME NEW n \in names
        PROVE  (\E a \in h : a[2] = new[n]) /\ (\E a \in u : a[2] = new[n])
    <3>1. PICK a \in h : a = <<<<"process", k + 1, n>>, new[n]>>
      BY <1>9, <1>12
    <3>2. PICK b \in u : b = <<<<"process", 0, n>>, new[n]>>
      BY <1>7, <1>9
    <3>. QED
      BY <3>1, <3>2
  <2>. QED
    BY <2>1
<1>16. \A b \in u : b \in o \/ \E n \in names : b[2] = new[n]
  <2>1. ASSUME NEW b \in Holds(new, "process", 0)
        PROVE  \E n \in names : b[2] = new[n]
    BY <1>9
  <2>. QED
    BY <1>7, <2>1
<1>17. ASSUME NEW x
       PROVE  (\E a \in o \cup h : x = a[2]) <=> (\E a \in u : x = a[2])
  <2>1. ASSUME NEW a \in o \cup h, x = a[2] PROVE \E b \in u : x = b[2]
    <3>1. CASE a \in o
      BY <1>7, <2>1, <3>1
    <3>2. CASE a \in h
      BY <1>13, <1>15, <2>1, <3>2
    <3>. QED
      BY <3>1, <3>2
  <2>2. ASSUME NEW b \in u, x = b[2] PROVE \E a \in o \cup h : x = a[2]
    BY <1>15, <1>16, <2>2
  <2>. QED
    BY <2>1, <2>2
<1>18. {a[2] : a \in o \cup h} = {a[2] : a \in u}
  BY <1>17
<1>. QED
  BY <1>5, <1>8, <1>12, <1>14, <1>18 DEF Exclusive

LEMMA LinkKeeps ==
  ASSUME SpacesInv, Link
  PROVE  SpacesInv'
<1>1. /\ Takes("link") /\ procs' = Append(procs, new) /\ new' = << >>
      /\ UNCHANGED <<free, entry, blocks, block_table_size, memory, failed>>
  BY DEF Link
<1>2. PICK r, k : r = Len(todo) /\ k = Len(procs)
  OBVIOUS
<1>3. Starting /\ ~failed /\ r = 1 /\ Len(todo') = r - 1 /\ IsSeq(todo')
  BY <1>1, <1>2, Starts
<1>4. /\ k \in Nat /\ DOMAIN procs = 1..k /\ DOMAIN procs' = 1..(k + 1) /\ procs'[k + 1] = new
      /\ \A i \in 1..k : procs'[i] = procs[i]
      /\ Len(procs') = k + 1 /\ IsSeq(procs')
  <2>1. procs \in Seq({procs[i] : i \in DOMAIN procs})
    BY Parts DEF IsSeq
  <2>2. procs' \in Seq({procs[i] : i \in DOMAIN procs} \cup {new})
    BY <1>1, <2>1
  <2>3. IsSeq(procs')
    BY <2>2, OwnElements
  <2>. QED
    BY <1>1, <1>2, <2>1, <2>3
<1>5. /\ k < MaxProcesses /\ Len(blocks) = 7 + 3 * k + BlocksMade(1)
      /\ DOMAIN new \cap PageNames = PageNames
      /\ HasTables(entry, new) /\ HasTss(entry, new) /\ HasStack(entry, new)
  <2>1. 1 < 8 /\ 1 < 6 /\ 1 < 2
    OBVIOUS
  <2>. QED
    BY <1>2, <1>3, <2>1, PagesMadeIs DEF Starting
<1>6. ProcessesComplete'
  <2>1. SUFFICES ASSUME NEW i \in 1..(k + 1), NEW p, p = procs'[i]
                 PROVE  /\ PageNames \subseteq DOMAIN p /\ HasTables(entry, p)
                        /\ HasTss(entry, p) /\ HasStack(entry, p)
    BY <1>1, <1>4 DEF ProcessesComplete
  <2>2. CASE i = k + 1
    BY <1>4, <1>5, <2>1, <2>2
  <2>3. CASE i # k + 1
    <3>1. i \in DOMAIN procs /\ p = procs[i]
      BY <1>4, <2>1, <2>3
    <3>. QED
      BY <3>1, Parts DEF ProcessesComplete
  <2>. QED
    BY <2>2, <2>3
<1>7. (Exclusive(KernelUses(entry) \cup ProcessUses(procs, new), free))'
  BY <1>1, LinkUses DEF Exclusive
<1>8. /\ MemoryOK' /\ EntriesTyped(entry)' /\ BlocksShape' /\ KernelTables' /\ KernelMap'
  BY <1>1, SameSpaces
<1>9. Progress'
  <2>1. todo' = << >>
    BY <1>3 DEF IsSeq
  <2>2. BlocksMade(1) = 3
    BY BlocksMadeIs
  <2>3. Len(procs') <= MaxProcesses
    BY <1>4, <1>5, SizesAssumption
  <2>4. 7 + 3 * k + 3 = 7 + 3 * (k + 1)
    BY <1>4
  <2>5. Idle'
    BY <1>1, <1>4, <1>5, <2>1, <2>2, <2>3, <2>4 DEF Idle
  <2>. QED
    BY <2>5 DEF Progress
<1>10. (\A i \in DOMAIN procs : \A n \in DOMAIN procs[i] : procs[i][n] \in memory \cup KernelPages)'
  <2>1. ASSUME NEW i \in 1..(k + 1), NEW n \in DOMAIN procs'[i]
        PROVE  procs'[i][n] \in memory \cup KernelPages
    <3>1. CASE i = k + 1
      BY <1>4, <2>1, <3>1, Parts
    <3>2. CASE i # k + 1
      <4>1. i \in DOMAIN procs /\ procs'[i] = procs[i]
        BY <1>4, <3>2
      <4>. QED
        BY <2>1, <4>1, Parts
    <3>. QED
      BY <3>1, <3>2
  <2>. QED
    BY <1>1, <1>4, <2>1
<1>11. (\A n \in DOMAIN new : new[n] \in memory \cup KernelPages)'
  BY <1>1
<1>12. free' \subseteq memory' /\ failed' \in BOOLEAN
  BY <1>1, Parts
<1>. QED
  BY <1>3, <1>4, <1>6, <1>7, <1>8, <1>9, <1>10, <1>11, <1>12, Assembled

LEMMA ShellKeeps ==
  ASSUME SpacesInv, Shell
  PROVE  SpacesInv'
<1>1. /\ todo = << >> /\ ~failed /\ Len(procs) < MaxProcesses /\ todo' = run_new_process
      /\ new' = << >>
      /\ UNCHANGED <<free, entry, blocks, block_table_size, procs, memory, failed>>
  BY DEF Shell
<1>2. Len(blocks) = 7 + 3 * Len(procs) /\ DOMAIN new \cap PageNames = {}
  <2>1. CASE Booting
    BY <1>1, <2>1 DEF Booting
  <2>2. CASE Starting
    BY <1>1, <2>2 DEF Starting
  <2>3. CASE Idle
    BY <2>3 DEF Idle
  <2>. QED
    BY <1>1, <2>1, <2>2, <2>3, Parts DEF Progress
<1>3. /\ MemoryOK' /\ EntriesTyped(entry)' /\ BlocksShape' /\ KernelTables' /\ KernelMap'
      /\ ProcessesComplete'
  BY <1>1, SameSpaces
<1>4. ProcessUses(procs, << >>) = ProcessUses(procs, new)
  <2>1. Holds(new, "process", 0) = {} /\ Holds(<< >>, "process", 0) = {}
    BY <1>2 DEF Holds, PageNames
  <2>. QED
    BY <2>1 DEF ProcessUses
<1>5. (Exclusive(KernelUses(entry) \cup ProcessUses(procs, new), free))'
  BY <1>1, <1>4, Parts DEF Exclusive
<1>6. IsSeq(todo')
  <2>1. PICK S : S = {Phys("image"), Phys("first"), Phys("last"), Phys("dir"), Do("tables"),
                      Phys("tss"), Do("tss"), Virt("process"), Virt("blocks"), Virt("thread"),
                      Do("stack"), Do("link")}
    OBVIOUS
  <2>2. run_new_process \in Seq(S)
    BY <2>1 DEF run_new_process
  <2>. QED
    BY <1>1, <2>2, OwnElements
<1>7. Progress'
  <2>1. Len(todo') = 12 /\ IsRest(todo', run_new_process)
    BY <1>1, NewProcessIs DEF IsRest
  <2>2. PagesMade(12) = {} /\ BlocksMade(12) = 0
    BY PagesMadeIs, BlocksMadeIs
  <2>3. DOMAIN new' \cap PageNames = {}
    BY <1>1
  <2>4. Len(blocks') = 7 + 3 * Len(procs') + BlocksMade(12) /\ Len(procs') < MaxProcesses
    BY <1>1, <1>2, <2>2, Parts DEF IsSeq
  <2>5. Starting'
    BY <2>1, <2>2, <2>3, <2>4 DEF Starting
  <2>. QED
    BY <2>5 DEF Progress
<1>8. /\ (\A n \in DOMAIN new : new[n] \in memory \cup KernelPages)'
      /\ (\A i \in DOMAIN procs : \A n \in DOMAIN procs[i] : procs[i][n] \in memory \cup KernelPages)'
      /\ free' \subseteq memory' /\ failed' \in BOOLEAN /\ IsSeq(procs)'
  BY <1>1, Parts
<1>. QED
  BY <1>3, <1>5, <1>6, <1>7, <1>8, Assembled

-----------------------------------------------------------------------------
(* The initial state: the boot loader's tables, and the table of the       *)
(* blocks.                                                                 *)

BootTables ==
  [p \in 1..3 |->
     CASE p = 1 -> [i \in {UserTable, ImageTable} |-> IF i = UserTable THEN 2 ELSE 3]
       [] p = 2 -> [i \in 0..(LowPages - 1) |-> i]
       [] p = 3 -> << >>]

LEMMA BootTablesAre ==
  ASSUME MemoryOK
  PROVE  /\ DOMAIN BootTables = 1..3
         /\ DOMAIN BootTables[kernel_page_dir] = {UserTable, ImageTable}
         /\ BootTables[kernel_page_dir][UserTable] = 2
         /\ BootTables[kernel_page_dir][ImageTable] = 3
         /\ Separate(BootTables) /\ EntriesTyped(BootTables)
         /\ \A w \in KernelPages : At(BootTables, w) = None
         /\ KernelTablesOf(BootTables) \subseteq 1..3
         /\ KernelUses(BootTables) = {}
<1>1. /\ DOMAIN BootTables = 1..3
      /\ BootTables[1] = [i \in {UserTable, ImageTable} |-> IF i = UserTable THEN 2 ELSE 3]
      /\ BootTables[2] = [i \in 0..(LowPages - 1) |-> i]
      /\ BootTables[3] = << >>
  <2>1. 1 \in 1..3 /\ 2 \in 1..3 /\ 3 \in 1..3
    OBVIOUS
  <2>2. BootTables[1] = [i \in {UserTable, ImageTable} |-> IF i = UserTable THEN 2 ELSE 3]
    BY <2>1 DEF BootTables
  <2>3. BootTables[2] = [i \in 0..(LowPages - 1) |-> i]
    BY <2>1 DEF BootTables
  <2>4. BootTables[3] = << >>
    BY <2>1 DEF BootTables
  <2>. QED
    BY <2>2, <2>3, <2>4 DEF BootTables
<1>2. PICK dir : dir = BootTables[kernel_page_dir]
  OBVIOUS
<1>3. DOMAIN dir = {UserTable, ImageTable} /\ dir[UserTable] = 2 /\ dir[ImageTable] = 3
  BY <1>1, <1>2 DEF kernel_page_dir, UserTable, ImageTable
<1>4. Separate(BootTables)
  BY <1>1, <1>2, <1>3 DEF Separate, kernel_page_dir, UserTable, ImageTable
<1>5. EntriesTyped(BootTables)
  <2>1. 0..PerTable \subseteq Targets
    BY MemorySize
  <2>2. 2 \in 0..PerTable /\ 3 \in 0..PerTable
    BY SizesAssumption
  <2>3. ASSUME NEW p \in 1..3
        PROVE  /\ DOMAIN BootTables[p] \subseteq Index
               /\ \A i \in DOMAIN BootTables[p] : BootTables[p][i] \in Targets
    <3>1. CASE p = 1
      <4>1. {UserTable, ImageTable} \subseteq Index
        BY SizesAssumption DEF UserTable, ImageTable, Index
      <4>. QED
        BY <1>2, <1>3, <2>1, <2>2, <3>1, <4>1 DEF kernel_page_dir
    <3>2. CASE p = 2
      <4>1. 0..(LowPages - 1) \subseteq Index /\ 0..(LowPages - 1) \subseteq 0..PerTable
        BY SizesAssumption DEF Index
      <4>. QED
        BY <1>1, <2>1, <3>2, <4>1
    <3>3. CASE p = 3
      BY <1>1, <3>3
    <3>. QED
      BY <3>1, <3>2, <3>3
  <2>. QED
    BY <1>1, <2>3 DEF EntriesTyped
<1>6. ASSUME NEW w \in KernelPages PROVE At(BootTables, w) = None
  <2>1. TableOf(w) \in {LowTable, HighTable}
    BY KernelPlace
  <2>2. TableOf(w) \notin DOMAIN dir
    BY <1>3, <2>1 DEF LowTable, HighTable, UserTable, ImageTable
  <2>. QED
    BY <1>2, <2>2 DEF At
<1>7. KernelTablesOf(BootTables) \subseteq 1..3
  BY <1>2, <1>3 DEF KernelTablesOf
<1>8. KernelUses(BootTables) = {}
  BY <1>2, <1>3, <1>6 DEF KernelUses
<1>. QED
  BY <1>1, <1>2, <1>3, <1>4, <1>5, <1>6, <1>7, <1>8

\* What init_memory_manager leaves: t is the page of the table of the blocks
\* and t2 the page table that it is mapped in.
LEMMA InitSpaces ==
  ASSUME Init
  PROVE  /\ MemoryOK /\ free \subseteq memory /\ EntriesTyped(entry) /\ KernelTables
         /\ Exclusive(KernelUses(entry), free)
         /\ \A w \in KernelPages : At(entry, w) # None <=> w = KernelStart
         /\ \A w \in KernelPages : At(entry, w) # VideoMemory
<1>1. PICK size \in Sizes : /\ memory = LowPages..(LowPages + size - 1)
                            /\ LET t == Pick(memory)
                                   m == Mapped(Rest(memory), BootTables,
                                               kernel_page_dir, KernelStart, t)
                               IN  free = m.free /\ entry = m.entry
  BY DEF Init, BootTables
<1>2. MemoryOK
  BY <1>1 DEF MemoryOK
<1>3. PICK t, left : t = Pick(memory) /\ left = Rest(memory)
  OBVIOUS
<1>4. /\ LowPages \in memory /\ LowPages + 1 \in memory
      /\ LowPages # LowPages + 1
  BY <1>1, SizesAssumption
<1>5. t \in memory /\ left = memory \ {t} /\ left # {} /\ left \in SUBSET memory
  <2>1. t \in memory
    BY <1>2, <1>3, <1>4, FreePage
  <2>2. left = memory \ {t}
    BY <1>3 DEF Rest
  <2>. QED
    BY <1>4, <2>1, <2>2
<1>6. PICK t2 : t2 = Pick(left)
  OBVIOUS
<1>7. t2 \in left /\ t2 \in memory /\ t2 # t
  BY <1>2, <1>5, <1>6, FreePage
<1>8. PICK e, slot : e = BootTables /\ slot = SlotOf(KernelStart)
  OBVIOUS
<1>9. /\ KernelStart \in KernelPages /\ TableOf(KernelStart) = LowTable
  <2>1. KernelStart \in KernelPages
    BY SizesAssumption DEF KernelPages, KernelStart, KernelTop, LowTable, HighTable
  <2>2. KernelStart < 3 * PerTable
    BY SizesAssumption DEF KernelStart, LowTable
  <2>. QED
    BY <2>1, <2>2, KernelPlace
<1>10. /\ DOMAIN e = 1..3 /\ DOMAIN e[kernel_page_dir] = {UserTable, ImageTable}
       /\ e[kernel_page_dir][UserTable] = 2 /\ e[kernel_page_dir][ImageTable] = 3
       /\ Separate(e) /\ EntriesTyped(e) /\ KernelTablesOf(e) \subseteq 1..3
       /\ KernelUses(e) = {} /\ \A w \in KernelPages : At(e, w) = None
  BY <1>2, <1>8, BootTablesAre
<1>11. LowTable \notin DOMAIN e[kernel_page_dir]
  BY <1>10 DEF LowTable, UserTable, ImageTable
<1>12. PICK e1 : e1 = NewTable(e, kernel_page_dir, LowTable, t2)
  OBVIOUS
<1>13. free = left \ {t2} /\ entry = Put(e1, t2, slot, t)
  <2>1. PICK m : m = Mapped(left, e, kernel_page_dir, KernelStart, t)
    OBVIOUS
  <2>2. free = m.free /\ entry = m.entry
    BY <1>1, <1>3, <1>8, <2>1
  <2>3. TableOf(KernelStart) \notin DOMAIN e[kernel_page_dir]
    BY <1>9, <1>11
  <2>4. Mapped(left, e, kernel_page_dir, KernelStart, t)
          = [ok |-> TRUE, free |-> Rest(left),
             entry |-> Put(NewTable(e, kernel_page_dir, TableOf(KernelStart), Pick(left)), Pick(left),
                           SlotOf(KernelStart), t)]
    BY <1>5, <2>3 DEF Mapped, Put, NewTable
  <2>5. Rest(left) = left \ {t2}
    BY <1>6 DEF Rest
  <2>. QED
    BY <1>6, <1>8, <1>9, <1>12, <2>1, <2>2, <2>4, <2>5
<1>14. t2 \notin KernelTablesOf(e) /\ t \in Targets /\ t # None /\ t # VideoMemory
  BY <1>2, <1>5, <1>7, <1>10, MemorySize DEF VideoMemory
<1>15. /\ Separate(e1) /\ EntriesTyped(e1)
       /\ t2 \in DOMAIN e1 /\ DOMAIN e1[kernel_page_dir] = {UserTable, ImageTable, LowTable}
       /\ e1[kernel_page_dir][LowTable] = t2
       /\ \A j \in {UserTable, ImageTable} : e1[kernel_page_dir][j] = e[kernel_page_dir][j]
       /\ \A w \in KernelPages : At(e1, w) = At(e, w)
       /\ DOMAIN e \subseteq DOMAIN e1
  <2>1. Making(e1, e, LowTable, t2)
    BY <1>12 DEF Making
  <2>2. /\ Maps(e, e1, {}) /\ t2 \in DOMAIN e1
        /\ DOMAIN e1[kernel_page_dir] = DOMAIN e[kernel_page_dir] \cup {LowTable}
        /\ e1[kernel_page_dir][LowTable] = t2
        /\ \A j \in DOMAIN e[kernel_page_dir] : e1[kernel_page_dir][j] = e[kernel_page_dir][j]
        /\ \A w \in KernelPages : At(e1, w) = At(e, w)
    BY <1>2, <1>7, <1>10, <1>11, <1>14, <2>1, NewTableMaps
  <2>. QED
    BY <1>10, <2>2 DEF Maps
<1>16. PageIsPut(entry, e1, KernelStart, t)
  <2>1. Mapping(entry, e1, LowTable, KernelStart, t)
    BY <1>8, <1>9, <1>13, <1>15 DEF Mapping
  <2>2. LowTable \in DOMAIN e1[kernel_page_dir]
    BY <1>15
  <2>. QED
    BY <1>9, <1>14, <1>15, <2>1, <2>2, PutMaps
<1>17. /\ Separate(entry) /\ EntriesTyped(entry)
       /\ DOMAIN e1 \subseteq DOMAIN entry
       /\ entry[kernel_page_dir] = e1[kernel_page_dir]
       /\ At(entry, KernelStart) = t
       /\ \A w \in KernelPages \ {KernelStart} : At(entry, w) = None
  BY <1>10, <1>15, <1>16 DEF PageIsPut, Maps
<1>18. KernelTables
  <2>1. Len(blocks) = 1
    BY DEF Init
  <2>2. HighTable \notin DOMAIN entry[kernel_page_dir] /\ ~(Len(blocks) > 1)
    BY <1>15, <1>17, <2>1 DEF HighTable, LowTable, UserTable, ImageTable
  <2>3. \A i \in DOMAIN entry[kernel_page_dir] \ {UserTable, ImageTable} :
           entry[kernel_page_dir][i] \in DOMAIN entry \cap memory
    BY <1>7, <1>15, <1>17
  <2>4. 1..3 \subseteq DOMAIN entry
    BY <1>10, <1>15, <1>17
  <2>5. entry[kernel_page_dir][UserTable] = 2 /\ entry[kernel_page_dir][ImageTable] = 3
    BY <1>10, <1>15, <1>17
  <2>. QED
    BY <1>15, <1>17, <2>2, <2>3, <2>4, <2>5 DEF KernelTables
<1>19. KernelUses(entry) = {<<<<"kernel", LowTable, "table">>, t2>>}
                             \cup {<<<<"kernel", KernelStart, "page">>, t>>}
  <2>1. KernelUses(e1) = KernelUses(e) \cup {<<<<"kernel", LowTable, "table">>, t2>>}
    <3>1. DOMAIN e1[kernel_page_dir] = DOMAIN e[kernel_page_dir] \cup {LowTable}
      BY <1>10, <1>15
    <3>2. \A j \in DOMAIN e[kernel_page_dir] : e1[kernel_page_dir][j] = e[kernel_page_dir][j]
      BY <1>10, <1>15
    <3>. QED
      BY <1>11, <1>15, <3>1, <3>2, NewTableUses
  <2>2. At(e1, KernelStart) = None /\ \A w \in KernelPages \ {KernelStart} : At(entry, w) = At(e1, w)
    BY <1>9, <1>10, <1>15, <1>17
  <2>3. KernelUses(entry) = KernelUses(e1) \cup {<<<<"kernel", KernelStart, "page">>, t>>}
    BY <1>9, <1>14, <1>17, <2>2, PutUses
  <2>. QED
    BY <1>10, <2>1, <2>3
<1>20. Exclusive(KernelUses(entry), free)
  <2>1. PICK u, v : /\ u = {<<<<"kernel", KernelStart, "page">>, t>>}
                    /\ v = u \cup {<<<<"kernel", LowTable, "table">>, t2>>}
    OBVIOUS
  <2>2. VideoMemory \notin memory
    BY <1>2, MemorySize DEF VideoMemory
  <2>3. Exclusive(u, left)
    BY <1>5, <1>14, <2>1 DEF Exclusive
  <2>4. Exclusive(v, left \ {t2})
    BY <1>5, <1>7, <2>1, <2>2, <2>3, ExclusiveAdds
  <2>5. v = KernelUses(entry)
    BY <1>19, <2>1
  <2>. QED
    BY <1>13, <2>4, <2>5
<1>21. \A w \in KernelPages : At(entry, w) # None <=> w = KernelStart
  BY <1>14, <1>17
<1>22. \A w \in KernelPages : At(entry, w) # VideoMemory
  BY <1>14, <1>17 DEF None, VideoMemory
<1>23. free \subseteq memory
  BY <1>5, <1>13
<1>. QED
  BY <1>2, <1>17, <1>18, <1>20, <1>21, <1>22, <1>23

LEMMA InitHolds ==
  ASSUME Init
  PROVE  SpacesInv
<1>1. /\ MemoryOK /\ free \subseteq memory /\ EntriesTyped(entry) /\ KernelTables
      /\ Exclusive(KernelUses(entry), free)
      /\ \A w \in KernelPages : At(entry, w) # None <=> w = KernelStart
      /\ \A w \in KernelPages : At(entry, w) # VideoMemory
  BY InitSpaces
<1>2. /\ blocks = <<[base |-> KernelStart, length |-> 1]>> /\ block_table_size = PerPage
      /\ todo = Boot /\ new = << >> /\ procs = << >> /\ failed = FALSE
  BY DEF Init
<1>3. BlocksShape
  <2>1. Len(blocks) = 1 /\ blocks[1] = [base |-> KernelStart, length |-> 1] /\ DOMAIN blocks = 1..1
    BY <1>2
  <2>2. blocks = [i \in 1..1 |-> IF i = 1 THEN [base |-> KernelStart, length |-> 1]
                                 ELSE [base |-> KernelTop + 1 - i, length |-> 1]]
    BY <1>2
  <2>3. 1 \in 1..(7 + 3 * MaxProcesses) /\ 1 <= PerPage /\ PerPage = PerPage * 1
    BY SizesAssumption
  <2>. QED
    BY <1>2, <2>1, <2>2, <2>3 DEF BlocksShape
<1>4. (\A i \in DOMAIN blocks : blocks[i] \in [base : KernelPages, length : 1..PerTable])
      /\ block_table_size \in Nat
  BY <1>3, BlocksTyped
<1>5. KernelMap
  <2>1. SUFFICES ASSUME NEW v \in KernelPages
                 PROVE  v = KernelStart <=> v > KernelTop + 1 - 1 \/ v < KernelStart + 1
    BY <1>1, <1>2, KernelAt DEF KernelMap
  <2>2. /\ KernelStart = 2 * PerTable /\ KernelTop = 4 * PerTable - 1
        /\ v \in KernelStart..KernelTop /\ PerTable \in Nat
    BY SizesAssumption DEF KernelPages, KernelStart, KernelTop, LowTable, HighTable
  <2>. QED
    BY <2>2
<1>6. ProcessesComplete
  BY <1>2 DEF ProcessesComplete
<1>7. ProcessUses(procs, new) = {}
  <2>1. Holds(<< >>, "process", 0) = {}
    BY DEF Holds
  <2>. QED
    BY <1>2, <2>1 DEF ProcessUses
<1>8. OneUseEach
  <2>1. KernelUses(entry) \cup ProcessUses(procs, new) = KernelUses(entry)
    BY <1>7
  <2>2. Uses = KernelUses(entry)
    BY <2>1, UsesAre
  <2>. QED
    BY <1>1, <2>2, OneUseIs
<1>9. IsSeq(todo) /\ IsSeq(procs)
  <2>1. PICK S : S = {Virt("idt"), Virt("process"), Virt("blocks"), Virt("thread"), Do("screen")}
    OBVIOUS
  <2>2. Boot \in Seq(S) /\ << >> \in Seq(S)
    BY <2>1 DEF Boot
  <2>. QED
    BY <1>2, <2>2, OwnElements
<1>10. Booting
  <2>1. Len(todo) = 6 /\ IsRest(todo, Boot)
    BY <1>2, BootIs DEF IsRest
  <2>2. Len(blocks) = 7 - 6
    BY <1>2
  <2>3. \A v \in KernelPages : Kernel(v) # VideoMemory
    BY <1>1, KernelAt
  <2>. QED
    BY <1>2, <2>1, <2>2, <2>3 DEF Booting
<1>11. TypeOK
  <2>1. free \subseteq memory /\ EntriesTyped(entry)
    BY <1>1
  <2>2. failed \in BOOLEAN
    BY <1>2
  <2>3. DOMAIN new = {}
    BY <1>2
  <2>. QED
    BY <1>4, <2>1, <2>2, <2>3 DEF TypeOK, EntriesTyped
<1>12. Typed
  BY <1>1, <1>2, <1>9 DEF Typed
<1>13. Progress
  BY <1>10 DEF Progress
<1>. QED
  BY <1>1, <1>3, <1>5, <1>6, <1>8, <1>11, <1>12, <1>13 DEF SpacesInv

LEMMA StepKeeps ==
  ASSUME SpacesInv, [Next]_vars
  PROVE  SpacesInv'
<1>1. CASE alloc_phys_pages
  BY <1>1, PhysKeeps
<1>2. CASE alloc_virt_pages
  BY <1>2, VirtKeeps
<1>3. CASE init_tty
  BY <1>3, ScreenKeeps
<1>4. CASE init_page_tables
  BY <1>4, TablesKeeps
<1>5. CASE FillTss
  BY <1>5, TssKeeps
<1>6. CASE AllocStack
  BY <1>6, StackKeeps
<1>7. CASE Link
  BY <1>7, LinkKeeps
<1>8. CASE Shell
  BY <1>8, ShellKeeps
<1>9. CASE UNCHANGED vars
  <2>1. UNCHANGED <<free, entry, blocks, block_table_size, todo, new, procs, memory, failed>>
    BY <1>9 DEF vars
  <2>2. /\ MemoryOK' /\ EntriesTyped(entry)' /\ BlocksShape' /\ KernelTables' /\ KernelMap'
        /\ ProcessesComplete'
    BY <2>1, SameSpaces
  <2>3. /\ free' \subseteq memory'
        /\ (Exclusive(KernelUses(entry) \cup ProcessUses(procs, new), free))'
        /\ (\A n \in DOMAIN new : new[n] \in memory \cup KernelPages)'
        /\ (\A i \in DOMAIN procs : \A n \in DOMAIN procs[i] : procs[i][n] \in memory \cup KernelPages)'
        /\ IsSeq(procs)' /\ IsSeq(todo)' /\ failed' \in BOOLEAN
    BY <2>1, Parts DEF Exclusive
  <2>4. Progress'
    <3>1. (Booting => Booting') /\ (Starting => Starting') /\ (Idle => Idle')
      BY <2>1, KernelAt, KernelAtNext DEF Booting, Starting, Idle
    <3>. QED
      BY <2>1, <3>1, Parts DEF Progress
  <2>. QED
    BY <2>2, <2>3, <2>4, Assembled
<1>. QED
  BY <1>1, <1>2, <1>3, <1>4, <1>5, <1>6, <1>7, <1>8, <1>9 DEF Next

(***************************************************************************)
(* The inductive invariant: what map_pages and alloc_virt_pages keep of    *)
(* the tables and of the blocks, and how far the kernel thread is.         *)
(***************************************************************************)
THEOREM SpacesInvariant == Spec => []SpacesInv
<1>1. Init => SpacesInv
  BY InitHolds
<1>2. SpacesInv /\ [Next]_vars => SpacesInv'
  BY StepKeeps
<1>. QED
  BY <1>1, <1>2, PTL DEF Spec

(***************************************************************************)
(* A page of memory that map_pages and alloc_virt_pages handle is free or  *)
(* has one use, also after an allocation has failed half way.              *)
(***************************************************************************)
THEOREM PagesHaveOneUse == Spec => []OneUseEach
<1>1. SpacesInv => OneUseEach
  BY DEF SpacesInv
<1>. QED
  BY <1>1, SpacesInvariant, PTL

(***************************************************************************)
(* The pages, tables, blocks and addresses stay in their ranges.           *)
(***************************************************************************)
THEOREM SpacesTyped == Spec => []TypeOK
<1>1. SpacesInv => TypeOK
  BY DEF SpacesInv
<1>. QED
  BY <1>1, SpacesInvariant, PTL

LEMMA BlocksApart ==
  ASSUME BlocksShape, NEW i \in DOMAIN blocks, NEW j \in DOMAIN blocks, i < j
  PROVE  blocks[j].base + blocks[j].length <= blocks[i].base
<1>1. PICK n, length : n = Len(blocks) /\ length = Length
  OBVIOUS
<1>2. /\ n \in Nat /\ length \in Nat /\ DOMAIN blocks = 1..n
      /\ blocks[n] = [base |-> KernelStart, length |-> length]
      /\ \A k \in 1..(n - 1) : blocks[k] = [base |-> KernelTop + 1 - k, length |-> 1]
      /\ KernelStart + length <= KernelTop + 1 - n
  BY <1>1, Shape DEF Lowest
<1>3. KernelStart \in Int /\ KernelTop \in Int
  BY SizesAssumption DEF KernelStart, KernelTop, LowTable, HighTable
<1>4. i \in 1..(n - 1) /\ blocks[i].base = KernelTop + 1 - i
  <2>1. i \in 1..n /\ j \in 1..n /\ n \in Nat /\ i < j
    BY <1>2
  <2>2. i \in 1..(n - 1)
    BY <2>1
  <2>3. blocks[i] = [base |-> KernelTop + 1 - i, length |-> 1]
    BY <1>2, <2>2
  <2>. QED
    BY <2>2, <2>3
<1>5. CASE j = n
  <2>1. blocks[j].base + blocks[j].length = KernelStart + length
    <3>1. blocks[j] = [base |-> KernelStart, length |-> length]
      BY <1>2, <1>5
    <3>. QED
      BY <3>1
  <2>. QED
    BY <1>2, <1>3, <1>4, <2>1
<1>6. CASE j # n
  <2>1. j \in 1..(n - 1)
    <3>1. j \in 1..n /\ n \in Nat /\ j # n
      BY <1>2, <1>6
    <3>. QED
      BY <3>1
  <2>2. blocks[j].base = KernelTop + 1 - j /\ blocks[j].length = 1
    <3>1. blocks[j] = [base |-> KernelTop + 1 - j, length |-> 1]
      BY <1>2, <2>1
    <3>. QED
      BY <3>1
  <2>. QED
    BY <1>3, <1>4, <2>1, <2>2
<1>. QED
  BY <1>5, <1>6

LEMMA BlocksCover ==
  ASSUME BlocksShape, KernelMap
  PROVE  Recorded = UsedKernelPages
<1>1. PICK n, length, s, t : /\ n = Len(blocks) /\ length = Length
                             /\ s = KernelStart /\ t = KernelTop
  OBVIOUS
<1>2. /\ n \in Nat \ {0} /\ length \in Nat \ {0} /\ DOMAIN blocks = 1..n
      /\ blocks[n] = [base |-> s, length |-> length]
      /\ \A k \in 1..(n - 1) : blocks[k] = [base |-> t + 1 - k, length |-> 1]
      /\ s + length <= t + 1 - n
  BY <1>1, Shape DEF Lowest
<1>3. s \in Int /\ t \in Int /\ KernelPages = s..t
  BY <1>1, SizesAssumption DEF KernelStart, KernelTop, LowTable, HighTable, KernelPages
<1>4. \A v : v \in UsedKernelPages <=> v \in s..t /\ (v > t + 1 - n \/ v < s + length)
  BY <1>1, <1>3 DEF UsedKernelPages, KernelMap, Length
<1>5. \A v : v \in Recorded <=>
               \E k \in 1..n : v \in blocks[k].base..(blocks[k].base + blocks[k].length - 1)
  BY <1>2 DEF Recorded
<1>6. ASSUME NEW v, v \in Recorded
      PROVE  v \in UsedKernelPages
  <2>1. PICK k \in 1..n : v \in blocks[k].base..(blocks[k].base + blocks[k].length - 1)
    BY <1>5, <1>6
  <2>2. CASE k = n
    <3>1. v \in s..(s + length - 1)
      BY <1>2, <2>1, <2>2
    <3>2. v \in s..t /\ v < s + length
      BY <1>2, <1>3, <3>1
    <3>. QED
      BY <1>4, <3>2
  <2>3. CASE k # n
    <3>1. k \in 1..(n - 1)
      BY <1>2, <2>1, <2>3
    <3>2. v \in (t + 1 - k)..(t + 1 - k + 1 - 1)
      <4>1. blocks[k] = [base |-> t + 1 - k, length |-> 1]
        BY <1>2, <3>1
      <4>2. blocks[k].base = t + 1 - k /\ blocks[k].length = 1
        BY <4>1
      <4>. QED
        BY <2>1, <4>2
    <3>3. v \in s..t /\ v > t + 1 - n
      BY <1>2, <1>3, <3>1, <3>2
    <3>. QED
      BY <1>4, <3>3
  <2>. QED
    BY <2>2, <2>3
<1>7. ASSUME NEW v, v \in UsedKernelPages
      PROVE  v \in Recorded
  <2>1. v \in s..t /\ (v > t + 1 - n \/ v < s + length)
    BY <1>4, <1>7
  <2>2. CASE v < s + length
    <3>1. v \in s..(s + length - 1)
      BY <1>2, <1>3, <2>1, <2>2
    <3>2. v \in blocks[n].base..(blocks[n].base + blocks[n].length - 1) /\ n \in 1..n
      BY <1>2, <3>1
    <3>. QED
      BY <1>5, <3>2
  <2>3. CASE v > t + 1 - n
    <3>1. PICK k \in 1..(n - 1) : k = t + 1 - v
      BY <1>2, <1>3, <2>1, <2>3
    <3>2. v = t + 1 - k /\ v \in (t + 1 - k)..(t + 1 - k + 1 - 1)
      BY <1>3, <2>1, <3>1
    <3>3. blocks[k].base = t + 1 - k /\ blocks[k].length = 1
      <4>1. blocks[k] = [base |-> t + 1 - k, length |-> 1]
        BY <1>2
      <4>. QED
        BY <4>1
    <3>4. v \in blocks[k].base..(blocks[k].base + blocks[k].length - 1)
      BY <3>2, <3>3
    <3>5. k \in 1..n
      BY <1>2
    <3>. QED
      BY <1>5, <3>4, <3>5
  <2>. QED
    BY <2>1, <2>2, <2>3
<1>. QED
  BY <1>6, <1>7

(***************************************************************************)
(* The blocks of kernel_address_space are in order and disjoint, they are  *)
(* what map_pages has mapped, and their table has room for them.           *)
(***************************************************************************)
THEOREM BlocksTellWhatIsMapped == Spec => []BlocksAreWhatIsMapped
<1>1. ASSUME SpacesInv
      PROVE  BlocksAreWhatIsMapped
  <2>1. BlocksShape /\ KernelMap
    BY <1>1, Parts
  <2>2. \A i, j \in DOMAIN blocks : i < j => blocks[j].base + blocks[j].length <= blocks[i].base
    BY <2>1, BlocksApart
  <2>3. Recorded = UsedKernelPages
    BY <2>1, BlocksCover
  <2>4. Len(blocks) <= block_table_size
    BY <2>1, Shape
  <2>5. block_table_size <= PerPage * blocks[Len(blocks)].length
    <3>1. PICK x : x = PerPage * blocks[Len(blocks)].length
      OBVIOUS
    <3>2. block_table_size = x /\ x \in Nat
      <4>1. Length \in Nat /\ block_table_size = PerPage * Length
        BY <2>1, Shape
      <4>. QED
        BY <3>1, <4>1, SizesAssumption DEF Length
    <3>. QED
      BY <3>1, <3>2
  <2>. QED
    BY <2>2, <2>3, <2>4, <2>5 DEF BlocksAreWhatIsMapped
<1>. QED
  BY <1>1, SpacesInvariant, PTL

(***************************************************************************)
(* The first PerTable blocks are in the table of kernel memory that        *)
(* init_page_tables has copied into every directory.                       *)
(***************************************************************************)
LEMMA BlocksInTheSharedTable ==
  ASSUME BlocksShape, NEW b \in 1..(Len(blocks) - 1), b <= PerTable
  PROVE  TableOf(blocks[b].base) = HighTable
<1>1. PICK n, v : n = Len(blocks) /\ v = blocks[b].base
  OBVIOUS
<1>2. n \in Nat \ {0} /\ b <= PerTable /\ b \in 1..(n - 1)
  BY <1>1, Shape
<1>3. v = KernelTop + 1 - b
  <2>1. blocks[b] = [base |-> KernelTop + 1 - b, length |-> 1]
    BY Shape
  <2>. QED
    BY <1>1, <2>1
<1>4. v \in KernelPages /\ ~(v < 3 * PerTable)
  BY <1>2, <1>3, SizesAssumption DEF KernelPages, KernelStart, KernelTop
<1>5. TableOf(v) = HighTable
  BY <1>4, KernelPlace
<1>. QED
  BY <1>1, <1>5

(***************************************************************************)
(* What a tick reads of the kernel's memory is in the directory of every   *)
(* process that has been linked into thread_list: the directories share    *)
(* the table, so what alloc_virt_pages maps later is in all of them.       *)
(***************************************************************************)
THEOREM KernelIsInEverySpace == Spec => []KernelInEverySpace
<1>1. ASSUME SpacesInv
      PROVE  KernelInEverySpace
  <2>1. SUFFICES ASSUME NEW i \in DOMAIN procs, NEW b \in 1..(Len(blocks) - 1), b <= PerTable
                 PROVE  Translated(procs[i].dir, blocks[b].base) = Kernel(blocks[b].base)
    BY DEF KernelInEverySpace
  <2>2. PICK v : v = blocks[b].base
    OBVIOUS
  <2>3. TableOf(v) = HighTable
    BY <1>1, <2>1, <2>2, Parts, BlocksInTheSharedTable
  <2>4. HasTables(entry, procs[i])
    BY <1>1, Parts DEF ProcessesComplete
  <2>5. /\ HighTable \in DOMAIN entry[kernel_page_dir] /\ HighTable \in DOMAIN entry[procs[i].dir]
        /\ entry[procs[i].dir][HighTable] = entry[kernel_page_dir][HighTable]
    BY <2>4 DEF HasTables
  <2>6. Translated(procs[i].dir, v) = Translated(kernel_page_dir, v)
    BY <2>3, <2>5 DEF Translated
  <2>. QED
    BY <2>2, <2>6 DEF Kernel
<1>. QED
  BY <1>1, SpacesInvariant, PTL

(***************************************************************************)
(* In the directory that init_page_tables has made for a process are the   *)
(* image that run_new_process has read, the stack that create_thread has   *)
(* got and the page of the TSS: no later step of the kernel moves them.    *)
(***************************************************************************)
THEOREM ProcessesStayMapped == Spec => []ProcessIsMapped
<1>1. ASSUME SpacesInv
      PROVE  ProcessIsMapped
  <2>1. SUFFICES ASSUME NEW i \in DOMAIN procs
                 PROVE  /\ Translated(procs[i].dir, ImagePage) = procs[i].image
                        /\ Translated(procs[i].dir, StackPage) = procs[i].stack
                        /\ Translated(procs[i].dir, TssPage) = procs[i].tss
    BY DEF ProcessIsMapped
  <2>2. PICK p : p = procs[i]
    OBVIOUS
  <2>3. HasTables(entry, p) /\ HasTss(entry, p) /\ HasStack(entry, p)
    BY <1>1, <2>2, Parts DEF ProcessesComplete
  <2>4. /\ UserTable \in DOMAIN entry[p.dir] /\ TssTable \in DOMAIN entry[p.dir]
        /\ entry[p.dir][UserTable] = p.first /\ entry[p.dir][TssTable] = p.last
        /\ DOMAIN entry[p.first] = Index /\ entry[p.first][ImagePage] = p.image
    BY <2>3 DEF HasTables
  <2>5. entry[p.first][StackPage] = p.stack
    BY <2>3 DEF HasStack
  <2>6. SlotOf(TssPage) \in DOMAIN entry[p.last] /\ entry[p.last][SlotOf(TssPage)] = p.tss
    BY <2>3 DEF HasTss
  <2>7. Translated(p.dir, ImagePage) = p.image
    BY <2>4, UserPlaces DEF Translated
  <2>8. Translated(p.dir, StackPage) = p.stack
    BY <2>4, <2>5, UserPlaces DEF Translated
  <2>9. Translated(p.dir, TssPage) = p.tss
    BY <2>4, <2>6, UserPlaces DEF Translated
  <2>. QED
    BY <2>2, <2>7, <2>8, <2>9
<1>. QED
  BY <1>1, SpacesInvariant, PTL
=============================================================================
