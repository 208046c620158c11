--------------------------- MODULE AddressSpaces ---------------------------
(***************************************************************************)
(* The virtual memory of the kernel and of the processes: map_pages and    *)
(* alloc_virt_pages of memory_manager.c, with their callers at boot and in *)
(* run_image.  The physical allocator is the set of pages of PageSet.tla.  *)
(*                                                                         *)
(* Addresses are page numbers.  Of the page directory's entries the model  *)
(* has those in use: the user program's, the TSS's (511), the first and    *)
(* the last of kernel memory (512 and 1022) and the kernel image's (1023). *)
(* Every call asks for one page, as every call in the kernel does.         *)
(*                                                                         *)
(* todo is what the kernel thread has still to do.  Its callers never look *)
(* at what an allocation answers: the model stops when one has failed.     *)
(***************************************************************************)
EXTENDS Integers, Sequences, FiniteSets

CONSTANTS
  PerTable,     \* entries of a page table (1024 in the code)
  PerPage,      \* VirtMemoryBlocks in a page (341 in the code; what three pages
                \* leave over, one block in 1024, is left out)
  LowPages,     \* pages below 0x100000
  Sizes,        \* pages of memory there may be
  MaxProcesses  \* that are started

ASSUME SizesAssumption ==   \* the low pages hold what the boot loader left
  /\ PerTable \in Nat /\ LowPages \in Nat /\ LowPages >= 4 /\ 2 * LowPages < PerTable
  /\ PerPage \in Nat /\ PerPage >= 8 /\ MaxProcesses \in Nat
  /\ Sizes \subseteq {n \in Nat : n >= 2}

\* The two tables of kernel memory that the model has of the code's 511 hold
\* the blocks and the table of the blocks.
ASSUME RoomAssumption == 9 * (8 + 3 * MaxProcesses) <= 16 * PerTable

VARIABLES
  free,              \* pages that alloc_phys_pages can hand out
  entry,             \* what is in each page that is a directory or a table
  blocks,            \* kernel_address_space.blocks
  block_table_size,  \* of kernel_address_space
  todo,
  new,               \* the pages of the process that is being made
  procs,             \* the pages of those that are in thread_list
  memory,            \* the pages of this machine above the low ones
  failed

vars == <<free, entry, blocks, block_table_size, todo, new, procs, memory, failed>>

\* Entries of a page directory, and pages of virtual memory.
UserTable == 0
TssTable == 1
LowTable == 2
HighTable == 3
ImageTable == 4
KernelStart == LowTable * PerTable
KernelTop == (HighTable + 1) * PerTable - 1
ImagePage == LowPages
StackPage == 2 * LowPages
TssPage == (TssTable + 1) * PerTable - 3

\* The entries for a page in the page directory and in its page table.
TableOf(v) == v \div PerTable
SlotOf(v) == v % PerTable

kernel_page_dir == 1   \* 0x1000
VideoMemory == 0       \* a low page

Index == 0..(PerTable - 1)
None == -1   \* an entry that is not present

\* alloc_phys_pages(1): the last page of the one block of memory there is.
\* Mutant: it stays free.
Pick(f) == CHOOSE p \in f : \A q \in f : q <= p
Rest_Same(f) == f
Rest(f) == f \ {Pick(f)}

-----------------------------------------------------------------------------
(* map_pages for one page, as what it makes of the free pages and of the   *)
(* tables.  A table that is missing is allocated and cleared.              *)

Mapped(f, e, dir, v, page) ==
  LET i == TableOf(v)
      Set(t, tables) == [tables EXCEPT ![t] =
                           [j \in DOMAIN @ \cup {SlotOf(v)} |->
                              IF j = SlotOf(v) THEN page ELSE @[j]]]
      t == Pick(f)
  IN  IF i \in DOMAIN e[dir] THEN [ok |-> TRUE, free |-> f, entry |-> Set(e[dir][i], e)]
      ELSE IF f = {} THEN [ok |-> FALSE, free |-> f, entry |-> e]
      ELSE [ok |-> TRUE, free |-> Rest(f),
            entry |-> Set(t, [p \in DOMAIN e \cup {t} |->
                        CASE p = t -> << >>
                          [] p = dir -> [j \in DOMAIN e[dir] \cup {i} |->
                                           IF j = i THEN t ELSE e[dir][j]]
                          [] OTHER -> e[p]])]

\* What an address is translated to.
Translated(dir, v) ==
  LET i == TableOf(v)
  IN  IF i \notin DOMAIN entry[dir] THEN None
      ELSE LET t == entry[entry[dir][i]]
           IN  IF SlotOf(v) \in DOMAIN t THEN t[SlotOf(v)] ELSE None

-----------------------------------------------------------------------------
(* alloc_virt_pages in kernel memory, at any address: downwards from the   *)
(* end, below the blocks that are already there.                           *)

Covers(b, v) == v \in b.base..(b.base + b.length - 1)
\* Mutant: above them.
Candidate_Above(i) == IF i = 0 THEN KernelTop ELSE blocks[i].base + 1
Candidate(i) == IF i = 0 THEN KernelTop ELSE blocks[i].base - 1
Place == CHOOSE i \in 0..Len(blocks) :
           /\ \A j \in 1..i : Covers(blocks[j], Candidate(j - 1))
           /\ i = Len(blocks) \/ ~Covers(blocks[i + 1], Candidate(i))

\* The block is entered at its place.  memcpy copies upwards, so if it had to
\* move several it would repeat the first of them.
Entered(bs, i, b) ==
  [j \in 1..(Len(bs) + 1) |->
     IF j <= i THEN bs[j] ELSE IF j = i + 1 THEN b ELSE bs[i + 1]]

\* When the table is full, it grows at its end (the last block is its own).
\* Mutant: the last block keeps its length.
Grown_Unrecorded(bs) == bs
Grown(bs) == [bs EXCEPT ![Len(bs)].length = @ + 1]
Full == Len(blocks) = block_table_size

\* Recorded, when m is what map_pages made: the block of the page at v.
Record(page, v, m) ==
  LET last == blocks[Len(blocks)]
      t == Pick(m.free)
      g == Mapped(Rest(m.free), m.entry, kernel_page_dir, last.base + last.length, t)
      dir == m.entry[kernel_page_dir]
  IN  IF ~Full THEN
           [ok |-> TRUE, free |-> m.free, entry |-> m.entry,
            blocks |-> Entered(blocks, Place, [base |-> v, length |-> 1]),
            size |-> block_table_size, vaddr |-> v]
      ELSE IF m.free = {} THEN
           [ok |-> FALSE, free |-> {page},
            entry |-> [m.entry EXCEPT ![dir[TableOf(v)]][SlotOf(v)] = None]]
      ELSE [ok |-> TRUE, free |-> IF g.ok THEN g.free ELSE g.free \cup {t}, entry |-> g.entry,
            blocks |-> Entered(IF g.ok THEN Grown(blocks) ELSE blocks, Place,
                               [base |-> v, length |-> 1]),
            size |-> block_table_size + PerPage, vaddr |-> v]

AllocVirt(page, f) ==
  LET v == Candidate(Place)
      m == Mapped(f, entry, kernel_page_dir, v, page)
  IN  IF m.ok THEN Record(page, v, m)
      ELSE [ok |-> FALSE, free |-> m.free \cup {page}, entry |-> m.entry]

-----------------------------------------------------------------------------
(* The steps of the kernel thread.  What a step allocates is named: a page *)
(* of memory for phys, a page of kernel memory for virt.                   *)

Phys(name) == [op |-> "phys", name |-> name]
Virt(name) == [op |-> "virt", name |-> name]
Do(op) == [op |-> op, name |-> "none"]

\* init_interrupts, init_multitasking, init_tty.
Boot == <<Virt("idt"), Virt("process"), Virt("blocks"), Virt("blocks"), Virt("thread"),
          Do("screen")>>

\* run_new_process, with init_page_tables, run_image and create_thread.
run_new_process ==
  <<Phys("image"), Phys("first"), Phys("last"), Phys("dir"), Do("tables"), Phys("tss"),
    Do("tss"), Virt("process"), Virt("blocks"), Virt("thread"), Do("stack"), Do("link")>>

Takes(op) == todo # <<>> /\ ~failed /\ Head(todo).op = op /\ todo' = Tail(todo)
Unused == UNCHANGED <<memory, procs>>
Result(r) ==
  /\ free' = r.free /\ entry' = r.entry /\ failed' = ~r.ok
  /\ blocks' = IF r.ok THEN r.blocks ELSE blocks
  /\ block_table_size' = IF r.ok THEN r.size ELSE block_table_size

With(f, name, page) == [n \in DOMAIN f \cup {name} |-> IF n = name THEN page ELSE f[n]]

alloc_phys_pages ==
  /\ Takes("phys") /\ Unused /\ UNCHANGED <<entry, blocks, block_table_size>>
  /\ IF free = {} THEN failed' = TRUE /\ UNCHANGED <<free, new>>
     ELSE /\ free' = Rest(free) /\ new' = With(new, Head(todo).name, Pick(free))
          /\ UNCHANGED failed

alloc_virt_pages ==
  /\ Takes("virt") /\ Unused
  /\ IF free = {} THEN failed' = TRUE /\ UNCHANGED <<free, entry, blocks, block_table_size, new>>
     ELSE LET r == AllocVirt(Pick(free), Rest(free))
          IN  /\ Result(r)
              /\ new' = IF r.ok THEN With(new, Head(todo).name, r.vaddr) ELSE new

\* alloc_virt_pages for the memory of the screen, which is not allocated.
init_tty == Takes("screen") /\ Unused /\ Result(AllocVirt(VideoMemory, free)) /\ UNCHANGED new

\* The first page table of a process: low memory, then what follows the image.
\* Mutant: the image is not where the program is linked to.
FirstTable_Shifted(image) ==
  [i \in Index |-> IF i < LowPages THEN i ELSE image + i]
FirstTable(image) ==
  [i \in Index |-> IF i < LowPages THEN i ELSE image + i - LowPages]

\* The directory and the tables are not cleared.  entry has what is written to
\* them; nothing depends on the rest.

\* The tables that a process shares with the kernel.  Mutant: only the image.
Shared_ImageOnly == {ImageTable}
Shared == {HighTable, ImageTable}

init_page_tables ==
  /\ Takes("tables") /\ Unused
  /\ entry' = [p \in DOMAIN entry \cup {new.dir, new.first, new.last} |->
       CASE p = new.dir -> [i \in {UserTable, TssTable} \cup Shared |->
                              CASE i = UserTable -> new.first [] i = TssTable -> new.last
                                [] OTHER -> entry[kernel_page_dir][i]]
         [] p = new.first -> FirstTable(new.image)
         [] p = new.last -> << >>
         [] OTHER -> entry[p]]
  /\ UNCHANGED <<free, blocks, block_table_size, new, failed>>

FillTss ==
  /\ Takes("tss") /\ Unused
  /\ entry' = [entry EXCEPT ![new.last] = With(@, SlotOf(TssPage), new.tss)]
  /\ UNCHANGED <<free, blocks, block_table_size, new, failed>>

\* alloc_virt_pages at the given address of a process without any blocks.
AllocStack ==
  /\ Takes("stack") /\ Unused /\ UNCHANGED <<blocks, block_table_size>>
  /\ IF free = {} THEN failed' = TRUE /\ UNCHANGED <<free, entry, new>>
     ELSE LET m == Mapped(Rest(free), entry, new.dir, StackPage, Pick(free))
          IN  /\ free' = m.free /\ entry' = m.entry /\ failed' = ~m.ok
              /\ new' = With(new, "stack", Pick(free))

\* list_append to thread_list: from now on a tick may load the new directory.
Link ==
  /\ Takes("link") /\ procs' = Append(procs, new) /\ new' = << >>
  /\ UNCHANGED <<free, entry, blocks, block_table_size, memory, failed>>

Shell ==
  /\ todo = <<>> /\ ~failed /\ Len(procs) < MaxProcesses
  /\ todo' = run_new_process /\ new' = << >>
  /\ UNCHANGED <<free, entry, blocks, block_table_size, procs, memory, failed>>

(* After init_memory_manager: the boot loader's directory and its tables   *)
(* for low memory and for the kernel's image, and the table of the blocks. *)
Init ==
  /\ \E size \in Sizes :
       /\ memory = LowPages..(LowPages + size - 1)
       /\ LET t == Pick(memory)
              m == Mapped(Rest(memory),
                          [p \in 1..3 |->
                             CASE p = 1 -> [i \in {UserTable, ImageTable} |->
                                              IF i = UserTable THEN 2 ELSE 3]
                               [] p = 2 -> [i \in 0..(LowPages - 1) |-> i]
                               [] p = 3 -> << >>],
                          kernel_page_dir, KernelStart, t)
          IN  free = m.free /\ entry = m.entry
  /\ blocks = <<[base |-> KernelStart, length |-> 1]>> /\ block_table_size = PerPage
  /\ todo = Boot /\ new = << >> /\ procs = <<>> /\ failed = FALSE

Next == \/ alloc_phys_pages \/ alloc_virt_pages \/ init_tty \/ init_page_tables \/ FillTss
        \/ AllocStack \/ Link \/ Shell

Spec == Init /\ [][Next]_vars
=============================================================================
