------------------------- MODULE AddressSpacesProps -------------------------
(***************************************************************************)
(* What must be true of the virtual memory.                                *)
(***************************************************************************)
EXTENDS AddressSpaces

KernelPages == KernelStart..KernelTop
Targets == {None} \cup 0..(Cardinality(memory) + PerTable - 2)

TypeOK ==
  /\ free \subseteq memory
  /\ \A p \in DOMAIN entry : /\ p \in memory \cup 1..3
                             /\ DOMAIN entry[p] \subseteq Index
                             /\ \A i \in DOMAIN entry[p] : entry[p][i] \in Targets
  /\ \A i \in DOMAIN blocks : blocks[i] \in [base : KernelPages, length : 1..PerTable]
  /\ block_table_size \in Nat /\ failed \in BOOLEAN
  /\ \A n \in DOMAIN new : new[n] \in memory \cup KernelPages

-----------------------------------------------------------------------------

(* The page that is mapped, in kernel memory, at v.                        *)
Kernel(v) == Translated(kernel_page_dir, v)
UsedKernelPages == {v \in KernelPages : Kernel(v) # None}
Recorded == UNION {b.base..(b.base + b.length - 1) : b \in {blocks[i] : i \in DOMAIN blocks}}

(* What every page of memory that is in use is used for.                   *)
Holds(p, owner, i) ==
  {<<<<owner, i, n>>, p[n]>> :
     n \in DOMAIN p \cap {"image", "first", "last", "dir", "tss", "stack"}}
Uses ==
  {<<<<"kernel", v, "page">>, Kernel(v)>> : v \in UsedKernelPages}
     \cup {<<<<"kernel", i, "table">>, entry[kernel_page_dir][i]>> :
             i \in DOMAIN entry[kernel_page_dir] \ {UserTable, ImageTable}}
     \cup (UNION {Holds(procs[i], "process", i) : i \in DOMAIN procs})
     \cup Holds(new, "process", 0)

(***************************************************************************)
(* A page of memory is free or has one use: it is one page of kernel       *)
(* memory, one table, or one page of one process.  Nothing is lost, not    *)
(* even when an allocation fails half way.                                 *)
(***************************************************************************)
OneUseEach ==
  /\ \A u, w \in Uses : u[2] = w[2] => u = w
  /\ {u[2] : u \in Uses} \ {VideoMemory} = memory \ free

(***************************************************************************)
(* The kernel's blocks are disjoint, in descending order, and exactly what *)
(* is mapped; their table, which is the last block, has room for them.     *)
(***************************************************************************)
BlocksAreWhatIsMapped ==
  /\ \A i, j \in DOMAIN blocks : i < j => blocks[j].base + blocks[j].length <= blocks[i].base
  /\ Recorded = UsedKernelPages
  /\ Len(blocks) <= block_table_size
  /\ block_table_size <= PerPage * blocks[Len(blocks)].length

(***************************************************************************)
(* A tick reads the IDT, the threads and the processes with the page       *)
(* directory of whatever process it interrupts.  The blocks in which they  *)
(* are, also those that were made after the process, are in its directory, *)
(* as far as they fit in the one table of kernel memory that directories   *)
(* share: the first PerTable, which are those of 339 processes.            *)
(***************************************************************************)
KernelInEverySpace ==
  \A i \in DOMAIN procs, b \in 1..(Len(blocks) - 1) :
     b <= PerTable => Translated(procs[i].dir, blocks[b].base) = Kernel(blocks[b].base)

(***************************************************************************)
(* Every process in thread_list has its own image at USER_PROGRAM_BASE,    *)
(* its own stack, and the page in which the TSS is kept.                   *)
(***************************************************************************)
ProcessIsMapped ==
  \A i \in DOMAIN procs :
     /\ Translated(procs[i].dir, ImagePage) = procs[i].image
     /\ Translated(procs[i].dir, StackPage) = procs[i].stack
     /\ Translated(procs[i].dir, TssPage) = procs[i].tss

-----------------------------------------------------------------------------
(* The inductive invariant from which AddressSpacesProofs proves them.     *)

(* The blocks have no gaps: they go down from the end of kernel memory,    *)
(* and the table of the blocks is at its start.                            *)
BlocksShape ==
  LET n == Len(blocks)
      length == blocks[n].length
  IN  /\ n \in 1..(7 + 3 * MaxProcesses) /\ length \in Nat \ {0}
      /\ blocks = [i \in 1..n |-> IF i = n THEN [base |-> KernelStart, length |-> length]
                                          ELSE [base |-> KernelTop + 1 - i, length |-> 1]]
      /\ n <= block_table_size /\ block_table_size = PerPage * length
      /\ length = 1 \/ PerPage * (length - 1) < n

(* The kernel's directory: the boot loader's entries and the two tables.   *)
KernelTables ==
  LET dir == entry[kernel_page_dir]
  IN  /\ 1..3 \subseteq DOMAIN entry
      /\ {UserTable, LowTable, ImageTable} \subseteq DOMAIN dir
      /\ DOMAIN dir \subseteq {UserTable, LowTable, HighTable, ImageTable}
      /\ HighTable \in DOMAIN dir <=> Len(blocks) > 1
      /\ dir[UserTable] = 2 /\ dir[ImageTable] = 3
      /\ \A i \in DOMAIN dir \ {UserTable, ImageTable} : dir[i] \in DOMAIN entry \cap memory

(* What is mapped in kernel memory.                                        *)
KernelMap ==
  \A v \in KernelPages :
     Kernel(v) # None <=> \/ v > KernelTop + 1 - Len(blocks)
                          \/ v < KernelStart + blocks[Len(blocks)].length

(* The directory and the tables of process p as far as they are made.      *)
HasTables(e, p) ==
  /\ {p.dir, p.first, p.last} \subseteq DOMAIN e
  /\ HighTable \in DOMAIN e[kernel_page_dir]
  /\ DOMAIN e[p.dir] = {UserTable, TssTable, HighTable, ImageTable}
  /\ e[p.dir][UserTable] = p.first /\ e[p.dir][TssTable] = p.last
  /\ \A i \in {HighTable, ImageTable} : e[p.dir][i] = e[kernel_page_dir][i]
  /\ DOMAIN e[p.first] = Index /\ e[p.first][ImagePage] = p.image
HasTss(e, p) == SlotOf(TssPage) \in DOMAIN e[p.last] /\ e[p.last][SlotOf(TssPage)] = p.tss
HasStack(e, p) == e[p.first][StackPage] = p.stack

PageNames == {"image", "first", "last", "dir", "tss", "stack"}
ProcessesComplete ==
  \A i \in DOMAIN procs : /\ PageNames \subseteq DOMAIN procs[i]
                          /\ HasTables(entry, procs[i])
                          /\ HasTss(entry, procs[i]) /\ HasStack(entry, procs[i])

(* How far the kernel thread is: r steps are left of the boot or of        *)
(* run_new_process.                                                        *)
IsRest(t, steps) ==
  /\ Len(t) <= Len(steps)
  /\ \A i \in 1..Len(t) : t[i] = steps[Len(steps) - Len(t) + i]
BlocksMade(r) == IF r >= 5 THEN 0 ELSE IF r = 4 THEN 1 ELSE IF r = 3 THEN 2 ELSE 3
PagesMade(r) ==
  (IF r < 12 THEN {"image"} ELSE {}) \cup (IF r < 11 THEN {"first"} ELSE {})
    \cup (IF r < 10 THEN {"last"} ELSE {}) \cup (IF r < 9 THEN {"dir"} ELSE {})
    \cup (IF r < 7 THEN {"tss"} ELSE {}) \cup (IF r < 2 THEN {"stack"} ELSE {})

Booting ==
  /\ IsRest(todo, Boot) /\ procs = <<>> /\ Len(blocks) = 7 - Len(todo)
  /\ DOMAIN new \cap PageNames = {}
  /\ todo # <<>> => \A v \in KernelPages : Kernel(v) # VideoMemory
Starting ==
  LET r == Len(todo)
  IN  /\ IsRest(todo, run_new_process) /\ r > 0 /\ Len(procs) < MaxProcesses
      /\ Len(blocks) = 7 + 3 * Len(procs) + BlocksMade(r)
      /\ DOMAIN new \cap PageNames = PagesMade(r)
      /\ (r < 8 => HasTables(entry, new))
      /\ (r < 6 => HasTss(entry, new)) /\ (r < 2 => HasStack(entry, new))
Idle ==
  /\ todo = <<>> /\ new = << >> /\ Len(procs) <= MaxProcesses
  /\ Len(blocks) = 7 + 3 * Len(procs)
Progress == ~failed => Booting \/ Starting \/ Idle

MemoryOK == \E size \in Sizes : memory = LowPages..(LowPages + size - 1)
IsSeq(s) == s \in Seq({s[i] : i \in DOMAIN s})
Typed ==
  /\ MemoryOK /\ IsSeq(todo) /\ IsSeq(procs)
  /\ \A i \in DOMAIN procs : \A n \in DOMAIN procs[i] : procs[i][n] \in memory \cup KernelPages

SpacesInv ==
  /\ TypeOK /\ Typed /\ OneUseEach /\ BlocksShape /\ KernelTables /\ KernelMap
  /\ ProcessesComplete /\ Progress
=============================================================================
