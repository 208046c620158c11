------------------------- MODULE MultitaskingProps --------------------------
(***************************************************************************)
(* What must be true of the scheduler, and why it is hard: see README.md.  *)
(***************************************************************************)
EXTENDS Multitasking

(* What switch_task copies into Thread.state. *)
SavedRegs == [core : Word \cup KernelCore, tail : Word]

CpuType ==
  /\ cpu \in [core : Word \cup KernelCore \cup {NULL}, tail : Word \cup {NULL}]
  /\ cr3 \in Tasks
  /\ esp \in 0..(MaxDepth + 1)
  /\ kstack \in [1..(MaxDepth + 1) -> Word \cup KernelCore \cup {NULL}]
  /\ tss \in [Tasks -> (1..MaxDepth) \cup {NULL}]

ThreadType ==
  /\ state \in [Tasks -> SavedRegs \cup {NULL}]
  /\ process \in [Tasks -> Tasks \cup {NULL}]
  /\ suspend \in [Tasks -> {FALSE, NULL}]
  /\ seen \in [Tasks -> [core : Word \cup KernelCore, tail : Word \cup {NULL}] \cup {NULL}]
  /\ live \in Seq(Word)

ProcessType ==
  /\ pSuspend \in [Tasks -> {FALSE, NULL}]
  /\ tCount \in [Tasks -> Nat \cup {NULL}]
  /\ pList \in [Tasks -> PageWord \cup {NULL, "process_list"}]
  /\ spaceMutex \in [Tasks -> PageWord \cup {NULL}]
  /\ processList \in Seq(Tasks)

LinkType ==
  /\ next \in [Tasks -> Tasks \cup {NULL}] /\ prev \in [Tasks -> Tasks \cup {NULL}]
  /\ list \in [Tasks -> PageWord \cup {NULL, "thread_list"}]
  /\ first \in Tasks \cup {NULL} /\ count \in Nat
  /\ order \in Seq(Tasks)

SchedType ==
  /\ phase \in {"run", "next", "restore", "iret", "astray"}
  /\ currentThread \in Tasks \cup {NULL} /\ currentProcess \in Tasks \cup {NULL}
  /\ ticks \in 0..(TickWrap - 1)

FlagType == mutex \in BOOLEAN /\ enabled \in BOOLEAN

TypeOK ==
  CpuType /\ ThreadType /\ ProcessType /\ LinkType /\ SchedType /\ FlagType

\* The pointers nx link the threads of s, in its order, into one ring.
Closed(s, nx) ==
  \A i \in 1..Len(s) : nx[s[i]] = IF i = Len(s) THEN s[1] ELSE s[i + 1]

\* The page of the kernel's own thread came with list = NULL, so that list_append
\* links it.  Otherwise its `next` is never written, and the first tick that
\* switches follows it.
KernelCleared == list[Kernel] = NULL

(***************************************************************************)
(* list_append changes thread_list with interrupts enabled and switch_task *)
(* ignores its mutex.  At every step in between, the `next` pointers of    *)
(* the threads already linked form one ring, in the order of creation.     *)
(* Once switching is enabled the current thread is on it, unless the       *)
(* kernel's own thread record came with a garbage list pointer; and only   *)
(* then does switch_task follow a pointer that nobody has written.         *)
(***************************************************************************)
RingClosed ==
  /\ Closed(order, next)
  /\ enabled /\ KernelCleared => currentThread \in Range(order)
  /\ phase = "astray" => ~KernelCleared

\* Every field of thread t and of its process is written.
Complete(t) ==
  /\ process[t] = t /\ suspend[t] = FALSE /\ pSuspend[t] = FALSE /\ tCount[t] \in Nat
  /\ t # Kernel => state[t] \in SavedRegs

(***************************************************************************)
(* A thread that a tick can reach is complete: create_thread has written   *)
(* its process, its flags and its registers before it is linked, and its   *)
(* process is complete.                                                    *)
(***************************************************************************)
LinkedThreadsComplete == \A t \in Range(order) : Complete(t)

(***************************************************************************)
(* While a user thread executes, its own page directory is in use and the  *)
(* TSS found through it points just above the live words of the kernel     *)
(* thread's stack, so the next interrupt from ring 3 finds a stack and     *)
(* overwrites at most the one word that switch_task saved.                 *)
(***************************************************************************)
UserInItsOwnSpace ==
  phase = "run" /\ Ring3 =>
     /\ cr3 # Kernel /\ cr3 = currentThread /\ cr3 = currentProcess
     /\ tss[cr3] = Len(live)

(***************************************************************************)
(* A thread that is resumed has the registers it was interrupted with (a   *)
(* new one those that create_thread gave it), and the kernel thread also   *)
(* finds every live word of its stack, although the handlers of other      *)
(* threads used the same stack and the last live word in the meantime.     *)
(***************************************************************************)
ResumesAsInterrupted ==
  [][phase = "iret" /\ phase' = "run" =>
       /\ cpu' = seen[cr3]
       /\ cr3 = Kernel => [i \in 1..esp' |-> kstack'[i]] = live]_vars

\* No list pointer of a record came as garbage.
AllCleared ==
  \A t \in Tasks : list[t] \in {NULL, "thread_list"} /\ pList[t] \in {NULL, "process_list"}

(***************************************************************************)
(* Between two commands of the shell thread_list counts every linked       *)
(* thread, its mutex is free, `prev` undoes `next` and every linked thread *)
(* is counted by its process.  If every record came with list = NULL, the  *)
(* processes that ps shows are those of the ring; with garbage in a record *)
(* list_append skips it and the two lists differ for good.                 *)
(***************************************************************************)
ListsAgree ==
  At("idle") =>
     /\ count = Len(order) /\ ~mutex
     /\ \A i \in DOMAIN order : prev[order[i]] = IF i = 1 THEN order[Len(order)] ELSE order[i - 1]
     /\ AllCleared => processList = order
     /\ \A t \in Range(order) : tCount[t] = 1

(***************************************************************************)
(* The scheduler is the round robin of RoundRobin.tla: the ring is the     *)
(* threads linked so far, the turn is current_thread.  That is the promise *)
(* of a kernel whose own thread is linked; of one whose thread record came *)
(* with a garbage list pointer nothing is promised: an empty ring.         *)
(***************************************************************************)
RRing == IF KernelCleared THEN order ELSE <<>>
RTurn == IF KernelCleared THEN currentThread ELSE NULL
RR == INSTANCE RoundRobin WITH None <- NULL, ring <- RRing, turn <- RTurn
IsRoundRobin == RR!Spec

(***************************************************************************)
(* A linked user thread executes again and again, however often it is      *)
(* preempted and however many threads are started, if the kernel's own     *)
(* thread record came with list = NULL.                                    *)
(***************************************************************************)
EveryThreadRuns ==
  \A u \in Users :
     [](KernelCleared /\ u \in Range(order) => <>(phase = "run" /\ Ring3 /\ cr3 = u))

\* The shell has made process u and goes on to create_thread.
Starting(u) == At("process") /\ Item = u

\* list_append took thread u for appended.
Skipped(u) == list[u] \in PageWord \ {NULL}

(***************************************************************************)
(* A command that starts a process comes to its end although ticks         *)
(* interrupt it at every step, and leaves the thread linked, unless the    *)
(* uncleared page of the thread made list_append skip it.  It needs two    *)
(* records to come cleared: that of the process, or create_thread waits    *)
(* for ever for the mutex of its address space, and that of the kernel's   *)
(* own thread, or a tick takes the machine away.                           *)
(***************************************************************************)
StartCompletes ==
  \A u \in Users :
     Starting(u) /\ spaceMutex[u] = NULL /\ KernelCleared ~>
        At("idle") /\ (u \in Range(order) <=> ~Skipped(u))

-----------------------------------------------------------------------------
(***************************************************************************)
(* The inductive invariant.                                                *)
(***************************************************************************)

KernelRuns == phase = "run" /\ ~Ring3

\* Where the kernel thread is, also while it does not execute.
KCore == IF KernelRuns THEN cpu.core ELSE state[Kernel].core

BootPC == {"boot", "kthread", "current", "enable"}
AppendPC == {"get", "link", "publish", "back", "count", "release"}

(* Until Enable, the kernel thread is the only one that executes and it    *)
(* has not come further than the record of itself.                         *)
Switching ==
  /\ KCore \in KernelCore
  /\ ~enabled <=> KCore.pc \in BootPC \/ (KCore.pc \in AppendPC /\ KCore.item = Kernel)
  /\ ~enabled => KernelRuns /\ cr3 = Kernel
  /\ ~enabled /\ KCore.pc # "enable" => currentThread = NULL
  /\ KCore.pc = "enable" => currentThread = Kernel /\ currentProcess = Kernel

(* What init_multitasking has written on the way.                          *)
Booting ==
  /\ KCore.pc \in {"boot", "kthread"} =>
        order = <<>> /\ list[Kernel] = NULL /\ next[Kernel] = NULL
  /\ KCore.pc = "kthread" => pSuspend[Kernel] = FALSE /\ tCount[Kernel] \in Nat
  /\ KCore.pc \in {"get", "link", "publish"} /\ KCore.item = Kernel => order = <<>>
  /\ KCore.pc = "link" /\ KCore.item = Kernel => KernelCleared

(* Which thread the kernel thread is creating or appending, and how much   *)
(* of it and of its links is written.                                      *)
Construction ==
  /\ KCore.pc = "process" =>
        /\ KCore.item \in Users /\ KCore.item \notin Range(order)
        /\ pSuspend[KCore.item] = FALSE /\ tCount[KCore.item] \in Nat
  /\ KCore.pc \in AppendPC \cup {"started"} =>
        KCore.item \in Tasks /\ Complete(KCore.item)
  /\ KCore.pc \in {"get", "link", "publish"} => KCore.item \notin Range(order)
  /\ KCore.pc = "publish" => /\ order # <<>> /\ next[KCore.item] = order[1]
                             /\ prev[KCore.item] = order[Len(order)]
  /\ KCore.pc = "back" => /\ order # <<>> /\ KCore.item = order[Len(order)]
                          /\ next[KCore.item] = order[1]
  /\ KCore.pc \in {"count", "release"} => order # <<>>
  /\ KCore.pc \in {"current", "enable"} /\ KernelCleared => order # <<>>
  /\ KCore.pc = "started" => KCore.item \in Users

KernelControl == Switching /\ Booting /\ Construction

(* The ring: no thread twice, the kernel thread first, or not at all.      *)
Ring ==
  /\ \A i, j \in DOMAIN order : order[i] = order[j] => i = j
  /\ RingClosed /\ LinkedThreadsComplete
  /\ order = <<>> => first = NULL
  /\ order # <<>> => /\ first = order[1] /\ (KernelCleared => order[1] = Kernel)
                     /\ KCore.pc # "back" => prev[first] = order[Len(order)]
  /\ enabled /\ KernelCleared => order # <<>>
  /\ ~KernelCleared => Kernel \notin Range(order) /\ next[Kernel] = NULL

(* What is needed to resume the kernel thread: its registers, the last     *)
(* word of its stack in Thread.state, the words below still in place.      *)
KernelSaved ==
  /\ Len(live) \in 1..MaxDepth
  /\ state[Kernel] \in [core : KernelCore, tail : {live[Len(live)]}]
  /\ seen[Kernel] = Regs(state[Kernel].core, NULL)
  /\ \A i \in 1..(Len(live) - 1) : kstack[i] = live[i]

(* What is needed to resume user thread u.                                 *)
UserSaved(u) == state[u] = seen[u] /\ state[u] \in [core : Word, tail : Word]

(* Who executes, in which address space, on which stack; and everyone else *)
(* is saved.  A kernel thread that is not on the ring never gives way to   *)
(* another one.                                                            *)
Execution ==
  /\ phase # "run" => enabled /\ esp = Len(live) + 1
  /\ phase = "run" =>
       /\ Ring3 => cpu \in [core : Word, tail : Word] /\ tss[cr3] = Len(live)
       /\ ~Ring3 => cpu \in [core : KernelCore, tail : {NULL}]
       /\ ~Ring3 => esp \in 1..MaxDepth /\ \A i \in 1..esp : kstack[i] \in Word
       /\ Ring3 <=> cr3 # Kernel
       /\ enabled => cr3 = currentThread /\ currentProcess = currentThread
  /\ phase \in {"restore", "iret"} => currentProcess = currentThread
  /\ phase = "iret" =>
       /\ cr3 = currentThread
       /\ kstack[esp] = state[cr3].core /\ kstack[esp - 1] = state[cr3].tail
       /\ cr3 # Kernel => tss[cr3] = Len(live)
  /\ ~KernelRuns => KernelSaved
  /\ enabled /\ ~KernelCleared =>
       /\ cr3 = Kernel /\ phase \in {"run", "next", "astray"}
       /\ phase # "astray" => currentThread = Kernel
  /\ \A u \in Users :
        state[u] \in SavedRegs /\ ~(phase = "run" /\ cr3 = u) => UserSaved(u)

IInv == TypeOK /\ KernelControl /\ Ring /\ Execution

(* The books of thread_list: what list_append has still to bring up to     *)
(* date at each of its steps.                                              *)
LinkedPC == {"link", "publish", "back", "count", "release"}
ListBooks ==
  /\ Len(order) = IF KCore.pc \in {"back", "count"} THEN count + 1 ELSE count
  /\ mutex <=> KCore.pc \in LinkedPC
  /\ \A i \in DOMAIN order : i > 1 => prev[order[i]] = order[i - 1]

(* The thread count of a process: one, but for the thread whose creation   *)
(* is under way.                                                           *)
ThreadBooks ==
  /\ \A t \in Range(order) :
       tCount[t] = IF t # Kernel /\ t = KCore.item /\ KCore.pc \in LinkedPC \cup {"started"} THEN 0 ELSE 1
  /\ KCore.pc = "kthread" => tCount[Kernel] = 1
  /\ KCore.pc \in {"process", "get", "link", "publish"} =>
       tCount[KCore.item] = IF KCore.item = Kernel THEN 1 ELSE 0

(* What a record holds in `list` until list_append has looked at it.       *)
RecordBooks ==
  /\ \A u \in Users : pSuspend[u] = NULL => list[u] = NULL /\ pList[u] = NULL
  /\ KCore.pc = "boot" => pList[Kernel] = NULL /\ processList = <<>>
  /\ KCore.pc \in {"process", "link"} => list[KCore.item] = NULL
  /\ KCore.pc = "get" => list[KCore.item] \in PageWord

(* The process list, if every record came with list = NULL: one process    *)
(* ahead of the ring until the thread is linked.                           *)
ProcessBooks ==
  AllCleared =>
    /\ KCore.pc = "kthread" => processList = <<Kernel>>
    /\ KCore.pc \in {"process", "get", "link", "publish"} => processList = Append(order, KCore.item)
    /\ KCore.pc \notin {"boot", "kthread", "process", "get", "link", "publish"} => processList = order
=============================================================================
