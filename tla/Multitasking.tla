---------------------------- MODULE Multitasking ----------------------------
(***************************************************************************)
(* Threads of c4os: kernel/multitasking.c with the list functions of       *)
(* lib/stdlib.c and the common interrupt handler of kernel/interrupts.asm. *)
(*                                                                         *)
(* There is one CPU.  The kernel's own thread (the shell) creates user     *)
(* threads; the timer may interrupt it, or a user thread, between any two  *)
(* of the steps below, also in the middle of list_append, and switch_task  *)
(* then walks the very list that was being changed.  Handlers run with     *)
(* interrupts disabled, so a tick is a sequence of steps (Tick, Advance,   *)
(* Restore, Iret) in which nobody else moves.                              *)
(*                                                                         *)
(* run_image gives every process exactly one thread, so a thread, its      *)
(* process and its page directory share one name.  A thread's registers    *)
(* are two words: "tail" is what ring 3 pushes at the end of the frame (ss *)
(* and esp), "core" all the rest.  The kernel thread's core is its control *)
(* state.  Interrupted in ring 0, the CPU does not push ss and esp, so the *)
(* Registers structure reaches one word into the live kernel stack; and    *)
(* tss_set_stack makes ring 3 reuse exactly that place.  kstack is that    *)
(* stack: it grows upwards here, and a popped word is forgotten (NULL).    *)
(*                                                                         *)
(* Every Process and Thread record, the kernel's own included, is a page   *)
(* of alloc_virt_pages, which clears nothing.  What the code reads of it   *)
(* before it writes it holds any value of PageWord: the `list` of both     *)
(* list items and the mutex of a process's address space.                  *)
(***************************************************************************)
EXTENDS Naturals, Sequences, Functions

CONSTANTS Users,    \* processes that the shell may start
          Kernel,   \* the kernel's process and thread
          NULL,     \* no pointer; also the contents of what was not written
          Word,     \* contents of registers and stack words
          Entry,    \* the registers that create_thread gives a new thread
          PageWord, \* what a word may hold in a page that is not cleared
          MaxDepth, \* bound on the live words of the kernel's stack
          TickWrap  \* the tick counter wraps at this value

Tasks == Users \cup {Kernel}

PC == {"boot", "kthread", "idle", "process", "get", "link", "publish", "back",
       "count", "release", "current", "enable", "started"}

KernelCore == [pc : PC, item : Tasks \cup {NULL}]

ASSUME TasksAssumption == Kernel \notin Users /\ NULL \notin Tasks
ASSUME NullAssumption ==
  NULL \notin BOOLEAN \cup Word \cup [core : Word \cup KernelCore, tail : Word]
ASSUME WordAssumption == Entry \in Word /\ Word \cap KernelCore = {}
ASSUME DepthAssumption == MaxDepth \in Nat \ {0}
ASSUME WrapAssumption == TickWrap \in Nat \ {0}

\* A pointer that list_append wrote is told from one that was there before.
ASSUME PageAssumption == PageWord \cap {"thread_list", "process_list"} = {}

VARIABLES
  cpu,      \* registers of what is executing: [core, tail]
  cr3,      \* the page directory the CPU uses
  esp,      \* top of the kernel stack while in ring 0
  kstack,   \* the kernel stack
  tss,      \* esp0 in the TSS page of each process
  phase,    \* "run", how far switch_task has come, or "astray"
  state,    \* Thread.state
  process,  \* Thread.process
  suspend,  \* Thread.suspend
  pSuspend, \* Process.suspend
  tCount,   \* Process.thread_count
  pList,    \* ListItem.list of each process
  spaceMutex, \* Process.address_space.mutex
  next, prev, list,    \* ListItem of each thread
  first, count, mutex, \* thread_list
  processList,         \* process_list, first to last
  currentThread, currentProcess,
  enabled,  \* multitasking_enabled
  ticks,    \* _pit_ticks
  order,    \* history: the threads in the order they were linked
  seen,     \* history: registers of each thread when it last executed
  live      \* history: the kernel thread's stack when it last executed

cpuVars == <<cpu, cr3, esp, kstack, tss>>
threadVars == <<state, process, suspend>>
processVars == <<pSuspend, tCount, pList, spaceMutex, processList>>
linkVars == <<next, prev, list, first, count, mutex, order>>
schedVars == <<phase, currentThread, currentProcess, enabled, ticks>>
pastVars == <<seen, live>>
vars == <<cpuVars, threadVars, processVars, linkVars, schedVars, pastVars>>

Ring3 == cpu.core \in Word
Regs(core, tail) == [core |-> core, tail |-> tail]
Blank == [t \in Tasks |-> NULL]

(* The kernel as init_multitasking finds it: interrupts are already on     *)
(* (interrupts.c enables them first), multitasking is not.                 *)
Init ==
  /\ cpu = Regs([pc |-> "boot", item |-> NULL], NULL)
  /\ cr3 = Kernel /\ esp = 1
  /\ kstack = [i \in 1..(MaxDepth + 1) |-> IF i = 1 THEN Entry ELSE NULL]
  /\ tss = Blank /\ phase = "run"
  /\ state = Blank /\ process = Blank /\ suspend = Blank
  /\ pSuspend = Blank /\ tCount = Blank
  /\ pList = Blank /\ spaceMutex = Blank /\ processList = <<>>
  /\ next = Blank /\ prev = Blank /\ list = Blank
  /\ first = NULL /\ count = 0 /\ mutex = FALSE
  /\ currentThread = NULL /\ currentProcess = NULL
  /\ enabled = FALSE /\ ticks = 0
  /\ order = <<>> /\ seen = Blank /\ live = <<>>

-----------------------------------------------------------------------------
(* The kernel thread.  At(p) holds when it is executing at p.              *)

At(p) == phase = "run" /\ ~Ring3 /\ cpu.core.pc = p
Item == cpu.core.item
GoTo(p, item) == cpu' = Regs([pc |-> p, item |-> item], NULL)
SameCpu == UNCHANGED <<cr3, esp, kstack, tss>>

\* list_append(&process_list, t), when the record of t holds w as its list: only
\* an item whose list is NULL is appended.  The first item of a list keeps it.
AppendProcess(t, w) ==
  /\ processList' = IF w = NULL THEN Append(processList, t) ELSE processList
  /\ pList' = [pList EXCEPT ![t] = IF w = NULL /\ processList # <<>> THEN "process_list" ELSE w]

\* init_multitasking: both lists, the kernel's process.
InitLists ==
  /\ At("boot") /\ GoTo("kthread", NULL)
  /\ first' = NULL /\ count' = 0 /\ mutex' = FALSE
  /\ pSuspend' = [pSuspend EXCEPT ![Kernel] = FALSE]
  /\ tCount' = [tCount EXCEPT ![Kernel] = 1]
  /\ \E w \in PageWord : AppendProcess(Kernel, w)
  /\ SameCpu
  /\ UNCHANGED <<threadVars, spaceMutex, next, prev, list, order, schedVars, pastVars>>

\* init_multitasking: the thread that is already executing gets its record.
AllocKernelThread ==
  /\ At("kthread") /\ GoTo("get", Kernel)
  /\ process' = [process EXCEPT ![Kernel] = Kernel]
  /\ suspend' = [suspend EXCEPT ![Kernel] = FALSE]
  /\ \E w \in PageWord : list' = [list EXCEPT ![Kernel] = w]
  /\ SameCpu
  /\ UNCHANGED <<state, processVars, next, prev, first, count, mutex, order, schedVars, pastVars>>

\* run_image up to create_thread; init_page_tables gives u its page directory,
\* init_address_space everything of its address space but the mutex.
BuildProcess(u) ==
  /\ At("idle") /\ pSuspend[u] = NULL /\ GoTo("process", u)
  /\ pSuspend' = [pSuspend EXCEPT ![u] = FALSE]
  /\ tCount' = [tCount EXCEPT ![u] = 0]
  /\ \E w \in PageWord : AppendProcess(u, w)
  /\ \E w \in PageWord : spaceMutex' = [spaceMutex EXCEPT ![u] = w]
  /\ SameCpu /\ UNCHANGED <<threadVars, linkVars, schedVars, pastVars>>

\* The registers a new thread starts with.  Mutant: they are left for later.
StartState_Late == state
StartState == [state EXCEPT ![Item] = Regs(Entry, Entry)]

\* create_thread up to list_append: every field of the thread but its links.  Its
\* stack is allocated in the address space of the process, whose mutex must come
\* free: alloc_virt_pages spins on it, and gives it back.
AllocThread ==
  /\ At("process") /\ spaceMutex[Item] = NULL /\ GoTo("get", Item)
  /\ process' = [process EXCEPT ![Item] = Item]
  /\ suspend' = [suspend EXCEPT ![Item] = FALSE]
  /\ state' = StartState
  /\ seen' = [seen EXCEPT ![Item] = Regs(Entry, Entry)]
  /\ \E w \in PageWord : list' = [list EXCEPT ![Item] = w]
  /\ SameCpu
  /\ UNCHANGED <<processVars, next, prev, first, count, mutex, order, schedVars, live>>

(* list_append(&thread_list, Item), step by step.                          *)

Appended == IF Item = Kernel THEN "current" ELSE "started"

\* An item whose list is set counts as appended: nothing is done.
ListSkip ==
  /\ At("get") /\ list[Item] # NULL /\ GoTo(Appended, Item)
  /\ SameCpu /\ UNCHANGED <<threadVars, processVars, linkVars, schedVars, pastVars>>

\* mutex_get(.., true) spins until the mutex is free.
ListGet ==
  /\ At("get") /\ list[Item] = NULL /\ ~mutex /\ GoTo("link", Item)
  /\ mutex' = TRUE
  /\ SameCpu
  /\ UNCHANGED <<threadVars, processVars, next, prev, list, first, count, order,
                 schedVars, pastVars>>

ListFirst ==
  /\ At("link") /\ first = NULL /\ GoTo("count", Item)
  /\ next' = [next EXCEPT ![Item] = Item]
  /\ prev' = [prev EXCEPT ![Item] = Item]
  /\ first' = Item
  /\ order' = <<Item>>
  /\ SameCpu
  /\ UNCHANGED <<threadVars, processVars, list, count, mutex, schedVars, pastVars>>

\* item->next = list->first.  Mutant: it is left for later.
LinkedNext_Late == next
LinkedNext == [next EXCEPT ![Item] = first]

ListLink ==
  /\ At("link") /\ first # NULL /\ GoTo("publish", Item)
  /\ list' = [list EXCEPT ![Item] = "thread_list"]
  /\ next' = LinkedNext
  /\ prev' = [prev EXCEPT ![Item] = prev[first]]
  /\ SameCpu
  /\ UNCHANGED <<threadVars, processVars, first, count, mutex, order, schedVars, pastVars>>

\* item->prev->next = item: from here on switch_task can reach the item.
ListPublish ==
  /\ At("publish") /\ GoTo("back", Item)
  /\ next' = [next EXCEPT ![prev[Item]] = Item]
  /\ order' = Append(order, Item)
  /\ SameCpu
  /\ UNCHANGED <<threadVars, processVars, prev, list, first, count, mutex,
                 schedVars, pastVars>>

\* item->next->prev = item.  Mutant: it is forgotten.
LinkedPrev_Stale == prev
LinkedPrev == [prev EXCEPT ![next[Item]] = Item]

ListBack ==
  /\ At("back") /\ GoTo("count", Item)
  /\ prev' = LinkedPrev
  /\ SameCpu
  /\ UNCHANGED <<threadVars, processVars, next, list, first, count, mutex, order,
                 schedVars, pastVars>>

ListCount ==
  /\ At("count") /\ GoTo("release", Item)
  /\ count' = count + 1
  /\ SameCpu
  /\ UNCHANGED <<threadVars, processVars, next, prev, list, first, mutex, order,
                 schedVars, pastVars>>

\* Mutant: mutex_release is forgotten.
ListRelease_Held ==
  /\ At("release") /\ GoTo(Appended, Item)
  /\ SameCpu
  /\ UNCHANGED <<threadVars, processVars, linkVars, schedVars, pastVars>>

ListRelease ==
  /\ At("release") /\ GoTo(Appended, Item)
  /\ mutex' = FALSE
  /\ SameCpu
  /\ UNCHANGED <<threadVars, processVars, next, prev, list, first, count, order,
                 schedVars, pastVars>>

\* Mutant: switching is enabled before there is a current thread.
SetCurrent_EnableFirst ==
  /\ At("current") /\ GoTo("enable", NULL)
  /\ enabled' = TRUE
  /\ SameCpu
  /\ UNCHANGED <<threadVars, processVars, linkVars, phase, currentThread, currentProcess,
                 ticks, pastVars>>

\* init_multitasking: the thread that executes becomes the current one ...
SetCurrent ==
  /\ At("current") /\ GoTo("enable", NULL)
  /\ currentThread' = Kernel /\ currentProcess' = Kernel
  /\ SameCpu
  /\ UNCHANGED <<threadVars, processVars, linkVars, phase, enabled, ticks, pastVars>>

\* ... and only then may a tick switch threads.
Enable ==
  /\ At("enable") /\ GoTo("idle", NULL)
  /\ enabled' = TRUE
  /\ SameCpu
  /\ UNCHANGED <<threadVars, processVars, linkVars, phase, currentThread,
                 currentProcess, ticks, pastVars>>

\* create_thread after list_append.
CountThread ==
  /\ At("started") /\ GoTo("idle", NULL)
  /\ tCount' = [tCount EXCEPT ![Item] = @ + 1]
  /\ SameCpu
  /\ UNCHANGED <<threadVars, pSuspend, pList, spaceMutex, processList, linkVars, schedVars, pastVars>>

\* The shell between two commands: calls and returns move its stack.
KernelStack ==
  /\ At("idle")
  /\ \/ \E w \in Word : /\ esp < MaxDepth /\ esp' = esp + 1
                        /\ kstack' = [kstack EXCEPT ![esp + 1] = w]
     \/ esp > 1 /\ esp' = esp - 1 /\ kstack' = [kstack EXCEPT ![esp] = NULL]
  /\ UNCHANGED <<cpu, cr3, tss, threadVars, processVars, linkVars, schedVars, pastVars>>

\* What the kernel thread does next once it has begun.
KernelWork ==
  \/ InitLists \/ AllocKernelThread \/ AllocThread
  \/ ListSkip \/ ListGet \/ ListFirst \/ ListLink \/ ListPublish \/ ListBack
  \/ ListCount \/ ListRelease \/ SetCurrent \/ Enable \/ CountThread

-----------------------------------------------------------------------------
(* User threads and the interrupt handlers.                                *)

\* A user thread computes.
UserRun ==
  /\ phase = "run" /\ Ring3
  /\ \E w \in Word : cpu' = Regs(w, w)
  /\ SameCpu /\ UNCHANGED <<threadVars, processVars, linkVars, schedVars, pastVars>>

\* The word that holds the rest of the frame the CPU and the handler push.
Frame == IF Ring3 THEN tss[cr3] + 1 ELSE esp + 1

\* The stack with the frame on it; only ring 3 pushes the tail.
Pushed ==
  [i \in DOMAIN kstack |->
     IF i = Frame THEN cpu.core
     ELSE IF Ring3 /\ i = Frame - 1 THEN cpu.tail ELSE kstack[i]]

\* inc_pit_ticks on a counter of fixed width.
Ticked == (ticks + 1) % TickWrap

\* An interrupt that switches nothing: keyboard, floppy, a system call, and
\* the timer while multitasking is not enabled.  It pops what it pushed.
PassingInterrupt == kstack' = [Pushed EXCEPT ![Frame] = NULL]

OtherInterrupt ==
  /\ phase = "run" /\ PassingInterrupt
  /\ UNCHANGED <<cpu, cr3, esp, tss, threadVars, processVars, linkVars, schedVars, pastVars>>

EarlyTick ==
  /\ phase = "run" /\ ~enabled /\ PassingInterrupt
  /\ ticks' = Ticked
  /\ UNCHANGED <<cpu, cr3, esp, tss, threadVars, processVars, linkVars, phase,
                 currentThread, currentProcess, enabled, pastVars>>

\* The timer interrupts: the frame is pushed and switch_task copies it.
Tick ==
  /\ phase = "run" /\ enabled /\ phase' = "next"
  /\ ticks' = Ticked
  /\ kstack' = Pushed /\ esp' = Frame /\ cpu' = Regs(NULL, NULL)
  /\ state' = [state EXCEPT ![currentThread] = Regs(cpu.core, Pushed[Frame - 1])]
  /\ seen' = [seen EXCEPT ![cr3] = cpu]
  /\ live' = IF Ring3 THEN live ELSE [i \in 1..esp |-> kstack[i]]
  /\ UNCHANGED <<cr3, tss, process, suspend, processVars, linkVars,
                 currentThread, currentProcess, enabled>>

\* The thread that switch_task tries next.  Mutants: the search starts over at
\* the head of the list; the list is walked backwards.
NextThread_FromFirst == IF first = NULL THEN NULL ELSE next[first]
NextThread_Backwards == prev[currentThread]
NextThread == next[currentThread]

\* One round of switch_task's do-while.
Advance ==
  /\ phase = "next" /\ NextThread # NULL
  /\ currentThread' = NextThread
  /\ currentProcess' = process[currentThread']
  /\ phase' = IF suspend[currentThread'] \/ pSuspend[currentProcess']
              THEN "next" ELSE "restore"
  /\ UNCHANGED <<cpuVars, threadVars, processVars, linkVars, enabled, ticks, pastVars>>

\* The `next` of the current thread was never written: current_thread is now what
\* the page held.  What the machine does from there on is not modelled.
FollowUnwritten ==
  /\ phase = "astray" \/ (phase = "next" /\ NextThread = NULL)
  /\ phase' = "astray" /\ currentThread' = NULL /\ currentProcess' = NULL
  /\ UNCHANGED <<cpuVars, threadVars, processVars, linkVars, enabled, ticks, pastVars>>

\* The saved registers over the frame.  Mutant: only what every interrupt pushes.
Restored_NoTail == [kstack EXCEPT ![esp] = state[currentThread].core]
Restored == [kstack EXCEPT ![esp] = state[currentThread].core,
                           ![esp - 1] = state[currentThread].tail]

\* tss_set_stack through the page directory just loaded, at the end of the frame.
\* Mutant: through the one that was in use before.
TssSet_OldSpace == IF currentProcess = Kernel THEN tss ELSE [tss EXCEPT ![cr3] = esp - 1]
TssSet == IF currentProcess = Kernel THEN tss ELSE [tss EXCEPT ![currentProcess] = esp - 1]

\* The rest of switch_task: cr3, the saved registers, the TSS of a user process.
Restore ==
  /\ phase = "restore" /\ phase' = "iret"
  /\ cr3' = currentProcess
  /\ kstack' = Restored /\ tss' = TssSet
  /\ UNCHANGED <<cpu, esp, threadVars, processVars, linkVars, currentThread,
                 currentProcess, enabled, ticks, pastVars>>

\* The end of the common handler.  iretd pops the tail only into ring 3.
Iret ==
  /\ phase = "iret" /\ phase' = "run"
  /\ cpu' = Regs(kstack[esp], IF kstack[esp] \in Word THEN kstack[esp - 1] ELSE NULL)
  /\ esp' = IF kstack[esp] \in Word THEN 0 ELSE esp - 1
  /\ kstack' = [kstack EXCEPT ![esp] = NULL]
  /\ UNCHANGED <<cr3, tss, threadVars, processVars, linkVars, currentThread,
                 currentProcess, enabled, ticks, pastVars>>

Next ==
  \/ KernelWork \/ KernelStack \/ (\E u \in Users : BuildProcess(u))
  \/ UserRun \/ OtherInterrupt \/ EarlyTick
  \/ Tick \/ Advance \/ FollowUnwritten \/ Restore \/ Iret

Spec == Init /\ [][Next]_vars

(* The timer keeps ticking and a handler runs to its end.  A thread that   *)
(* is resumed executes something before the next tick, so the kernel       *)
(* thread gets on with what it does: strong fairness, because it is not    *)
(* continuously the one that executes.                                     *)
Fairness ==
  /\ WF_vars(Tick) /\ WF_vars(Advance) /\ WF_vars(Restore) /\ WF_vars(Iret)
  /\ SF_vars(KernelWork)

FairSpec == Spec /\ Fairness
=============================================================================
