------------------------- MODULE MultitaskingProofs -------------------------
(***************************************************************************)
(* Proofs about the scheduler: the inductive invariant, the properties it  *)
(* implies, and the refinement of RoundRobin.                              *)
(***************************************************************************)
EXTENDS MultitaskingProps, TLAPS

USE DEF Tasks

-----------------------------------------------------------------------------
(* The kernel thread and its control state.                                *)

LEMMA KernelExecutes ==
  ASSUME IInv, NEW p, At(p)
  PROVE  /\ KernelRuns /\ KCore = cpu.core /\ cpu.core \in KernelCore
         /\ cr3 = Kernel /\ phase = "run" /\ ~Ring3 /\ KCore.pc = p
         /\ KCore = [pc |-> p, item |-> Item] /\ Item \in Tasks \cup {NULL}
  BY DEF IInv, Execution, At, KernelRuns, KCore, Item, KernelCore

LEMMA KernelGoesOn ==
  ASSUME NEW q \in PC, NEW x \in Tasks \cup {NULL}, GoTo(q, x), phase' = "run"
  PROVE  /\ KernelRuns' /\ ~Ring3' /\ KCore' = [pc |-> q, item |-> x]
         /\ KCore' \in KernelCore /\ cpu'.core = KCore'
         /\ cpu' \in [core : KernelCore, tail : {NULL}]
  <1>1. cpu'.core = [pc |-> q, item |-> x] /\ cpu' \in [core : KernelCore, tail : {NULL}]
    BY DEF GoTo, Regs, KernelCore
  <1>2. cpu'.core \in KernelCore
    BY <1>1 DEF KernelCore
  <1>3. ~Ring3'
    BY <1>2, WordAssumption DEF Ring3
  <1> QED BY <1>1, <1>2, <1>3 DEF KernelRuns, KCore

LEMMA InitHolds == Init => IInv
  <1> SUFFICES ASSUME Init PROVE IInv
    OBVIOUS
  <1>1. /\ cpu.core = [pc |-> "boot", item |-> NULL] /\ cpu.core \in KernelCore
        /\ cpu.tail = NULL /\ cpu \in [core : KernelCore, tail : {NULL}]
    BY DEF Init, Regs, KernelCore, PC
  <1>2. ~Ring3 /\ KernelRuns /\ KCore = cpu.core
    BY <1>1, WordAssumption DEF Init, Ring3, KernelRuns, KCore
  <1>3. TypeOK
    <2>1. CpuType
      BY <1>1, WordAssumption, DepthAssumption DEF Init, CpuType, Blank
    <2>2. ThreadType /\ ProcessType
      BY DEF Init, ThreadType, ProcessType, Blank
    <2>3. LinkType
      BY DEF Init, LinkType, Blank
    <2>4. SchedType
      BY WrapAssumption DEF Init, SchedType
    <2>5. FlagType
      BY DEF Init, FlagType
    <2> QED BY <2>1, <2>2, <2>3, <2>4, <2>5 DEF TypeOK
  <1>4. KernelControl
    BY <1>1, <1>2, NullAssumption DEF Init, KernelControl, Switching, Booting, Construction, Range, Blank, BootPC, AppendPC
  <1>5. Ring
    BY <1>1, <1>2 DEF Init, Ring, RingClosed, Closed, LinkedThreadsComplete, Range, KernelCleared, Blank
  <1>6. Execution
    BY <1>1, <1>2, WordAssumption, NullAssumption, DepthAssumption, TasksAssumption
       DEF Init, Execution, SavedRegs, Blank
  <1> QED BY <1>3, <1>4, <1>5, <1>6 DEF IInv

-----------------------------------------------------------------------------
(* The steps of the kernel thread.  Most of them only move it on and write *)
(* a few fields of the thread under construction.                          *)

LEMMA KernelStepExecution ==
  ASSUME IInv, NEW p, At(p), NEW q \in PC, NEW x \in Tasks \cup {NULL}, GoTo(q, x),
         SameCpu, UNCHANGED <<phase, state, seen, live>>,
         enabled' => currentThread' = Kernel /\ currentProcess' = Kernel
  PROVE  Execution'
  <1>1. phase = "run" /\ cr3 = Kernel /\ KernelRuns /\ ~Ring3
    BY KernelExecutes
  <1>2. KernelRuns' /\ ~Ring3' /\ cpu' \in [core : KernelCore, tail : {NULL}]
    BY <1>1, KernelGoesOn
  <1> QED
    BY <1>1, <1>2 DEF IInv, Execution, SameCpu, UserSaved

LEMMA KernelStepRing ==
  ASSUME IInv, NEW p, At(p), p # "back", NEW q \in PC \ {"back"},
         NEW x \in Tasks \cup {NULL}, GoTo(q, x), phase' = "run",
         UNCHANGED <<next, prev, first, order>>, list'[Kernel] = list[Kernel],
         enabled' /\ KernelCleared => currentThread' \in Range(order) /\ order # <<>>,
         \A t \in Range(order) : Complete(t)'
  PROVE  Ring'
  <1>1. KCore.pc = p /\ KCore'.pc = q
    BY KernelExecutes, KernelGoesOn
  <1>2. Range(order)' = Range(order)
    BY DEF Range
  <1>a. KernelCleared' = KernelCleared
    BY DEF KernelCleared
  <1>3. RingClosed' /\ LinkedThreadsComplete'
    BY <1>2, <1>a DEF IInv, Ring, RingClosed, LinkedThreadsComplete, Closed
  <1> QED BY <1>1, <1>2, <1>3, <1>a DEF IInv, Ring

LEMMA InitListsStep == IInv /\ InitLists => IInv'
  <1> SUFFICES ASSUME IInv, InitLists PROVE IInv'
    OBVIOUS
  <1> USE DEF InitLists, SameCpu, threadVars, schedVars, pastVars
  <1>1. KernelRuns /\ KCore.pc = "boot" /\ order = <<>> /\ ~enabled /\ first = NULL
    BY KernelExecutes DEF IInv, KernelControl, Switching, Booting, Ring, BootPC
  <1>2. KernelRuns' /\ KCore' = [pc |-> "kthread", item |-> NULL] /\ KCore' \in KernelCore
    BY KernelGoesOn, KernelExecutes DEF PC
  <1>3. TypeOK'
    <2>1. CpuType'
      BY <1>2, KernelExecutes, KernelGoesOn DEF IInv, TypeOK, CpuType, PC
    <2>2. ThreadType' /\ SchedType'
      BY DEF IInv, TypeOK, ThreadType, SchedType
    <2>a. pSuspend' \in [Tasks -> {FALSE, NULL}]
      BY DEF IInv, TypeOK, ProcessType
    <2>b. tCount' \in [Tasks -> Nat \cup {NULL}]
      BY DEF IInv, TypeOK, ProcessType
    <2>c. processList' \in Seq(Tasks) /\ pList' \in [Tasks -> PageWord \cup {NULL, "process_list"}]
      BY DEF IInv, TypeOK, ProcessType, AppendProcess
    <2>3. ProcessType'
      BY <2>a, <2>b, <2>c DEF ProcessType, IInv, TypeOK
    <2>4. LinkType'
      BY DEF IInv, TypeOK, LinkType
    <2>5. FlagType'
      BY DEF IInv, TypeOK, FlagType
    <2> QED BY <2>1, <2>2, <2>3, <2>4, <2>5 DEF TypeOK
  <1>4. KernelControl'
    <2>1. Switching'
      BY <1>1, <1>2, KernelExecutes DEF IInv, KernelControl, Switching, BootPC, AppendPC
    <2>2. Booting'
      BY <1>1, <1>2, KernelExecutes DEF IInv, TypeOK, ProcessType, KernelControl, Booting
    <2>3. Construction'
      BY <1>1, <1>2 DEF Construction, AppendPC
    <2> QED BY <2>1, <2>2, <2>3 DEF KernelControl
  <1>5. Ring'
    BY <1>1, KernelExecutes DEF IInv, Ring, RingClosed, LinkedThreadsComplete, Range, Closed, KernelCleared
  <1>6. Execution'
    BY <1>1, KernelStepExecution DEF PC
  <1> QED BY <1>3, <1>4, <1>5, <1>6 DEF IInv

\* The thread that list_append is adding, before it is published.
LEMMA Appending ==
  ASSUME IInv, NEW p \in {"get", "link", "publish"}, At(p)
  PROVE  /\ Item \in Tasks /\ Complete(Item) /\ Item \notin Range(order)
         /\ Item = Kernel <=> ~enabled
         /\ Item = Kernel => order = <<>> /\ first = NULL
         /\ enabled => currentThread = Kernel /\ currentProcess = Kernel
  <1>1. KernelRuns /\ KCore.pc = p /\ KCore.item = Item /\ cr3 = Kernel /\ phase = "run"
    BY KernelExecutes
  <1>2. Item \in Tasks /\ Complete(Item) /\ Item \notin Range(order)
    BY <1>1 DEF IInv, KernelControl, Construction, AppendPC, KernelCleared
  <1>3. Item = Kernel <=> ~enabled
    BY <1>1 DEF IInv, KernelControl, Switching, AppendPC, BootPC
  <1>4. Item = Kernel => order = <<>> /\ first = NULL
    BY <1>1 DEF IInv, Ring, KernelControl, Booting
  <1>5. enabled => currentThread = Kernel /\ currentProcess = Kernel
    BY <1>1 DEF IInv, Execution, KernelRuns
  <1> QED BY <1>2, <1>3, <1>4, <1>5

LEMMA AllocKernelThreadStep == IInv /\ AllocKernelThread => IInv'
  <1> SUFFICES ASSUME IInv, AllocKernelThread PROVE IInv'
    OBVIOUS
  <1> USE DEF AllocKernelThread, SameCpu, threadVars, processVars, linkVars, schedVars, pastVars
  <1>1. KernelRuns /\ KCore.pc = "kthread" /\ order = <<>> /\ ~enabled /\ KernelCleared
        /\ pSuspend[Kernel] = FALSE /\ tCount[Kernel] \in Nat
    BY KernelExecutes DEF IInv, KernelControl, Switching, Booting, BootPC, KernelCleared
  <1>a. Complete(Kernel)' /\ Kernel \notin Range(order)'
    BY <1>1 DEF IInv, TypeOK, ThreadType, Complete, Range
  <1>2. KernelRuns' /\ KCore' = [pc |-> "get", item |-> Kernel] /\ KCore' \in KernelCore
    BY <1>1, KernelGoesOn, KernelExecutes, TasksAssumption DEF PC
  <1>3. TypeOK'
    <2>1. CpuType'
      BY <1>1, <1>2, KernelExecutes, KernelGoesOn DEF IInv, TypeOK, CpuType, PC
    <2>2. ThreadType'
      BY <1>1, KernelExecutes DEF IInv, TypeOK, ThreadType
    <2>3. ProcessType'
      BY <1>1, KernelExecutes DEF IInv, TypeOK, ProcessType
    <2>4. LinkType'
      BY <1>1, KernelExecutes DEF IInv, TypeOK, LinkType
    <2>5. SchedType'
      BY <1>1, KernelExecutes DEF IInv, TypeOK, SchedType
    <2>6. FlagType'
      BY <1>1, KernelExecutes DEF IInv, TypeOK, FlagType
    <2> QED BY <2>1, <2>2, <2>3, <2>4, <2>5, <2>6 DEF TypeOK
  <1>4. KernelControl'
    <2>1. Switching'
      BY <1>1, <1>2, KernelExecutes DEF IInv, KernelControl, Switching, BootPC, AppendPC
    <2>2. Booting'
      BY <1>1, <1>2, KernelExecutes, TasksAssumption DEF IInv, KernelControl, Booting, KernelCleared
    <2>3. Construction'
      BY <1>1, <1>2, KernelExecutes, <1>a DEF IInv, KernelControl, Construction, AppendPC, KernelCleared
    <2> QED BY <2>1, <2>2, <2>3 DEF KernelControl
  <1>5. Ring'
    <2>1. phase' = "run" /\ next' = next /\ first' = first /\ enabled' = enabled /\ order' = <<>>
      BY <1>1, KernelExecutes
    <2>2. next[Kernel] = NULL
      BY <1>1 DEF IInv, KernelControl, Booting
    <2> QED BY <1>1, <2>1, <2>2 DEF IInv, Ring, RingClosed, Closed, LinkedThreadsComplete, Range
  <1>6. Execution'
    BY <1>1, <1>2, KernelExecutes, KernelStepExecution DEF IInv, Execution, PC
  <1> QED BY <1>3, <1>4, <1>5, <1>6 DEF IInv

LEMMA ListSkipStep == IInv /\ ListSkip => IInv'
  <1> SUFFICES ASSUME IInv, ListSkip PROVE IInv'
    OBVIOUS
  <1> USE DEF ListSkip, SameCpu, threadVars, processVars, linkVars, schedVars, pastVars
  <1>1. /\ KernelRuns /\ Item \in Tasks /\ Complete(Item)
        /\ Item = Kernel <=> ~enabled
        /\ Item = Kernel => ~KernelCleared
        /\ enabled => currentThread = Kernel /\ currentProcess = Kernel
    BY KernelExecutes, Appending DEF KernelCleared
  <1>a. \A t \in Tasks : Complete(t)' <=> Complete(t)
    BY <1>1 DEF Complete
  <1>b. Appended = IF enabled THEN "started" ELSE "current"
    BY <1>1 DEF Appended
  <1>2. KernelRuns' /\ KCore' = [pc |-> Appended, item |-> Item] /\ KCore' \in KernelCore
    BY <1>1, <1>b, KernelGoesOn, KernelExecutes DEF PC
  <1>3. TypeOK'
    <2>1. CpuType'
      BY <1>1, <1>2, KernelExecutes, KernelGoesOn DEF IInv, TypeOK, CpuType, PC, Appended
    <2>2. ThreadType'
      BY <1>1, KernelExecutes DEF IInv, TypeOK, ThreadType
    <2>3. ProcessType'
      BY <1>1, KernelExecutes DEF IInv, TypeOK, ProcessType
    <2>4. LinkType'
      BY <1>1, KernelExecutes DEF IInv, TypeOK, LinkType
    <2>5. SchedType'
      BY <1>1, KernelExecutes DEF IInv, TypeOK, SchedType
    <2>6. FlagType'
      BY <1>1, KernelExecutes DEF IInv, TypeOK, FlagType
    <2> QED BY <2>1, <2>2, <2>3, <2>4, <2>5, <2>6 DEF TypeOK
  <1>4. KernelControl'
    <2>1. Switching'
      BY <1>1, <1>2, <1>b, KernelExecutes DEF IInv, KernelControl, Switching, BootPC, AppendPC
    <2>2. Booting'
      BY <1>1, <1>2, <1>b DEF Booting
    <2>3. Construction'
      BY <1>1, <1>2, <1>a, <1>b, TasksAssumption DEF Construction, AppendPC, KernelCleared
    <2> QED BY <2>1, <2>2, <2>3 DEF KernelControl
  <1>5. Ring'
    BY <1>1, <1>2, KernelExecutes, KernelStepRing
       DEF IInv, Ring, RingClosed, LinkedThreadsComplete, Complete, PC, Appended
  <1>6. Execution'
    BY <1>1, <1>2, KernelExecutes, KernelStepExecution DEF IInv, Execution, PC, Appended
  <1> QED BY <1>3, <1>4, <1>5, <1>6 DEF IInv

LEMMA ListGetStep == IInv /\ ListGet => IInv'
  <1> SUFFICES ASSUME IInv, ListGet PROVE IInv'
    OBVIOUS
  <1> USE DEF ListGet, SameCpu, threadVars, processVars, linkVars, schedVars, pastVars
  <1>1. /\ KernelRuns /\ Item \in Tasks /\ Complete(Item) /\ Item \notin Range(order)
        /\ Item = Kernel => order = <<>> /\ KernelCleared
    BY KernelExecutes, Appending DEF KernelCleared
  <1>a. \A t \in Tasks : Complete(t)' <=> Complete(t)
    BY <1>1 DEF Complete
  <1>2. KernelRuns' /\ KCore' = [pc |-> "link", item |-> Item] /\ KCore' \in KernelCore
    BY <1>1, KernelGoesOn, KernelExecutes, TasksAssumption DEF PC
  <1>3. TypeOK'
    <2>1. CpuType'
      BY <1>1, <1>2, KernelExecutes, KernelGoesOn DEF IInv, TypeOK, CpuType, PC
    <2>2. ThreadType'
      BY <1>1, KernelExecutes DEF IInv, TypeOK, ThreadType
    <2>3. ProcessType'
      BY <1>1, KernelExecutes DEF IInv, TypeOK, ProcessType
    <2>4. LinkType'
      BY <1>1, KernelExecutes DEF IInv, TypeOK, LinkType
    <2>5. SchedType'
      BY <1>1, KernelExecutes DEF IInv, TypeOK, SchedType
    <2>6. FlagType'
      BY <1>1, KernelExecutes DEF IInv, TypeOK, FlagType
    <2> QED BY <2>1, <2>2, <2>3, <2>4, <2>5, <2>6 DEF TypeOK
  <1>4. KernelControl'
    <2>1. Switching'
      BY <1>1, <1>2, KernelExecutes DEF IInv, KernelControl, Switching, BootPC, AppendPC
    <2>2. Booting'
      BY <1>1, <1>2 DEF Booting, KernelCleared
    <2>3. Construction'
      BY <1>1, <1>2, KernelExecutes, <1>a DEF IInv, KernelControl, Construction, AppendPC, KernelCleared
    <2> QED BY <2>1, <2>2, <2>3 DEF KernelControl
  <1>5. Ring'
    BY <1>1, <1>2, KernelExecutes, KernelStepRing
       DEF IInv, Ring, RingClosed, LinkedThreadsComplete, Complete, PC
  <1>6. Execution'
    BY <1>1, <1>2, KernelExecutes, KernelStepExecution DEF IInv, Execution, PC
  <1> QED BY <1>3, <1>4, <1>5, <1>6 DEF IInv

LEMMA ListCountStep == IInv /\ ListCount => IInv'
  <1> SUFFICES ASSUME IInv, ListCount PROVE IInv'
    OBVIOUS
  <1> USE DEF ListCount, SameCpu, threadVars, processVars, linkVars, schedVars, pastVars
  <1>1. /\ KernelRuns /\ Item \in Tasks /\ Complete(Item) /\ order # <<>>
    <2>1. KCore = [pc |-> "count", item |-> Item] /\ KernelRuns
      BY KernelExecutes
    <2> QED BY <2>1, TasksAssumption DEF IInv, KernelControl, Construction, AppendPC, KernelCleared
  <1>a. \A t \in Tasks : Complete(t)' <=> Complete(t)
    BY <1>1 DEF Complete
  <1>2. KernelRuns' /\ KCore' = [pc |-> "release", item |-> Item] /\ KCore' \in KernelCore
    BY <1>1, KernelGoesOn, KernelExecutes, TasksAssumption DEF PC
  <1>3. TypeOK'
    <2>1. CpuType'
      BY <1>1, <1>2, KernelExecutes, KernelGoesOn DEF IInv, TypeOK, CpuType, PC
    <2>2. ThreadType'
      BY <1>1, KernelExecutes DEF IInv, TypeOK, ThreadType
    <2>3. ProcessType'
      BY <1>1, KernelExecutes DEF IInv, TypeOK, ProcessType
    <2>4. LinkType'
      BY <1>1, KernelExecutes DEF IInv, TypeOK, LinkType
    <2>5. SchedType'
      BY <1>1, KernelExecutes DEF IInv, TypeOK, SchedType
    <2>6. FlagType'
      BY <1>1, KernelExecutes DEF IInv, TypeOK, FlagType
    <2> QED BY <2>1, <2>2, <2>3, <2>4, <2>5, <2>6 DEF TypeOK
  <1>4. KernelControl'
    <2>1. Switching'
      BY <1>1, <1>2, KernelExecutes DEF IInv, KernelControl, Switching, BootPC, AppendPC
    <2>2. Booting'
      BY <1>1, <1>2, KernelExecutes, TasksAssumption DEF IInv, KernelControl, Booting, KernelCleared
    <2>3. Construction'
      BY <1>1, <1>2, KernelExecutes, <1>a DEF IInv, KernelControl, Construction, AppendPC, KernelCleared
    <2> QED BY <2>1, <2>2, <2>3 DEF KernelControl
  <1>5. Ring'
    BY <1>1, <1>2, KernelExecutes, KernelStepRing
       DEF IInv, Ring, RingClosed, LinkedThreadsComplete, Complete, PC
  <1>6. Execution'
    BY <1>1, <1>2, KernelExecutes, KernelStepExecution DEF IInv, Execution, PC
  <1> QED BY <1>3, <1>4, <1>5, <1>6 DEF IInv

LEMMA SetCurrentStep == IInv /\ SetCurrent => IInv'
  <1> SUFFICES ASSUME IInv, SetCurrent PROVE IInv'
    OBVIOUS
  <1> USE DEF SetCurrent, SameCpu, threadVars, processVars, linkVars, schedVars, pastVars
  <1>1. KernelRuns /\ KCore.pc = "current" /\ ~enabled
    BY KernelExecutes DEF IInv, KernelControl, Switching, Construction, AppendPC, BootPC
  <1>a. \A t \in Tasks : Complete(t)' <=> Complete(t)
    BY <1>1 DEF Complete
  <1>2. KernelRuns' /\ KCore' = [pc |-> "enable", item |-> NULL] /\ KCore' \in KernelCore
    BY <1>1, KernelGoesOn, KernelExecutes, TasksAssumption DEF PC
  <1>3. TypeOK'
    <2>1. CpuType'
      BY <1>1, <1>2, KernelExecutes, KernelGoesOn DEF IInv, TypeOK, CpuType, PC
    <2>2. ThreadType'
      BY <1>1, KernelExecutes DEF IInv, TypeOK, ThreadType
    <2>3. ProcessType'
      BY <1>1, KernelExecutes DEF IInv, TypeOK, ProcessType
    <2>4. LinkType'
      BY <1>1, KernelExecutes DEF IInv, TypeOK, LinkType
    <2>5. SchedType'
      BY <1>1, KernelExecutes DEF IInv, TypeOK, SchedType
    <2>6. FlagType'
      BY <1>1, KernelExecutes DEF IInv, TypeOK, FlagType
    <2> QED BY <2>1, <2>2, <2>3, <2>4, <2>5, <2>6 DEF TypeOK
  <1>4. KernelControl'
    <2>1. Switching'
      BY <1>1, <1>2, KernelExecutes DEF IInv, KernelControl, Switching, BootPC, AppendPC
    <2>2. Booting'
      BY <1>1, <1>2, KernelExecutes, TasksAssumption DEF IInv, KernelControl, Booting, KernelCleared
    <2>3. Construction'
      BY <1>1, <1>2, KernelExecutes, <1>a DEF IInv, KernelControl, Construction, AppendPC, KernelCleared
    <2> QED BY <2>1, <2>2, <2>3 DEF KernelControl
  <1>5. Ring'
    BY <1>1, <1>2, KernelExecutes, KernelStepRing
       DEF IInv, Ring, RingClosed, LinkedThreadsComplete, Complete, PC
  <1>6. Execution'
    BY <1>1, <1>2, KernelExecutes, KernelStepExecution DEF IInv, Execution, PC
  <1> QED BY <1>3, <1>4, <1>5, <1>6 DEF IInv

LEMMA EnableStep == IInv /\ Enable => IInv'
  <1> SUFFICES ASSUME IInv, Enable PROVE IInv'
    OBVIOUS
  <1> USE DEF Enable, SameCpu, threadVars, processVars, linkVars, schedVars, pastVars
  <1>1. /\ KernelRuns /\ KCore.pc = "enable" /\ ~enabled
        /\ currentThread = Kernel /\ currentProcess = Kernel
        /\ KernelCleared => Kernel \in Range(order) /\ order # <<>>
    <2>1. KernelRuns /\ KCore.pc = "enable" /\ ~enabled /\ (KernelCleared => order # <<>>)
      BY KernelExecutes DEF IInv, KernelControl, Switching, Construction, BootPC
    <2>2. currentThread = Kernel /\ currentProcess = Kernel
      BY <2>1 DEF IInv, KernelControl, Switching
    <2>3. KernelCleared => Kernel \in Range(order)
      BY <2>1 DEF IInv, Ring, Range, TypeOK, LinkType
    <2> QED BY <2>1, <2>2, <2>3
  <1>a. \A t \in Tasks : Complete(t)' <=> Complete(t)
    BY <1>1 DEF Complete
  <1>2. KernelRuns' /\ KCore' = [pc |-> "idle", item |-> NULL] /\ KCore' \in KernelCore
    BY <1>1, KernelGoesOn, KernelExecutes, TasksAssumption DEF PC
  <1>3. TypeOK'
    <2>1. CpuType'
      BY <1>1, <1>2, KernelExecutes, KernelGoesOn DEF IInv, TypeOK, CpuType, PC
    <2>2. ThreadType'
      BY <1>1, KernelExecutes DEF IInv, TypeOK, ThreadType
    <2>3. ProcessType'
      BY <1>1, KernelExecutes DEF IInv, TypeOK, ProcessType
    <2>4. LinkType'
      BY <1>1, KernelExecutes DEF IInv, TypeOK, LinkType
    <2>5. SchedType'
      BY <1>1, KernelExecutes DEF IInv, TypeOK, SchedType
    <2>6. FlagType'
      BY <1>1, KernelExecutes DEF IInv, TypeOK, FlagType
    <2> QED BY <2>1, <2>2, <2>3, <2>4, <2>5, <2>6 DEF TypeOK
  <1>4. KernelControl'
    <2>1. Switching'
      BY <1>1, <1>2, KernelExecutes DEF IInv, KernelControl, Switching, BootPC, AppendPC
    <2>2. Booting'
      BY <1>1, <1>2, KernelExecutes, TasksAssumption DEF IInv, KernelControl, Booting, KernelCleared
    <2>3. Construction'
      BY <1>1, <1>2, KernelExecutes, <1>a DEF IInv, KernelControl, Construction, AppendPC, KernelCleared
    <2> QED BY <2>1, <2>2, <2>3 DEF KernelControl
  <1>5. Ring'
    BY <1>1, <1>2, KernelExecutes, KernelStepRing
       DEF IInv, Ring, RingClosed, LinkedThreadsComplete, Complete, PC
  <1>6. Execution'
    BY <1>1, <1>2, KernelExecutes, KernelStepExecution DEF IInv, Execution, PC
  <1> QED BY <1>3, <1>4, <1>5, <1>6 DEF IInv

LEMMA CountThreadStep == IInv /\ CountThread => IInv'
  <1> SUFFICES ASSUME IInv, CountThread PROVE IInv'
    OBVIOUS
  <1> USE DEF CountThread, SameCpu, threadVars, processVars, linkVars, schedVars, pastVars
  <1>1. /\ KernelRuns /\ KCore.pc = "started" /\ Item \in Users /\ enabled /\ Complete(Item)
        /\ currentThread = Kernel /\ currentProcess = Kernel
    <2>1. KCore = [pc |-> "started", item |-> Item] /\ KernelRuns /\ cr3 = Kernel
      BY KernelExecutes
    <2>2. Item \in Users /\ Complete(Item)
      BY <2>1 DEF IInv, KernelControl, Construction
    <2>3. enabled
      BY <2>1, <2>2, TasksAssumption DEF IInv, KernelControl, Switching, BootPC, AppendPC
    <2>4. currentThread = Kernel /\ currentProcess = Kernel
      BY <2>1, <2>3 DEF IInv, Execution, KernelRuns
    <2> QED BY <2>1, <2>2, <2>3, <2>4
  <1>a. \A t \in Tasks : Complete(t)' <=> Complete(t)
    BY <1>1 DEF Complete
  <1>2. KernelRuns' /\ KCore' = [pc |-> "idle", item |-> NULL] /\ KCore' \in KernelCore
    BY <1>1, KernelGoesOn, KernelExecutes, TasksAssumption DEF PC
  <1>3. TypeOK'
    <2>1. CpuType'
      BY <1>1, <1>2, KernelExecutes, KernelGoesOn DEF IInv, TypeOK, CpuType, PC
    <2>2. ThreadType'
      BY <1>1, KernelExecutes DEF IInv, TypeOK, ThreadType
    <2>3. ProcessType'
      <3>1. tCount' \in [Tasks -> Nat \cup {NULL}]
        BY <1>1 DEF IInv, TypeOK, ProcessType, Complete
      <3> QED BY <3>1 DEF IInv, TypeOK, ProcessType
    <2>4. LinkType'
      BY <1>1, KernelExecutes DEF IInv, TypeOK, LinkType
    <2>5. SchedType'
      BY <1>1, KernelExecutes DEF IInv, TypeOK, SchedType
    <2>6. FlagType'
      BY <1>1, KernelExecutes DEF IInv, TypeOK, FlagType
    <2> QED BY <2>1, <2>2, <2>3, <2>4, <2>5, <2>6 DEF TypeOK
  <1>4. KernelControl'
    <2>1. Switching'
      BY <1>1, <1>2, KernelExecutes DEF IInv, KernelControl, Switching, BootPC, AppendPC
    <2>2. Booting'
      BY <1>1, <1>2, KernelExecutes, TasksAssumption DEF IInv, KernelControl, Booting, KernelCleared
    <2>3. Construction'
      BY <1>1, <1>2, KernelExecutes, <1>a DEF IInv, KernelControl, Construction, AppendPC, KernelCleared
    <2> QED BY <2>1, <2>2, <2>3 DEF KernelControl
  <1>5. Ring'
    <2>1. \A t \in Range(order) : Complete(t)'
      BY <1>a DEF IInv, Ring, LinkedThreadsComplete, Range, TypeOK, LinkType
    <2>2. enabled' /\ KernelCleared => currentThread' \in Range(order) /\ order # <<>>
      BY DEF IInv, Ring, RingClosed
    <2> QED BY <2>1, <2>2, <1>1, KernelExecutes, KernelStepRing DEF PC
  <1>6. Execution'
    BY <1>1, <1>2, KernelExecutes, KernelStepExecution DEF IInv, Execution, PC
  <1> QED BY <1>3, <1>4, <1>5, <1>6 DEF IInv

LEMMA ListReleaseStep == IInv /\ ListRelease => IInv'
  <1> SUFFICES ASSUME IInv, ListRelease PROVE IInv'
    OBVIOUS
  <1> USE DEF ListRelease, SameCpu, threadVars, processVars, linkVars, schedVars, pastVars
  <1>1. /\ KernelRuns /\ KCore.pc = "release" /\ Item \in Tasks /\ Complete(Item) /\ order # <<>>
        /\ Item = Kernel <=> ~enabled
        /\ enabled => currentThread = Kernel /\ currentProcess = Kernel
    <2>1. KCore = [pc |-> "release", item |-> Item] /\ KernelRuns /\ cr3 = Kernel
      BY KernelExecutes
    <2>2. Item \in Tasks /\ Complete(Item) /\ order # <<>>
      BY <2>1 DEF IInv, KernelControl, Construction, AppendPC, KernelCleared
    <2>3. Item = Kernel <=> ~enabled
      BY <2>1 DEF IInv, KernelControl, Switching, BootPC, AppendPC
    <2>4. enabled => currentThread = Kernel /\ currentProcess = Kernel
      BY <2>1 DEF IInv, Execution, KernelRuns
    <2> QED BY <2>1, <2>2, <2>3, <2>4
  <1>a. \A t \in Tasks : Complete(t)' <=> Complete(t)
    BY <1>1 DEF Complete
  <1>b. Appended = IF enabled THEN "started" ELSE "current"
    BY <1>1 DEF Appended
  <1>2. KernelRuns' /\ KCore' = [pc |-> Appended, item |-> Item] /\ KCore' \in KernelCore
    BY <1>1, <1>b, KernelGoesOn, KernelExecutes DEF PC
  <1>3. TypeOK'
    <2>1. CpuType'
      BY <1>1, <1>2, KernelExecutes, KernelGoesOn DEF IInv, TypeOK, CpuType, PC, Appended
    <2>2. ThreadType'
      BY <1>1, KernelExecutes DEF IInv, TypeOK, ThreadType
    <2>3. ProcessType'
      BY <1>1, KernelExecutes DEF IInv, TypeOK, ProcessType
    <2>4. LinkType'
      BY <1>1, KernelExecutes DEF IInv, TypeOK, LinkType
    <2>5. SchedType'
      BY <1>1, KernelExecutes DEF IInv, TypeOK, SchedType
    <2>6. FlagType'
      BY <1>1, KernelExecutes DEF IInv, TypeOK, FlagType
    <2> QED BY <2>1, <2>2, <2>3, <2>4, <2>5, <2>6 DEF TypeOK
  <1>4. KernelControl'
    <2>1. Switching'
      BY <1>1, <1>2, <1>b, KernelExecutes DEF IInv, KernelControl, Switching, BootPC, AppendPC
    <2>2. Booting'
      BY <1>1, <1>2, <1>b DEF Booting
    <2>3. Construction'
      BY <1>1, <1>2, <1>a, <1>b, TasksAssumption DEF IInv, KernelControl, Construction, AppendPC, KernelCleared
    <2> QED BY <2>1, <2>2, <2>3 DEF KernelControl
  <1>5. Ring'
    BY <1>1, <1>2, KernelExecutes, KernelStepRing
       DEF IInv, Ring, RingClosed, LinkedThreadsComplete, Complete, PC, Appended
  <1>6. Execution'
    BY <1>1, <1>2, KernelExecutes, KernelStepExecution DEF IInv, Execution, PC, Appended
  <1> QED BY <1>3, <1>4, <1>5, <1>6 DEF IInv

LEMMA AllocThreadStep == IInv /\ AllocThread => IInv'
  <1> SUFFICES ASSUME IInv, AllocThread PROVE IInv'
    OBVIOUS
  <1> USE DEF AllocThread, StartState, SameCpu, threadVars, processVars, linkVars, schedVars, pastVars
  <1>1. /\ KernelRuns /\ Item \in Users /\ Item \notin Range(order) /\ Item # Kernel /\ cr3 = Kernel /\ enabled
        /\ pSuspend[Item] = FALSE /\ tCount[Item] \in Nat
        /\ currentThread = Kernel /\ currentProcess = Kernel
    <2>1. KCore = [pc |-> "process", item |-> Item] /\ KernelRuns /\ cr3 = Kernel
      BY KernelExecutes
    <2>2. Item \in Users /\ Item \notin Range(order) /\ pSuspend[Item] = FALSE /\ tCount[Item] \in Nat
      BY <2>1 DEF IInv, KernelControl, Construction
    <2>3. enabled
      BY <2>1 DEF IInv, KernelControl, Switching, BootPC, AppendPC
    <2>4. currentThread = Kernel /\ currentProcess = Kernel
      BY <2>1, <2>3 DEF IInv, Execution, KernelRuns
    <2> QED BY <2>1, <2>2, <2>3, <2>4, TasksAssumption
  <1>a. Regs(Entry, Entry) \in [core : Word, tail : Word] /\ Regs(Entry, Entry) \in SavedRegs
    BY WordAssumption DEF Regs, SavedRegs
  <1>b. /\ process' \in [Tasks -> Tasks \cup {NULL}]
        /\ state' \in [Tasks -> SavedRegs \cup {NULL}]
        /\ list' \in [Tasks -> PageWord \cup {NULL, "thread_list"}]
    BY <1>1, <1>a DEF IInv, TypeOK, ThreadType, LinkType
  <1>c. suspend' \in [Tasks -> {FALSE, NULL}]
    BY <1>1 DEF IInv, TypeOK, ThreadType
  <1>d. seen' \in [Tasks -> [core : Word \cup KernelCore, tail : Word \cup {NULL}] \cup {NULL}]
    BY <1>1, <1>a DEF IInv, TypeOK, ThreadType
  <1>e. \A t \in Tasks : t # Item /\ Complete(t) => Complete(t)'
    BY <1>1 DEF IInv, TypeOK, ThreadType, Complete
  <1>f. process'[Item] = Item /\ suspend'[Item] = FALSE /\ state'[Item] \in SavedRegs
    BY <1>1, <1>a DEF IInv, TypeOK, ThreadType
  <1>g. \A t \in {Item} : Complete(t)'
    BY <1>f, <1>1 DEF Complete
  <1>2. KernelRuns' /\ KCore' = [pc |-> "get", item |-> Item] /\ KCore' \in KernelCore
    BY <1>1, KernelGoesOn, KernelExecutes, TasksAssumption DEF PC
  <1>3. TypeOK'
    <2>1. CpuType'
      BY <1>1, <1>2, KernelExecutes, KernelGoesOn DEF IInv, TypeOK, CpuType, PC
    <2>2. ThreadType'
      BY <1>b, <1>c, <1>d DEF IInv, TypeOK, ThreadType
    <2>3. ProcessType'
      BY <1>1, KernelExecutes DEF IInv, TypeOK, ProcessType
    <2>4. LinkType'
      BY <1>b DEF IInv, TypeOK, LinkType
    <2>5. SchedType'
      BY <1>1, KernelExecutes DEF IInv, TypeOK, SchedType
    <2>6. FlagType'
      BY <1>1, KernelExecutes DEF IInv, TypeOK, FlagType
    <2> QED BY <2>1, <2>2, <2>3, <2>4, <2>5, <2>6 DEF TypeOK
  <1>4. KernelControl'
    <2>1. Switching'
      BY <1>1, <1>2, KernelExecutes DEF IInv, KernelControl, Switching, BootPC, AppendPC
    <2>2. Booting'
      BY <1>1, <1>2 DEF Booting
    <2>3. Construction'
      BY <1>1, <1>2, KernelExecutes, <1>g DEF IInv, KernelControl, Construction, AppendPC, KernelCleared
    <2> QED BY <2>1, <2>2, <2>3 DEF KernelControl
  <1>5. Ring'
    <2>1. \A t \in Range(order) : Complete(t)'
      BY <1>1, <1>e DEF IInv, Ring, LinkedThreadsComplete, Range, TypeOK, LinkType
    <2>2. enabled' /\ KernelCleared => currentThread' \in Range(order) /\ order # <<>>
      BY DEF IInv, Ring, RingClosed
    <2>3. list'[Kernel] = list[Kernel]
      BY <1>1 DEF IInv, TypeOK, LinkType
    <2> QED BY <2>1, <2>2, <2>3, <1>1, KernelExecutes, KernelStepRing DEF PC
  <1>6. Execution'
    <2>1. KernelRuns' /\ ~Ring3' /\ cpu' \in [core : KernelCore, tail : {NULL}]
      BY <1>1, KernelExecutes, KernelGoesOn DEF PC
    <2>2. phase = "run" /\ ~Ring3
      BY KernelExecutes
    <2>3. ASSUME NEW u \in Users, state'[u] \in SavedRegs PROVE UserSaved(u)'
      <3>1. CASE u = Item
        BY <3>1, <1>1, <1>a DEF IInv, TypeOK, ThreadType, UserSaved
      <3>2. CASE u # Item
        BY <3>2, <2>3, <1>1, TasksAssumption DEF IInv, Execution, TypeOK, ThreadType, UserSaved
      <3> QED BY <3>1, <3>2
    <2> QED BY <1>1, <2>1, <2>2, <2>3 DEF IInv, Execution
  <1> QED BY <1>3, <1>4, <1>5, <1>6 DEF IInv

LEMMA BuildProcessStep == 
  ASSUME IInv, NEW u \in Users, BuildProcess(u) PROVE IInv'
  <1> USE DEF BuildProcess, SameCpu, threadVars, processVars, linkVars, schedVars, pastVars
  <1>1. /\ KernelRuns /\ KCore.pc = "idle" /\ u # Kernel /\ u \notin Range(order) /\ enabled
        /\ currentThread = Kernel /\ currentProcess = Kernel
    <2>1. KernelRuns /\ KCore.pc = "idle" /\ cr3 = Kernel
      BY KernelExecutes
    <2>2. u \notin Range(order)
      BY NullAssumption DEF IInv, Ring, LinkedThreadsComplete, Complete
    <2>3. enabled
      BY <2>1 DEF IInv, KernelControl, Switching, BootPC, AppendPC
    <2>4. currentThread = Kernel /\ currentProcess = Kernel
      BY <2>1, <2>3 DEF IInv, Execution, KernelRuns
    <2> QED BY <2>1, <2>2, <2>3, <2>4, TasksAssumption
  <1>b. pSuspend' \in [Tasks -> {FALSE, NULL}]
    BY DEF IInv, TypeOK, ProcessType
  <1>c. tCount' \in [Tasks -> Nat \cup {NULL}] /\ pSuspend'[u] = FALSE /\ tCount'[u] = 0
    BY DEF IInv, TypeOK, ProcessType
  <1>d. processList' \in Seq(Tasks) /\ pList' \in [Tasks -> PageWord \cup {NULL, "process_list"}]
    BY DEF IInv, TypeOK, ProcessType, AppendProcess
  <1>f. spaceMutex' \in [Tasks -> PageWord \cup {NULL}]
    BY DEF IInv, TypeOK, ProcessType
  <1>e. \A t \in Tasks : t # u /\ Complete(t) => Complete(t)'
    BY <1>1 DEF IInv, TypeOK, ProcessType, Complete
  <1>2. KernelRuns' /\ KCore' = [pc |-> "process", item |-> u] /\ KCore' \in KernelCore
    BY <1>1, KernelGoesOn, KernelExecutes, TasksAssumption DEF PC
  <1>3. TypeOK'
    <2>1. CpuType'
      BY <1>1, <1>2, KernelExecutes, KernelGoesOn DEF IInv, TypeOK, CpuType, PC
    <2>2. ThreadType'
      BY <1>1, KernelExecutes DEF IInv, TypeOK, ThreadType
    <2>3. ProcessType'
      BY <1>b, <1>c, <1>d, <1>f DEF ProcessType
    <2>4. LinkType'
      BY <1>1, KernelExecutes DEF IInv, TypeOK, LinkType
    <2>5. SchedType'
      BY <1>1, KernelExecutes DEF IInv, TypeOK, SchedType
    <2>6. FlagType'
      BY <1>1, KernelExecutes DEF IInv, TypeOK, FlagType
    <2> QED BY <2>1, <2>2, <2>3, <2>4, <2>5, <2>6 DEF TypeOK
  <1>4. KernelControl'
    <2>1. Switching'
      BY <1>1, <1>2, KernelExecutes DEF IInv, KernelControl, Switching, BootPC, AppendPC
    <2>2. Booting'
      BY <1>1, <1>2, KernelExecutes, TasksAssumption DEF IInv, KernelControl, Booting, KernelCleared
    <2>3. Construction'
      BY <1>1, <1>2, <1>c DEF Construction, AppendPC, Range
    <2> QED BY <2>1, <2>2, <2>3 DEF KernelControl
  <1>5. Ring'
    <2>1. \A t \in Range(order) : Complete(t)'
      BY <1>1, <1>e DEF IInv, Ring, LinkedThreadsComplete, Range, TypeOK, LinkType
    <2>2. enabled' /\ KernelCleared => currentThread' \in Range(order) /\ order # <<>>
      BY DEF IInv, Ring, RingClosed
    <2> QED BY <2>1, <2>2, <1>1, KernelExecutes, KernelStepRing DEF PC
  <1>6. Execution'
    BY <1>1, <1>2, KernelExecutes, KernelStepExecution DEF IInv, Execution, PC
  <1> QED BY <1>3, <1>4, <1>5, <1>6 DEF IInv

(* What ListFirst and ListPublish do to the ring.                          *)

LEMMA ClosedFirst ==
  ASSUME NEW x, NEW nx, nx[x] = x
  PROVE  Closed(<<x>>, nx) /\ Range(<<x>>) = {x}
  BY DEF Closed, Range

LEMMA ClosedAppend ==
  ASSUME NEW S, NEW s \in Seq(S), s # <<>>, NEW x \in S, x \notin Range(s),
         \A i, j \in DOMAIN s : s[i] = s[j] => i = j,
         NEW V, NEW nx \in [S -> V], Closed(s, nx), nx[x] = s[1]
  PROVE  LET t  == Append(s, x)
             ny == [nx EXCEPT ![s[Len(s)]] = x]
         IN  /\ Closed(t, ny) /\ Range(t) = Range(s) \cup {x}
             /\ t \in Seq(S) /\ Len(t) = Len(s) + 1 /\ t # <<>>
             /\ t[1] = s[1] /\ t[Len(t)] = x
             /\ \A i, j \in DOMAIN t : t[i] = t[j] => i = j
  <1> DEFINE t == Append(s, x)
             ny == [nx EXCEPT ![s[Len(s)]] = x]
  <1>1. /\ Len(t) = Len(s) + 1 /\ t \in Seq(S) /\ Len(s) \in Nat \ {0}
        /\ \A i \in 1..Len(s) : t[i] = s[i] /\ s[i] \in S
        /\ t[Len(s) + 1] = x
    OBVIOUS
  <1>2. DOMAIN s = 1..Len(s) /\ DOMAIN t = 1..(Len(s) + 1)
    BY <1>1
  <1>3. \A i \in 1..Len(s) : s[i] # x
    BY <1>2 DEF Range
  <1>4. \A i, j \in DOMAIN t : t[i] = t[j] => i = j
    BY <1>1, <1>2, <1>3
  <1>5. Range(t) = Range(s) \cup {x}
    <2>1. Range(t) \subseteq Range(s) \cup {x}
      BY <1>1, <1>2 DEF Range
    <2>2. Range(s) \subseteq Range(t)
      BY <1>1, <1>2 DEF Range
    <2>3. x \in Range(t)
      BY <1>1, <1>2 DEF Range
    <2> QED BY <2>1, <2>2, <2>3
  <1>6. Closed(t, ny)
    <2> SUFFICES ASSUME NEW i \in 1..Len(t)
                 PROVE ny[t[i]] = IF i = Len(t) THEN t[1] ELSE t[i + 1]
      BY DEF Closed
    <2>1. CASE i = Len(t)
      BY <2>1, <1>1, <1>2, <1>3
    <2>2. CASE i = Len(s)
      BY <2>2, <1>1, <1>2
    <2>3. CASE i \in 1..(Len(s) - 1)
      <3>1. s[i] # s[Len(s)] /\ ny[s[i]] = nx[s[i]]
        BY <2>3, <1>1, <1>2
      <3> QED BY <3>1, <2>3, <1>1 DEF Closed
    <2> QED BY <2>1, <2>2, <2>3, <1>1
  <1> QED BY <1>1, <1>4, <1>5, <1>6

LEMMA ClosedKept ==
  ASSUME NEW S, NEW s \in Seq(S), NEW x, x \notin Range(s),
         NEW V, NEW nx \in [S -> V], Closed(s, nx), NEW v
  PROVE  Closed(s, [nx EXCEPT ![x] = v])
  BY DEF Closed, Range

LEMMA ListFirstStep == IInv /\ ListFirst => IInv'
  <1> SUFFICES ASSUME IInv, ListFirst PROVE IInv'
    OBVIOUS
  <1> USE DEF ListFirst, SameCpu, threadVars, processVars, linkVars, schedVars, pastVars
  <1>1. /\ KernelRuns /\ Item \in Tasks /\ Complete(Item) /\ order = <<>>
        /\ KCore = [pc |-> "link", item |-> Item] /\ phase = "run"
        /\ Item = Kernel <=> ~enabled
        /\ KernelCleared <=> Item = Kernel
        /\ ~KernelCleared => next[Kernel] = NULL
        /\ enabled => currentThread = Kernel /\ currentProcess = Kernel
    <2>1. KCore = [pc |-> "link", item |-> Item] /\ KernelRuns /\ phase = "run"
      BY KernelExecutes
    <2>2. order = <<>>
      BY TasksAssumption DEF IInv, Ring, TypeOK, LinkType
    <2>3. enabled => ~KernelCleared
      BY <2>2 DEF IInv, Ring
    <2>4. Item = Kernel => KernelCleared
      BY <2>1 DEF IInv, KernelControl, Booting
    <2>5. ~KernelCleared => next[Kernel] = NULL
      BY DEF IInv, Ring
    <2> QED BY <2>1, <2>2, <2>3, <2>4, <2>5, Appending
  <1>a. \A t \in Tasks : Complete(t)' <=> Complete(t)
    BY <1>1 DEF Complete
  <1>b. /\ next'[Item] = Item /\ prev'[Item] = Item
        /\ Item # Kernel => next'[Kernel] = next[Kernel]
        /\ KernelCleared' = KernelCleared
    BY <1>1 DEF IInv, TypeOK, LinkType, KernelCleared
  <1>c. order' # <<>> /\ order'[1] = Item /\ Len(order') = 1 /\ DOMAIN order' = {1}
    OBVIOUS
  <1>d. Closed(order, next)' /\ Range(order)' = {Item}
    BY <1>b, ClosedFirst
  <1>2. KernelRuns' /\ KCore' = [pc |-> "count", item |-> Item] /\ KCore' \in KernelCore
    BY <1>1, KernelGoesOn, KernelExecutes, TasksAssumption DEF PC
  <1>3. TypeOK'
    <2>1. CpuType'
      BY <1>1, <1>2, KernelExecutes, KernelGoesOn DEF IInv, TypeOK, CpuType, PC
    <2>2. ThreadType'
      BY <1>1, KernelExecutes DEF IInv, TypeOK, ThreadType
    <2>3. ProcessType'
      BY <1>1, KernelExecutes DEF IInv, TypeOK, ProcessType
    <2>4. LinkType'
      BY <1>1, KernelExecutes DEF IInv, TypeOK, LinkType
    <2>5. SchedType'
      BY <1>1, KernelExecutes DEF IInv, TypeOK, SchedType
    <2>6. FlagType'
      BY <1>1, KernelExecutes DEF IInv, TypeOK, FlagType
    <2> QED BY <2>1, <2>2, <2>3, <2>4, <2>5, <2>6 DEF TypeOK
  <1>4. KernelControl'
    <2>1. Switching'
      BY <1>1, <1>2, KernelExecutes DEF IInv, KernelControl, Switching, BootPC, AppendPC
    <2>2. Booting'
      BY <1>1, <1>2 DEF Booting
    <2>3. Construction'
      BY <1>1, <1>2, <1>a, <1>c DEF Construction, AppendPC
    <2> QED BY <2>1, <2>2, <2>3 DEF KernelControl
  <1>5. Ring'
    <2>1. RingClosed' /\ LinkedThreadsComplete'
      BY <1>1, <1>a, <1>b, <1>d DEF RingClosed, LinkedThreadsComplete
    <2> QED BY <2>1, <1>1, <1>2, <1>b, <1>c, <1>d DEF Ring
  <1>6. Execution'
    BY <1>1, <1>2, KernelExecutes, KernelStepExecution DEF IInv, Execution, PC
  <1> QED BY <1>3, <1>4, <1>5, <1>6 DEF IInv

LEMMA ListLinkStep == IInv /\ ListLink => IInv'
  <1> SUFFICES ASSUME IInv, ListLink PROVE IInv'
    OBVIOUS
  <1> USE DEF ListLink, LinkedNext, SameCpu, threadVars, processVars, linkVars, schedVars, pastVars
  <1>1. /\ KernelRuns /\ Item \in Users /\ Complete(Item) /\ Item \notin Range(order)
        /\ enabled /\ order # <<>> /\ first = order[1] /\ first \in Range(order) /\ prev[first] = order[Len(order)]
        /\ order[Len(order)] \in Range(order) /\ currentThread = Kernel /\ currentProcess = Kernel
    <2>1. KCore = [pc |-> "link", item |-> Item] /\ KernelRuns
      BY KernelExecutes
    <2>2. order # <<>> /\ Item # Kernel
      BY Appending DEF IInv, Ring
    <2>3. first = order[1] /\ prev[first] = order[Len(order)]
      BY <2>1, <2>2 DEF IInv, Ring
    <2>4. order[1] \in Range(order) /\ order[Len(order)] \in Range(order)
      BY <2>2 DEF IInv, TypeOK, LinkType, Range
    <2> QED BY <2>1, <2>2, <2>3, <2>4, Appending
  <1>a. \A t \in Tasks : Complete(t)' <=> Complete(t)
    BY <1>1 DEF Complete
  <1>b. Closed(order, next')
    BY <1>1, ClosedKept DEF IInv, TypeOK, LinkType, Ring, RingClosed
  <1>c. /\ next'[Item] = order[1] /\ prev'[Item] = order[Len(order)] /\ prev'[first] = prev[first]
        /\ next'[Kernel] = next[Kernel] /\ KernelCleared' = KernelCleared
    BY <1>1, TasksAssumption DEF IInv, TypeOK, LinkType, KernelCleared
  <1>2. KernelRuns' /\ KCore' = [pc |-> "publish", item |-> Item] /\ KCore' \in KernelCore
    BY <1>1, KernelGoesOn, KernelExecutes, TasksAssumption DEF PC
  <1>3. TypeOK'
    <2>1. CpuType'
      BY <1>1, <1>2, KernelExecutes, KernelGoesOn DEF IInv, TypeOK, CpuType, PC
    <2>2. ThreadType'
      BY <1>1, KernelExecutes DEF IInv, TypeOK, ThreadType
    <2>3. ProcessType'
      BY <1>1, KernelExecutes DEF IInv, TypeOK, ProcessType
    <2>4. LinkType'
      <3>1. first \in Tasks /\ prev[first] \in Tasks \cup {NULL}
        BY <1>1 DEF IInv, TypeOK, LinkType
      <3> QED BY <3>1, <1>1 DEF IInv, TypeOK, LinkType
    <2>5. SchedType'
      BY <1>1, KernelExecutes DEF IInv, TypeOK, SchedType
    <2>6. FlagType'
      BY <1>1, KernelExecutes DEF IInv, TypeOK, FlagType
    <2> QED BY <2>1, <2>2, <2>3, <2>4, <2>5, <2>6 DEF TypeOK
  <1>4. KernelControl'
    <2>1. Switching'
      BY <1>1, <1>2, KernelExecutes DEF IInv, KernelControl, Switching, BootPC, AppendPC
    <2>2. Booting'
      BY <1>1, <1>2, KernelExecutes, TasksAssumption DEF IInv, KernelControl, Booting, KernelCleared
    <2>3. Construction'
      BY <1>1, <1>2, <1>a, <1>c, TasksAssumption DEF Construction, AppendPC, Range
    <2> QED BY <2>1, <2>2, <2>3 DEF KernelControl
  <1>5. Ring'
    <2>1. RingClosed' /\ LinkedThreadsComplete'
      BY <1>1, <1>a, <1>b, <1>c DEF IInv, Ring, RingClosed, LinkedThreadsComplete, Range, TypeOK, LinkType
    <2>2. Range(order)' = Range(order)
      BY DEF Range
    <2> QED BY <2>1, <2>2, <1>1, <1>2, <1>c DEF IInv, Ring
  <1>6. Execution'
    BY <1>1, <1>2, KernelExecutes, KernelStepExecution DEF IInv, Execution, PC
  <1> QED BY <1>3, <1>4, <1>5, <1>6 DEF IInv

LEMMA ListPublishStep == IInv /\ ListPublish => IInv'
  <1> SUFFICES ASSUME IInv, ListPublish PROVE IInv'
    OBVIOUS
  <1> USE DEF ListPublish, SameCpu, threadVars, processVars, linkVars, schedVars, pastVars
  <1>1. /\ KernelRuns /\ Item \in Users /\ Complete(Item) /\ Item \notin Range(order)
        /\ enabled /\ order # <<>> /\ next[Item] = order[1] /\ prev[Item] = order[Len(order)]
        /\ currentThread = Kernel /\ currentProcess = Kernel
    <2>1. KCore = [pc |-> "publish", item |-> Item] /\ KernelRuns
      BY KernelExecutes
    <2>2. order # <<>> /\ next[Item] = order[1] /\ prev[Item] = order[Len(order)]
      BY <2>1 DEF IInv, KernelControl, Construction
    <2>3. enabled
      BY <2>2, Appending
    <2> QED BY <2>1, <2>2, <2>3, Appending
  <1>a. \A t \in Tasks : Complete(t)' <=> Complete(t)
    BY <1>1 DEF Complete
  <1>b. /\ Closed(order, next)' /\ Range(order)' = Range(order) \cup {Item}
        /\ order' \in Seq(Tasks) /\ order' # <<>>
        /\ order'[1] = order[1] /\ order'[Len(order')] = Item
        /\ \A i, j \in DOMAIN order' : order'[i] = order'[j] => i = j
    <2>1. /\ order \in Seq(Tasks) /\ next \in [Tasks -> Tasks \cup {NULL}]
          /\ Closed(order, next) /\ Item \in Tasks
          /\ \A i, j \in DOMAIN order : order[i] = order[j] => i = j
      BY <1>1 DEF IInv, Ring, RingClosed, TypeOK, LinkType
    <2>2. LET t  == Append(order, Item)
              ny == [next EXCEPT ![order[Len(order)]] = Item]
          IN  /\ Closed(t, ny) /\ Range(t) = Range(order) \cup {Item}
              /\ t \in Seq(Tasks) /\ Len(t) = Len(order) + 1 /\ t # <<>>
              /\ t[1] = order[1] /\ t[Len(t)] = Item
              /\ \A i, j \in DOMAIN t : t[i] = t[j] => i = j
      BY <2>1, <1>1, ClosedAppend
    <2>3. order' = Append(order, Item) /\ next' = [next EXCEPT ![order[Len(order)]] = Item]
      BY <1>1
    <2>4. Range(order)' = Range(order') /\ Closed(order, next)' = Closed(order', next')
      BY DEF Range, Closed
    <2> QED BY <2>2, <2>3, <2>4
  <1>c. /\ next'[Item] = order[1] /\ KernelCleared' = KernelCleared
        /\ ~KernelCleared => next'[Kernel] = NULL
    <2>1. order[Len(order)] \in Range(order)
      BY <1>1 DEF IInv, TypeOK, LinkType, Range
    <2>2. ~KernelCleared => Kernel \notin Range(order) /\ next[Kernel] = NULL
      BY DEF IInv, Ring
    <2> QED BY <2>1, <2>2, <1>1 DEF IInv, TypeOK, LinkType, KernelCleared
  <1>2. KernelRuns' /\ KCore' = [pc |-> "back", item |-> Item] /\ KCore' \in KernelCore
    BY <1>1, KernelGoesOn, KernelExecutes, TasksAssumption DEF PC
  <1>3. TypeOK'
    <2>1. CpuType'
      BY <1>1, <1>2, KernelExecutes, KernelGoesOn DEF IInv, TypeOK, CpuType, PC
    <2>2. ThreadType'
      BY <1>1, KernelExecutes DEF IInv, TypeOK, ThreadType
    <2>3. ProcessType'
      BY <1>1, KernelExecutes DEF IInv, TypeOK, ProcessType
    <2>4. LinkType'
      <3>1. next' \in [Tasks -> Tasks \cup {NULL}]
        BY <1>1 DEF IInv, TypeOK, LinkType
      <3> QED BY <3>1, <1>b DEF IInv, TypeOK, LinkType
    <2>5. SchedType'
      BY <1>1, KernelExecutes DEF IInv, TypeOK, SchedType
    <2>6. FlagType'
      BY <1>1, KernelExecutes DEF IInv, TypeOK, FlagType
    <2> QED BY <2>1, <2>2, <2>3, <2>4, <2>5, <2>6 DEF TypeOK
  <1>4. KernelControl'
    <2>1. Switching'
      BY <1>1, <1>2, KernelExecutes DEF IInv, KernelControl, Switching, BootPC, AppendPC
    <2>2. Booting'
      BY <1>1, <1>2 DEF Booting
    <2>3. Construction'
      BY <1>1, <1>2, <1>a, <1>b, <1>c, TasksAssumption DEF Construction, AppendPC
    <2> QED BY <2>1, <2>2, <2>3 DEF KernelControl
  <1>5. Ring'
    <2>1. RingClosed' /\ LinkedThreadsComplete'
      BY <1>1, <1>a, <1>b, <1>c DEF IInv, Ring, RingClosed, LinkedThreadsComplete, Range, TypeOK, LinkType
    <2> QED BY <2>1, <1>1, <1>2, <1>b, <1>c, TasksAssumption DEF IInv, Ring
  <1>6. Execution'
    BY <1>1, <1>2, KernelExecutes, KernelStepExecution DEF IInv, Execution, PC
  <1> QED BY <1>3, <1>4, <1>5, <1>6 DEF IInv

LEMMA ListBackStep == IInv /\ ListBack => IInv'
  <1> SUFFICES ASSUME IInv, ListBack PROVE IInv'
    OBVIOUS
  <1> USE DEF ListBack, LinkedPrev, SameCpu, threadVars, processVars, linkVars, schedVars, pastVars
  <1>1. /\ KernelRuns /\ Item \in Tasks /\ Complete(Item)
        /\ order # <<>> /\ next[Item] = order[1] /\ Item = order[Len(order)] /\ first = order[1] /\ order[1] \in Tasks
    <2>1. KCore = [pc |-> "back", item |-> Item] /\ KernelRuns
      BY KernelExecutes
    <2>2. order # <<>> /\ next[Item] = order[1] /\ Item = order[Len(order)]
      BY <2>1 DEF IInv, KernelControl, Construction
    <2>3. Item \in Tasks /\ Complete(Item)
      BY <2>1 DEF IInv, KernelControl, Construction, AppendPC, KernelCleared
    <2> QED BY <2>1, <2>2, <2>3 DEF IInv, Ring, TypeOK, LinkType
  <1>a. \A t \in Tasks : Complete(t)' <=> Complete(t)
    BY <1>1 DEF Complete
  <1>b. prev'[first] = Item
    BY <1>1 DEF IInv, TypeOK, LinkType
  <1>2. KernelRuns' /\ KCore' = [pc |-> "count", item |-> Item] /\ KCore' \in KernelCore
    BY <1>1, KernelGoesOn, KernelExecutes, TasksAssumption DEF PC
  <1>3. TypeOK'
    <2>1. CpuType'
      BY <1>1, <1>2, KernelExecutes, KernelGoesOn DEF IInv, TypeOK, CpuType, PC
    <2>2. ThreadType'
      BY <1>1, KernelExecutes DEF IInv, TypeOK, ThreadType
    <2>3. ProcessType'
      BY <1>1, KernelExecutes DEF IInv, TypeOK, ProcessType
    <2>4. LinkType'
      BY <1>1, KernelExecutes DEF IInv, TypeOK, LinkType
    <2>5. SchedType'
      BY <1>1, KernelExecutes DEF IInv, TypeOK, SchedType
    <2>6. FlagType'
      BY <1>1, KernelExecutes DEF IInv, TypeOK, FlagType
    <2> QED BY <2>1, <2>2, <2>3, <2>4, <2>5, <2>6 DEF TypeOK
  <1>4. KernelControl'
    <2>1. Switching'
      BY <1>1, <1>2, KernelExecutes DEF IInv, KernelControl, Switching, BootPC, AppendPC
    <2>2. Booting'
      BY <1>1, <1>2, KernelExecutes, TasksAssumption DEF IInv, KernelControl, Booting, KernelCleared
    <2>3. Construction'
      BY <1>1, <1>2, KernelExecutes, <1>a DEF IInv, KernelControl, Construction, AppendPC, KernelCleared
    <2> QED BY <2>1, <2>2, <2>3 DEF KernelControl
  <1>5. Ring'
    <2>1. RingClosed' /\ LinkedThreadsComplete'
      BY <1>1, <1>a DEF IInv, Ring, RingClosed, Closed, LinkedThreadsComplete, Range, TypeOK, LinkType, KernelCleared
    <2>2. Range(order)' = Range(order) /\ KernelCleared' = KernelCleared
      BY DEF Range, KernelCleared
    <2> QED BY <2>1, <2>2, <1>1, <1>2, <1>b DEF IInv, Ring
  <1>6. Execution'
    BY <1>1, <1>2, KernelExecutes, KernelStepExecution DEF IInv, Execution, PC
  <1> QED BY <1>3, <1>4, <1>5, <1>6 DEF IInv

(* Between two commands the kernel thread only moves its stack.            *)
LEMMA KernelStackStep == IInv /\ KernelStack => IInv' /\ KCore' = KCore
  <1> SUFFICES ASSUME IInv, KernelStack PROVE IInv' /\ KCore' = KCore
    OBVIOUS
  <1> USE DEF KernelStack, threadVars, processVars, linkVars, schedVars, pastVars
  <1>1. KernelRuns /\ ~Ring3 /\ phase = "run" /\ KCore' = KCore /\ KernelRuns' /\ ~Ring3'
    BY KernelExecutes DEF KernelRuns, KCore, Ring3
  <1>2. esp \in 1..MaxDepth /\ \A i \in 1..esp : kstack[i] \in Word
    BY <1>1 DEF IInv, Execution
  <1>3. /\ kstack' \in [1..(MaxDepth + 1) -> Word \cup KernelCore \cup {NULL}]
        /\ esp' \in 1..MaxDepth /\ \A i \in 1..esp' : kstack'[i] \in Word
    <2>1. CASE esp < MaxDepth /\ esp' = esp + 1
      BY <2>1, <1>2, DepthAssumption DEF IInv, TypeOK, CpuType
    <2>2. CASE esp > 1 /\ esp' = esp - 1 /\ kstack' = [kstack EXCEPT ![esp] = NULL]
      BY <2>2, <1>2, DepthAssumption DEF IInv, TypeOK, CpuType
    <2> QED BY <2>1, <2>2
  <1>4. TypeOK'
    <2>1. CpuType'
      BY <1>3, DepthAssumption DEF IInv, TypeOK, CpuType
    <2>2. ThreadType' /\ ProcessType'
      BY DEF IInv, TypeOK, ThreadType, ProcessType
    <2>3. LinkType' /\ SchedType'
      BY DEF IInv, TypeOK, LinkType, SchedType
    <2>4. FlagType'
      BY DEF IInv, TypeOK, FlagType
    <2> QED BY <2>1, <2>2, <2>3, <2>4 DEF TypeOK
  <1>5. KernelControl'
    BY <1>1 DEF IInv, KernelControl, Switching, Booting, Construction, Complete, Range, KernelCleared
  <1>6. Ring'
    BY <1>1 DEF IInv, Ring, RingClosed, Closed, LinkedThreadsComplete, Complete, Range, KernelCleared
  <1>7. Execution'
    BY <1>1, <1>3 DEF IInv, Execution, UserSaved, KernelCleared
  <1> QED BY <1>1, <1>4, <1>5, <1>6, <1>7 DEF IInv

-----------------------------------------------------------------------------
(* The steps of user threads and of the handlers: the lists stay as they   *)
(* are and the kernel thread stays where it is.                            *)

LEMMA ListsKept ==
  ASSUME IInv, KCore' = KCore,
         UNCHANGED <<process, suspend, pSuspend, tCount, linkVars, enabled>>,
         \A u \in Users : state[u] \in SavedRegs => state'[u] \in SavedRegs,
         enabled /\ KernelCleared => currentThread' \in Range(order),
         phase' = "astray" => ~KernelCleared,
         ~enabled => KernelRuns' /\ cr3' = cr3 /\ UNCHANGED <<currentThread, currentProcess>>
  PROVE  KernelControl' /\ Ring'
  <1> USE DEF linkVars
  <1>1. \A t \in Tasks : Complete(t) => Complete(t)'
    BY DEF Complete
  <1>2. /\ Range(order)' = Range(order) /\ Range(order) \subseteq Tasks
        /\ KernelCleared' = KernelCleared
    BY DEF Range, IInv, TypeOK, LinkType, KernelCleared
  <1>3. Switching'
    BY DEF IInv, KernelControl, Switching, BootPC
  <1>4. Booting'
    BY <1>2 DEF IInv, KernelControl, Booting
  <1>5. Construction'
    BY <1>1, <1>2 DEF IInv, KernelControl, Construction, AppendPC
  <1>6. RingClosed' /\ LinkedThreadsComplete'
    BY <1>1, <1>2 DEF IInv, Ring, RingClosed, Closed, LinkedThreadsComplete
  <1>7. Ring'
    BY <1>2, <1>6 DEF IInv, Ring
  <1> QED BY <1>3, <1>4, <1>5, <1>7 DEF KernelControl

LEMMA UserRunStep == IInv /\ UserRun => IInv' /\ KCore' = KCore
  <1> SUFFICES ASSUME IInv, UserRun PROVE IInv' /\ KCore' = KCore
    OBVIOUS
  <1> USE DEF UserRun, SameCpu, threadVars, processVars, linkVars, schedVars, pastVars
  <1>1. PICK w \in Word : cpu' = Regs(w, w)
    OBVIOUS
  <1>2. cpu' \in [core : Word, tail : Word] /\ cpu'.core \in Word /\ cpu'.tail \in Word
    BY <1>1 DEF Regs
  <1>3. Ring3' /\ ~KernelRuns /\ ~KernelRuns' /\ KCore' = KCore /\ enabled
    BY <1>2 DEF Ring3, KernelRuns, KCore, IInv, KernelControl, Switching
  <1>4. TypeOK'
    <2>1. CpuType'
      BY <1>2 DEF IInv, TypeOK, CpuType
    <2>2. ThreadType' /\ ProcessType'
      BY DEF IInv, TypeOK, ThreadType, ProcessType
    <2>3. LinkType' /\ SchedType'
      BY DEF IInv, TypeOK, LinkType, SchedType
    <2>4. FlagType'
      BY DEF IInv, TypeOK, FlagType
    <2> QED BY <2>1, <2>2, <2>3, <2>4 DEF TypeOK
  <1>5. KernelControl' /\ Ring'
    BY <1>3, ListsKept DEF IInv, Ring, RingClosed
  <1>6. Execution'
    BY <1>2, <1>3 DEF IInv, Execution, KernelSaved, UserSaved, KernelCleared
  <1> QED BY <1>3, <1>4, <1>5, <1>6 DEF IInv

(* An interrupt that switches nothing leaves the stack of the kernel       *)
(* thread alone, but for the word that Thread.state holds.                 *)
LEMMA PassingInterruptStep ==
  ASSUME IInv, phase = "run", PassingInterrupt, ticks' \in 0..(TickWrap - 1),
         UNCHANGED <<cpu, cr3, esp, tss, threadVars, processVars, linkVars, phase,
                     currentThread, currentProcess, enabled, pastVars>>
  PROVE  IInv'
  <1> USE DEF threadVars, processVars, linkVars, pastVars
  <1>1. KernelRuns' = KernelRuns /\ Ring3' = Ring3 /\ KCore' = KCore
    BY DEF KernelRuns, Ring3, KCore
  <1>2. Frame \in 1..(MaxDepth + 1) /\ (Ring3 => Frame = Len(live) + 1) /\ (~Ring3 => Frame = esp + 1)
    <2>1. CASE Ring3
      <3>1. KernelSaved /\ tss[cr3] = Len(live)
        BY <2>1 DEF IInv, Execution, KernelRuns
      <3> QED BY <2>1, <3>1, DepthAssumption DEF KernelSaved, Frame
    <2>2. CASE ~Ring3
      BY <2>2, DepthAssumption DEF IInv, Execution, Frame
    <2> QED BY <2>1, <2>2
  <1>3. /\ kstack' \in [1..(MaxDepth + 1) -> Word \cup KernelCore \cup {NULL}]
        /\ \A i \in 1..(MaxDepth + 1) :
             i # Frame /\ ~(Ring3 /\ i = Frame - 1) => kstack'[i] = kstack[i]
    <2>1. Pushed \in [1..(MaxDepth + 1) -> Word \cup KernelCore \cup {NULL}]
      BY DEF Pushed, IInv, TypeOK, CpuType
    <2>2. \A i \in 1..(MaxDepth + 1) :
             i # Frame /\ ~(Ring3 /\ i = Frame - 1) => Pushed[i] = kstack[i]
      BY DEF Pushed, IInv, TypeOK, CpuType
    <2>3. kstack' = [Pushed EXCEPT ![Frame] = NULL]
      BY DEF PassingInterrupt
    <2> QED BY <2>1, <2>2, <2>3
  <1>4. TypeOK'
    <2>1. CpuType'
      BY <1>3 DEF IInv, TypeOK, CpuType
    <2>2. ThreadType' /\ ProcessType'
      BY DEF IInv, TypeOK, ThreadType, ProcessType
    <2>3. LinkType' /\ SchedType'
      BY DEF IInv, TypeOK, LinkType, SchedType
    <2>4. FlagType'
      BY DEF IInv, TypeOK, FlagType
    <2> QED BY <2>1, <2>2, <2>3, <2>4 DEF TypeOK
  <1>5. KernelControl' /\ Ring'
    BY <1>1, ListsKept DEF IInv, Ring, RingClosed, KernelControl, Switching
  <1>6. KernelSaved' \/ KernelRuns
    <2> SUFFICES ASSUME Ring3 PROVE KernelSaved'
      BY DEF KernelRuns
    <2>1. KernelSaved
      BY DEF IInv, Execution, KernelRuns
    <2>2. \A i \in 1..(Len(live) - 1) : kstack'[i] = kstack[i]
      BY <2>1, <1>2, <1>3, DepthAssumption DEF KernelSaved
    <2> QED BY <2>1, <2>2 DEF KernelSaved
  <1>7. ~Ring3 => \A i \in 1..esp : kstack'[i] \in Word
    BY <1>2, <1>3, DepthAssumption DEF IInv, Execution
  <1>8. Execution'
    BY <1>1, <1>6, <1>7 DEF IInv, Execution, UserSaved, KernelCleared
  <1> QED BY <1>4, <1>5, <1>8 DEF IInv

LEMMA OtherInterruptStep == IInv /\ OtherInterrupt => IInv'
  BY PassingInterruptStep DEF OtherInterrupt, schedVars, IInv, TypeOK, SchedType

LEMMA EarlyTickStep == IInv /\ EarlyTick => IInv'
  <1> SUFFICES ASSUME IInv, EarlyTick PROVE IInv'
    OBVIOUS
  <1>1. ticks' \in 0..(TickWrap - 1)
    BY WrapAssumption DEF EarlyTick, Ticked, IInv, TypeOK, SchedType
  <1> QED BY <1>1, PassingInterruptStep DEF EarlyTick

LEMMA TickStep == IInv /\ Tick => IInv' /\ KCore' = KCore
  <1> SUFFICES ASSUME IInv, Tick PROVE IInv' /\ KCore' = KCore
    OBVIOUS
  <1> USE DEF Tick, Ticked, processVars, linkVars
  <1>1. /\ ~KernelRuns' /\ cr3 = currentThread /\ currentProcess = currentThread
        /\ cr3 \in Tasks /\ (Ring3 <=> cr3 # Kernel)
        /\ KernelCleared => currentThread \in Range(order)
    BY DEF KernelRuns, IInv, Execution, TypeOK, CpuType, Ring, RingClosed
  <1>2. /\ Frame \in 2..(MaxDepth + 1)
        /\ Ring3 => Frame = Len(live) + 1 /\ KernelSaved
        /\ ~Ring3 => Frame = esp + 1 /\ live' = [i \in 1..esp |-> kstack[i]]
    <2>1. CASE Ring3
      <3>1. KernelSaved /\ tss[cr3] = Len(live)
        BY <2>1 DEF IInv, Execution, KernelRuns
      <3> QED BY <2>1, <3>1, DepthAssumption DEF KernelSaved, Frame
    <2>2. CASE ~Ring3
      BY <2>2, DepthAssumption DEF IInv, Execution, Frame
    <2> QED BY <2>1, <2>2
  <1>3. /\ Pushed \in [1..(MaxDepth + 1) -> Word \cup KernelCore \cup {NULL}]
        /\ \A i \in 1..(MaxDepth + 1) : i \notin {Frame, Frame - 1} => Pushed[i] = kstack[i]
        /\ Pushed[Frame - 1] = IF Ring3 THEN cpu.tail ELSE kstack[Frame - 1]
    <2>1. DOMAIN kstack = 1..(MaxDepth + 1) /\ cpu.core \in Word \cup KernelCore \cup {NULL}
          /\ cpu.tail \in Word \cup {NULL}
      BY DEF IInv, TypeOK, CpuType
    <2>2. Pushed \in [1..(MaxDepth + 1) -> Word \cup KernelCore \cup {NULL}]
      BY <2>1 DEF Pushed, IInv, TypeOK, CpuType
    <2>3. \A i \in 1..(MaxDepth + 1) : i \notin {Frame, Frame - 1} => Pushed[i] = kstack[i]
      BY <2>1 DEF Pushed
    <2>4. Frame - 1 \in 1..(MaxDepth + 1) /\ Frame - 1 # Frame
      BY <1>2, DepthAssumption
    <2>5. Pushed[Frame - 1] = IF Ring3 THEN cpu.tail ELSE kstack[Frame - 1]
      BY <2>1, <2>4 DEF Pushed
    <2> QED BY <2>2, <2>3, <2>5
  <1>4. Ring3 => /\ live' = live /\ cpu \in [core : Word, tail : Word]
                 /\ state' = [state EXCEPT ![cr3] = cpu] /\ seen' = [seen EXCEPT ![cr3] = cpu]
    <2> SUFFICES ASSUME Ring3 PROVE Regs(cpu.core, Pushed[Frame - 1]) = cpu
                               /\ cpu \in [core : Word, tail : Word]
      BY <1>1
    <2>1. cpu \in [core : Word, tail : Word]
      BY DEF IInv, Execution
    <2> QED BY <2>1, <1>3 DEF Regs
  <1>5. ~Ring3 =>
          /\ cpu \in [core : KernelCore, tail : {NULL}]
          /\ live' \in Seq(Word) /\ Len(live') = esp /\ esp \in 1..MaxDepth
          /\ \A i \in 1..esp : live'[i] = kstack[i] /\ kstack[i] \in Word
          /\ Pushed[Frame - 1] = kstack[esp]
    <2> SUFFICES ASSUME ~Ring3
                 PROVE  /\ cpu \in [core : KernelCore, tail : {NULL}]
                        /\ live' \in Seq(Word) /\ Len(live') = esp /\ esp \in 1..MaxDepth
                        /\ \A i \in 1..esp : live'[i] = kstack[i] /\ kstack[i] \in Word
                        /\ Pushed[Frame - 1] = kstack[esp]
      OBVIOUS
    <2>1. /\ cpu \in [core : KernelCore, tail : {NULL}]
          /\ esp \in 1..MaxDepth /\ \A i \in 1..esp : kstack[i] \in Word
      BY DEF IInv, Execution
    <2>2. live' = [i \in 1..esp |-> kstack[i]]
      BY <1>2
    <2>3. live' \in Seq(Word) /\ Len(live') = esp
      BY <2>1, <2>2, DepthAssumption
    <2> QED BY <2>1, <2>2, <2>3, <1>2, <1>3
  <1>6. ~Ring3 => /\ state' = [state EXCEPT ![Kernel] = Regs(cpu.core, kstack[esp])]
                  /\ seen' = [seen EXCEPT ![Kernel] = cpu]
    BY <1>1, <1>5
  <1>7. ASSUME Ring3 PROVE KernelSaved' /\ KCore' = KCore /\ state'[Kernel] = state[Kernel]
    <2>1. state'[Kernel] = state[Kernel] /\ seen'[Kernel] = seen[Kernel]
      BY <1>7, <1>1, <1>4 DEF IInv, TypeOK, ThreadType
    <2>2. \A i \in 1..(Len(live) - 1) : kstack'[i] = kstack[i]
      BY <1>7, <1>2, <1>3, DepthAssumption DEF KernelSaved
    <2>3. KCore' = KCore
      BY <2>1, <1>1, <1>7 DEF KCore, KernelRuns
    <2> QED BY <2>1, <2>2, <2>3, <1>2, <1>4, <1>7 DEF KernelSaved
  <1>8. ASSUME ~Ring3 PROVE KernelSaved' /\ KCore' = KCore
    <2>1. /\ state'[Kernel] = Regs(cpu.core, kstack[esp]) /\ seen'[Kernel] = cpu
          /\ state'[Kernel] \in [core : KernelCore, tail : {live'[Len(live')]}]
          /\ state'[Kernel] \in SavedRegs
      BY <1>5, <1>6, <1>8 DEF IInv, TypeOK, ThreadType, Regs, SavedRegs
    <2>2. cpu = Regs(state'[Kernel].core, NULL) /\ state'[Kernel].core = cpu.core
      BY <2>1, <1>5, <1>8 DEF Regs
    <2>3. \A i \in 1..(Len(live') - 1) : kstack'[i] = live'[i]
      <3>1. \A i \in 1..(esp - 1) : i \in 1..(MaxDepth + 1) /\ i \notin {Frame, Frame - 1}
        BY <1>2, <1>5, <1>8, DepthAssumption
      <3> QED BY <3>1, <1>3, <1>5, <1>8
    <2>4. KCore' = KCore
      BY <2>2, <1>1, <1>8 DEF KCore, KernelRuns
    <2> QED BY <2>1, <2>2, <2>3, <2>4, <1>5, <1>8 DEF KernelSaved
  <1>9. /\ state' \in [Tasks -> SavedRegs \cup {NULL}]
        /\ seen' \in [Tasks -> [core : Word \cup KernelCore, tail : Word \cup {NULL}] \cup {NULL}]
        /\ live' \in Seq(Word)
    <2>1. CASE Ring3
      BY <2>1, <1>4 DEF IInv, TypeOK, ThreadType, SavedRegs
    <2>2. CASE ~Ring3
      <3>1. Regs(cpu.core, kstack[esp]) \in SavedRegs
        BY <2>2, <1>5 DEF Regs, SavedRegs
      <3>2. cpu \in [core : Word \cup KernelCore, tail : Word \cup {NULL}]
        BY <2>2, <1>5
      <3> QED BY <2>2, <3>1, <3>2, <1>5, <1>6 DEF IInv, TypeOK, ThreadType
    <2> QED BY <2>1, <2>2
  <1>10. TypeOK'
    <2>1. CpuType'
      BY <1>2, <1>3, DepthAssumption DEF IInv, TypeOK, CpuType, Regs
    <2>2. ThreadType' /\ ProcessType'
      BY <1>9 DEF IInv, TypeOK, ThreadType, ProcessType
    <2>3. LinkType' /\ SchedType'
      BY WrapAssumption DEF IInv, TypeOK, LinkType, SchedType
    <2>4. FlagType'
      BY DEF IInv, TypeOK, FlagType
    <2> QED BY <2>1, <2>2, <2>3, <2>4 DEF TypeOK
  <1>11. \A u \in Users : state[u] \in SavedRegs => state'[u] \in SavedRegs
    BY <1>9, <1>4, <1>6, TasksAssumption DEF IInv, TypeOK, ThreadType, SavedRegs
  <1>12. KernelControl' /\ Ring'
    <2>1. KCore' = KCore
      BY <1>7, <1>8
    <2> QED BY <2>1, <1>1, <1>11, ListsKept
  <1>13. ASSUME NEW u \in Users, state'[u] \in SavedRegs PROVE UserSaved(u)'
    <2>1. CASE Ring3 /\ u = cr3
      BY <2>1, <1>4 DEF UserSaved, IInv, TypeOK, ThreadType
    <2>2. CASE ~(Ring3 /\ u = cr3)
      <3>1. state'[u] = state[u] /\ seen'[u] = seen[u] /\ u # cr3
        BY <2>2, <1>1, <1>4, <1>6, TasksAssumption DEF IInv, TypeOK, ThreadType
      <3> QED BY <3>1, <1>13 DEF IInv, Execution, UserSaved
    <2> QED BY <2>1, <2>2
  <1>14. esp' = Len(live') + 1 /\ KernelSaved'
    BY <1>2, <1>4, <1>5, <1>7, <1>8
  <1>15. Execution'
    BY <1>13, <1>14 DEF IInv, Execution, KernelCleared
  <1> QED BY <1>7, <1>8, <1>10, <1>12, <1>15 DEF IInv

\* Only a kernel thread that is on no ring is followed to where nothing is written.
LEMMA FollowUnwrittenStep == IInv /\ FollowUnwritten => IInv' /\ KCore' = KCore
  <1> SUFFICES ASSUME IInv, FollowUnwritten PROVE IInv' /\ KCore' = KCore
    OBVIOUS
  <1> USE DEF FollowUnwritten, NextThread, cpuVars, threadVars, processVars, linkVars, pastVars
  <1>1. enabled /\ ~KernelRuns /\ ~KernelRuns' /\ KCore' = KCore
    BY DEF IInv, Execution, KernelRuns, KCore
  <1>2. ~KernelCleared
    <2>1. CASE phase = "astray"
      BY <2>1 DEF IInv, Ring, RingClosed
    <2>2. CASE phase = "next" /\ NextThread = NULL
      <3> SUFFICES ASSUME KernelCleared PROVE FALSE
        OBVIOUS
      <3>1. PICK i \in DOMAIN order : currentThread = order[i]
        BY <1>1 DEF IInv, Ring, RingClosed, Range
      <3>2. order \in Seq(Tasks) /\ i \in 1..Len(order)
        BY <3>1 DEF IInv, TypeOK, LinkType
      <3>3. next[currentThread] = IF i = Len(order) THEN order[1] ELSE order[i + 1]
        BY <3>1, <3>2 DEF IInv, Ring, RingClosed, Closed
      <3>4. next[currentThread] \in Tasks
        BY <3>2, <3>3
      <3> QED BY <2>2, <3>4, TasksAssumption
    <2> QED BY <2>1, <2>2
  <1>3. TypeOK'
    <2>1. CpuType' /\ SchedType'
      BY DEF IInv, TypeOK, CpuType, SchedType
    <2>2. ThreadType' /\ ProcessType'
      BY DEF IInv, TypeOK, ThreadType, ProcessType
    <2>3. LinkType' /\ FlagType'
      BY DEF IInv, TypeOK, LinkType, FlagType
    <2> QED BY <2>1, <2>2, <2>3 DEF TypeOK
  <1>4. KernelControl' /\ Ring'
    BY <1>1, <1>2, ListsKept
  <1>5. Execution'
    BY <1>1, <1>2 DEF IInv, Execution, KernelSaved, UserSaved
  <1> QED BY <1>1, <1>3, <1>4, <1>5 DEF IInv

LEMMA AdvanceStep == IInv /\ Advance => IInv' /\ KCore' = KCore
  <1> SUFFICES ASSUME IInv, Advance PROVE IInv' /\ KCore' = KCore
    OBVIOUS
  <1> USE DEF Advance, NextThread, cpuVars, threadVars, processVars, linkVars, pastVars
  <1>1. /\ enabled /\ ~KernelRuns /\ ~KernelRuns' /\ KCore' = KCore
        /\ phase' \in {"next", "restore"} /\ KernelCleared /\ KernelCleared'
    BY DEF IInv, Execution, KernelRuns, KCore, Ring, KernelCleared
  <1>2. PICK i \in DOMAIN order : currentThread = order[i]
    BY <1>1 DEF IInv, Ring, RingClosed, Range
  <1>3. currentThread' \in Range(order)
    <2>1. i \in 1..Len(order) /\ Len(order) \in Nat /\ DOMAIN order = 1..Len(order)
      BY DEF IInv, TypeOK, LinkType
    <2>2. currentThread' = IF i = Len(order) THEN order[1] ELSE order[i + 1]
      BY <1>2, <2>1 DEF IInv, Ring, RingClosed, Closed
    <2> QED BY <2>1, <2>2 DEF Range
  <1>4. currentThread' \in Tasks /\ currentProcess' = currentThread'
    BY <1>3 DEF IInv, Ring, LinkedThreadsComplete, Complete, Range, TypeOK, LinkType
  <1>5. TypeOK'
    <2>1. CpuType' /\ SchedType'
      BY <1>1, <1>4 DEF IInv, TypeOK, CpuType, SchedType
    <2>2. ThreadType' /\ ProcessType'
      BY DEF IInv, TypeOK, ThreadType, ProcessType
    <2>3. LinkType'
      BY DEF IInv, TypeOK, LinkType
    <2>4. FlagType'
      BY DEF IInv, TypeOK, FlagType
    <2> QED BY <2>1, <2>2, <2>3, <2>4 DEF TypeOK
  <1>6. KernelControl' /\ Ring'
    BY <1>1, <1>3, ListsKept
  <1>7. Execution'
    BY <1>1, <1>4 DEF IInv, Execution, KernelSaved, UserSaved
  <1> QED BY <1>1, <1>5, <1>6, <1>7 DEF IInv

\* The thread that switch_task has chosen can be resumed.
LEMMA ChosenThread ==
  ASSUME IInv, phase \in {"restore", "iret"}
  PROVE  /\ currentThread \in Tasks /\ currentProcess = currentThread /\ KernelCleared
         /\ enabled /\ ~KernelRuns /\ KernelSaved /\ esp = Len(live) + 1
         /\ currentThread # Kernel => UserSaved(currentThread)
  <1>1. /\ currentProcess = currentThread /\ currentThread \in Range(order) /\ KernelCleared
        /\ enabled /\ ~KernelRuns /\ KernelSaved /\ esp = Len(live) + 1 /\ phase # "run"
    BY DEF IInv, Execution, KernelRuns, Ring, RingClosed
  <1>2. currentThread \in Tasks /\ Complete(currentThread)
    BY <1>1 DEF IInv, Ring, LinkedThreadsComplete, Range, TypeOK, LinkType
  <1>3. currentThread # Kernel => UserSaved(currentThread)
    BY <1>1, <1>2 DEF IInv, Execution, Complete
  <1> QED BY <1>1, <1>2, <1>3

LEMMA RestoreStep == IInv /\ Restore => IInv' /\ KCore' = KCore
  <1> SUFFICES ASSUME IInv, Restore PROVE IInv' /\ KCore' = KCore
    OBVIOUS
  <1> USE DEF Restore, Restored, TssSet, threadVars, processVars, linkVars, pastVars
  <1>1. /\ currentThread \in Tasks /\ currentProcess = currentThread /\ KernelCleared
        /\ enabled /\ ~KernelRuns /\ KernelSaved /\ esp = Len(live) + 1
        /\ currentThread # Kernel => UserSaved(currentThread)
    BY ChosenThread
  <1>2. ~KernelRuns' /\ KCore' = KCore
    BY <1>1 DEF KernelRuns, KCore
  <1>3. state[currentThread].core \in Word \cup KernelCore /\ state[currentThread].tail \in Word
    <2>1. CASE currentThread = Kernel
      <3>1. live[Len(live)] \in Word
        BY <1>1 DEF KernelSaved, IInv, TypeOK, ThreadType
      <3> QED BY <2>1, <3>1, <1>1 DEF KernelSaved
    <2>2. CASE currentThread # Kernel
      BY <2>2, <1>1 DEF UserSaved
    <2> QED BY <2>1, <2>2
  <1>4. Len(live) \in 1..MaxDepth /\ esp \in 2..(MaxDepth + 1) /\ esp - 1 = Len(live)
    BY <1>1, DepthAssumption DEF KernelSaved
  <1>5. /\ kstack' \in [1..(MaxDepth + 1) -> Word \cup KernelCore \cup {NULL}]
        /\ kstack'[esp] = state[currentThread].core
        /\ kstack'[esp - 1] = state[currentThread].tail
        /\ \A i \in 1..(Len(live) - 1) : kstack'[i] = kstack[i]
    <2>1. /\ kstack \in [1..(MaxDepth + 1) -> Word \cup KernelCore \cup {NULL}]
          /\ esp \in 1..(MaxDepth + 1) /\ esp - 1 \in 1..(MaxDepth + 1) /\ esp - 1 # esp
          /\ \A i \in 1..(Len(live) - 1) : i \in 1..(MaxDepth + 1) /\ i # esp /\ i # esp - 1
      BY <1>4, DepthAssumption DEF IInv, TypeOK, CpuType
    <2>2. kstack' = [kstack EXCEPT ![esp] = state[currentThread].core,
                                   ![esp - 1] = state[currentThread].tail]
      OBVIOUS
    <2> HIDE DEF Restore, Restored
    <2> QED BY <2>1, <2>2, <1>3
  <1>6. /\ tss' \in [Tasks -> (1..MaxDepth) \cup {NULL}]
        /\ currentThread # Kernel => tss'[currentThread] = Len(live)
    BY <1>1, <1>4 DEF IInv, TypeOK, CpuType
  <1>7. TypeOK'
    <2>1. CpuType' /\ SchedType'
      BY <1>1, <1>5, <1>6 DEF IInv, TypeOK, CpuType, SchedType
    <2>2. ThreadType' /\ ProcessType'
      BY DEF IInv, TypeOK, ThreadType, ProcessType
    <2>3. LinkType'
      BY DEF IInv, TypeOK, LinkType
    <2>4. FlagType'
      BY DEF IInv, TypeOK, FlagType
    <2> QED BY <2>1, <2>2, <2>3, <2>4 DEF TypeOK
  <1>8. KernelControl' /\ Ring'
    BY <1>1, <1>2, ListsKept DEF IInv, Ring, RingClosed
  <1>9. KernelSaved'
    BY <1>1, <1>5 DEF KernelSaved
  <1>10. Execution'
    BY <1>1, <1>5, <1>6, <1>9 DEF IInv, Execution, UserSaved, KernelCleared
  <1> QED BY <1>2, <1>7, <1>8, <1>10 DEF IInv

LEMMA IretStep ==
  IInv /\ Iret => /\ IInv' /\ KCore' = KCore
                  /\ cpu' = seen[cr3]
                  /\ cr3 = Kernel => [i \in 1..esp' |-> kstack'[i]] = live
  <1> SUFFICES ASSUME IInv, Iret
               PROVE  /\ IInv' /\ KCore' = KCore
                      /\ cpu' = seen[cr3]
                      /\ cr3 = Kernel => [i \in 1..esp' |-> kstack'[i]] = live
    OBVIOUS
  <1> USE DEF Iret, threadVars, processVars, linkVars, pastVars
  <1>1. /\ currentThread \in Tasks /\ currentProcess = currentThread /\ cr3 = currentThread
        /\ KernelCleared
        /\ enabled /\ ~KernelRuns /\ KernelSaved /\ esp = Len(live) + 1
        /\ currentThread # Kernel => UserSaved(currentThread) /\ tss[cr3] = Len(live)
        /\ kstack[esp] = state[cr3].core /\ kstack[esp - 1] = state[cr3].tail
    BY ChosenThread DEF IInv, Execution
  <1>2. Len(live) \in 1..MaxDepth /\ esp \in 2..(MaxDepth + 1) /\ esp - 1 = Len(live)
    BY <1>1, DepthAssumption DEF KernelSaved
  <1>3. /\ kstack' \in [1..(MaxDepth + 1) -> Word \cup KernelCore \cup {NULL}]
        /\ \A i \in 1..Len(live) : kstack'[i] = kstack[i]
    BY <1>2, DepthAssumption DEF IInv, TypeOK, CpuType
  <1>4. ASSUME cr3 = Kernel
        PROVE  /\ kstack[esp] \in KernelCore /\ kstack[esp] \notin Word
               /\ cpu' = Regs(state[Kernel].core, NULL) /\ cpu' = seen[cr3]
               /\ cpu' \in [core : KernelCore, tail : {NULL}] /\ ~Ring3'
               /\ esp' = Len(live) /\ KernelRuns' /\ KCore' = KCore
               /\ \A i \in 1..Len(live) : kstack'[i] = live[i] /\ live[i] \in Word
    <2>1. state[Kernel] \in [core : KernelCore, tail : {live[Len(live)]}]
          /\ seen[Kernel] = Regs(state[Kernel].core, NULL)
      BY <1>1 DEF KernelSaved
    <2>2. kstack[esp] \in KernelCore /\ kstack[esp] \notin Word
      BY <2>1, <1>1, <1>4, WordAssumption
    <2>3. cpu' = Regs(state[Kernel].core, NULL) /\ esp' = Len(live)
      BY <2>2, <1>1, <1>2, <1>4
    <2>4. cpu' \in [core : KernelCore, tail : {NULL}] /\ cpu'.core = state[Kernel].core
      BY <2>1, <2>3 DEF Regs
    <2>5. ~Ring3' /\ KernelRuns' /\ KCore' = KCore
      BY <2>4, <1>1, WordAssumption DEF Ring3, KernelRuns, KCore
    <2>6. \A i \in 1..Len(live) : kstack'[i] = live[i] /\ live[i] \in Word
      <3>1. kstack[Len(live)] = live[Len(live)]
        BY <1>1, <1>2, <1>4, <2>1
      <3>2. \A i \in 1..(Len(live) - 1) : kstack[i] = live[i]
        BY <1>1 DEF KernelSaved
      <3>3. \A i \in 1..Len(live) : live[i] \in Word
        BY DEF IInv, TypeOK, ThreadType
      <3> HIDE DEF Iret
      <3> QED BY <3>1, <3>2, <3>3, <1>2, <1>3
    <2> QED BY <2>1, <2>2, <2>3, <2>4, <2>5, <2>6, <1>4
  <1>5. ASSUME cr3 # Kernel
        PROVE  /\ cpu' = seen[cr3] /\ cpu' \in [core : Word, tail : Word]
               /\ Ring3' /\ ~KernelRuns' /\ KCore' = KCore /\ esp' = 0
    <2>1. state[cr3] = seen[cr3] /\ state[cr3] \in [core : Word, tail : Word]
      BY <1>1, <1>5 DEF UserSaved
    <2>2. cpu' = Regs(state[cr3].core, state[cr3].tail) /\ esp' = 0
      BY <2>1, <1>1
    <2>3. cpu' = state[cr3]
      BY <2>1, <2>2 DEF Regs
    <2>4. Ring3' /\ ~KernelRuns' /\ KCore' = KCore
      BY <2>1, <2>3, <1>1 DEF Ring3, KernelRuns, KCore
    <2> QED BY <2>1, <2>2, <2>3, <2>4
  <1>6. CpuType'
    <2>1. CASE cr3 = Kernel
      BY <2>1, <1>2, <1>3, <1>4, DepthAssumption DEF IInv, TypeOK, CpuType
    <2>2. CASE cr3 # Kernel
      BY <2>2, <1>3, <1>5, DepthAssumption DEF IInv, TypeOK, CpuType
    <2> QED BY <2>1, <2>2
  <1>7. TypeOK'
    <2>1. SchedType'
      BY DEF IInv, TypeOK, SchedType
    <2>2. ThreadType' /\ ProcessType'
      BY DEF IInv, TypeOK, ThreadType, ProcessType
    <2>3. LinkType'
      BY DEF IInv, TypeOK, LinkType
    <2>4. FlagType'
      BY DEF IInv, TypeOK, FlagType
    <2> QED BY <1>6, <2>1, <2>2, <2>3, <2>4 DEF TypeOK
  <1>8. KernelControl' /\ Ring'
    <2>1. KCore' = KCore
      BY <1>4, <1>5
    <2> QED BY <2>1, <1>1, ListsKept DEF IInv, Ring, RingClosed
  <1>9. Execution'
    <2>1. \A u \in Users : state[u] \in SavedRegs => UserSaved(u)'
      BY DEF IInv, Execution, UserSaved
    <2>2. CASE cr3 = Kernel
      BY <2>1, <2>2, <1>1, <1>2, <1>4 DEF Execution, KernelCleared
    <2>3. CASE cr3 # Kernel
      <3>1. KernelSaved'
        BY <1>1, <1>2, <1>3, DepthAssumption DEF KernelSaved
      <3> QED BY <2>1, <2>3, <3>1, <1>1, <1>5 DEF Execution, KernelCleared
    <2> QED BY <2>2, <2>3
  <1>10. cr3 = Kernel => [i \in 1..esp' |-> kstack'[i]] = live
    <2> SUFFICES ASSUME cr3 = Kernel PROVE [i \in 1..esp' |-> kstack'[i]] = live
      OBVIOUS
    <2>1. esp' = Len(live) /\ \A i \in 1..Len(live) : kstack'[i] = live[i]
      BY <1>4
    <2>2. live \in Seq(Word)
      BY DEF IInv, TypeOK, ThreadType
    <2> HIDE DEF Iret
    <2> QED BY <2>1, <2>2
  <1> QED BY <1>4, <1>5, <1>7, <1>8, <1>9, <1>10 DEF IInv

-----------------------------------------------------------------------------
(* The books of thread_list and of the processes.                          *)

\* While the kernel thread stands still, so do the books.
LEMMA KernelStands ==
  ASSUME IInv, KernelStack \/ UserRun \/ OtherInterrupt \/ EarlyTick \/ Tick \/ Advance
               \/ FollowUnwritten \/ Restore \/ Iret \/ UNCHANGED vars
  PROVE  KCore' = KCore /\ UNCHANGED <<processVars, next, prev, list, count, mutex, order>>
  <1>1. KCore' = KCore
    <2>1. CASE OtherInterrupt \/ EarlyTick \/ UNCHANGED vars
      BY <2>1 DEF OtherInterrupt, EarlyTick, vars, cpuVars, threadVars, schedVars, KCore, KernelRuns, Ring3
    <2> QED BY <2>1, KernelStackStep, UserRunStep, TickStep, AdvanceStep, FollowUnwrittenStep, RestoreStep, IretStep
  <1>2. UNCHANGED <<processVars, linkVars>>
    BY DEF KernelStack, UserRun, OtherInterrupt, EarlyTick, Tick, Advance, FollowUnwritten, Restore, Iret, vars
  <1> QED BY <1>1, <1>2 DEF processVars, linkVars

\* Where the kernel thread comes from and goes to.
LEMMA KernelMoves ==
  ASSUME IInv, NEW p, At(p), NEW q \in PC, NEW x \in Tasks \cup {NULL}, GoTo(q, x), UNCHANGED phase
  PROVE  /\ KCore.pc = p /\ KCore.item = Item /\ Item \in Tasks \cup {NULL}
         /\ KCore'.pc = q /\ KCore'.item = x
  BY KernelExecutes, KernelGoesOn

LEMMA ItemMoves ==
  ASSUME IInv, NEW p, At(p), NEW q \in PC, GoTo(q, Item), UNCHANGED phase
  PROVE  /\ KCore.pc = p /\ KCore.item = Item /\ Item \in Tasks \cup {NULL}
         /\ KCore'.pc = q /\ KCore'.item = Item
  <1>1. Item \in Tasks \cup {NULL}
    BY KernelExecutes
  <1> QED BY <1>1, KernelMoves

\* The linked threads, by their place.
LEMMA OrderTyped ==
  ASSUME IInv
  PROVE  /\ order \in Seq(Tasks) /\ Len(order) \in Nat /\ DOMAIN order = 1..Len(order)
         /\ count \in Nat /\ prev \in [Tasks -> Tasks \cup {NULL}]
         /\ \A i \in DOMAIN order : order[i] \in Tasks /\ order[i] \in Range(order)
         /\ \A i, j \in DOMAIN order : order[i] = order[j] => i = j
  BY DEF IInv, TypeOK, LinkType, Ring, Range

LEMMA ListBooksInit == Init => ListBooks /\ ThreadBooks
  <1> SUFFICES ASSUME Init PROVE ListBooks /\ ThreadBooks
    OBVIOUS
  <1>1. cpu.core = [pc |-> "boot", item |-> NULL] /\ cpu.core \notin Word
    BY WordAssumption DEF Init, Regs, KernelCore, PC
  <1>2. KCore.pc = "boot"
    BY <1>1 DEF Init, KCore, KernelRuns, Ring3
  <1> QED BY <1>2 DEF Init, ListBooks, ThreadBooks, LinkedPC, Range

\* What list_append and create_thread leave as it is.
LEMMA BooksKept ==
  ASSUME ListBooks, ThreadBooks, UNCHANGED <<order, count, prev, tCount>>,
         KCore.pc \notin {"back", "count"}, KCore'.pc \notin {"back", "count"},
         mutex' <=> KCore'.pc \in LinkedPC,
         KCore.pc \in LinkedPC \cup {"started"} \/ KCore'.pc \notin LinkedPC \cup {"started"}
           \/ KCore.item \notin Range(order),
         KCore.pc \notin LinkedPC \cup {"started"} \/ KCore'.pc \in LinkedPC \cup {"started"}
           \/ KCore.item \in {Kernel} \cup (Tasks \ Range(order)),
         KCore'.pc # "kthread",
         KCore'.pc \in {"process", "get", "link", "publish"} =>
            tCount[KCore'.item] = IF KCore'.item = Kernel THEN 1 ELSE 0,
         KCore'.item = KCore.item \/ KCore'.pc \notin LinkedPC \cup {"started"}
  PROVE  ListBooks' /\ ThreadBooks'
  <1>1. Range(order)' = Range(order)
    BY DEF Range
  <1>2. ListBooks'
    BY DEF ListBooks
  <1>3. ThreadBooks'
    BY <1>1 DEF ThreadBooks
  <1> QED BY <1>2, <1>3

LEMMA BooksStep == ASSUME IInv, ListBooks, ThreadBooks, KernelWork PROVE ListBooks' /\ ThreadBooks'
  <1> USE DEF SameCpu, threadVars, processVars, linkVars, schedVars, pastVars
  <1>o. /\ order \in Seq(Tasks) /\ Len(order) \in Nat /\ DOMAIN order = 1..Len(order)
        /\ count \in Nat /\ prev \in [Tasks -> Tasks \cup {NULL}]
        /\ \A i \in DOMAIN order : order[i] \in Tasks /\ order[i] \in Range(order)
        /\ \A i, j \in DOMAIN order : order[i] = order[j] => i = j
    BY OrderTyped
  <1>1. CASE InitLists
    <2>1. KCore.pc = "boot" /\ KCore'.pc = "kthread" /\ KCore'.item = NULL
      BY <1>1, KernelMoves DEF InitLists, PC
    <2>2. order = <<>> /\ order' = <<>>
      BY <1>1, <2>1 DEF InitLists, IInv, KernelControl, Booting
    <2>3. tCount'[Kernel] = 1
      BY <1>1 DEF InitLists, IInv, TypeOK, ProcessType
    <2> QED BY <1>1, <2>1, <2>2, <2>3 DEF InitLists, ListBooks, ThreadBooks, LinkedPC, Range
  <1>2. CASE AllocKernelThread
    <2>1. KCore.pc = "kthread" /\ KCore'.pc = "get" /\ KCore'.item = Kernel
      BY <1>2, KernelMoves DEF AllocKernelThread, PC
    <2>2. order = <<>>
      BY <2>1 DEF IInv, KernelControl, Booting, KernelCleared
    <2> QED BY <1>2, <2>1, <2>2 DEF AllocKernelThread, ListBooks, ThreadBooks, LinkedPC, Range
  <1>3. CASE AllocThread
    <2>1. KCore.pc = "process" /\ KCore'.pc = "get" /\ KCore.item = Item /\ KCore'.item = Item
      BY <1>3, ItemMoves DEF AllocThread, PC
    <2> QED BY <1>3, <2>1, BooksKept DEF AllocThread, ListBooks, ThreadBooks, LinkedPC
  <1>4. CASE ListSkip
    <2>1. KCore.pc = "get" /\ KCore'.pc = Appended /\ KCore.item = Item /\ KCore'.item = Item
      BY <1>4, ItemMoves DEF ListSkip, PC, Appended
    <2>2. Item \notin Range(order)
      BY <1>4, Appending DEF ListSkip
    <2> QED BY <1>4, <2>1, <2>2, BooksKept DEF ListSkip, ListBooks, LinkedPC, Appended
  <1>5. CASE ListGet
    <2>1. KCore.pc = "get" /\ KCore'.pc = "link" /\ KCore.item = Item /\ KCore'.item = Item
      BY <1>5, ItemMoves DEF ListGet, PC
    <2>2. Item \notin Range(order)
      BY <1>5, Appending DEF ListGet
    <2> QED BY <1>5, <2>1, <2>2, BooksKept DEF ListGet, ThreadBooks, LinkedPC
  <1>6. CASE ListFirst
    <2>1. KCore.pc = "link" /\ KCore'.pc = "count" /\ KCore.item = Item /\ KCore'.item = Item
      BY <1>6, ItemMoves DEF ListFirst, PC
    <2>2. order = <<>> /\ Item \in Tasks
      <3>1. Item \in Tasks
        BY <1>6, Appending DEF ListFirst
      <3>2. order = <<>>
        BY <1>6, TasksAssumption DEF ListFirst, IInv, Ring, TypeOK, LinkType
      <3> QED BY <3>1, <3>2
    <2>3. order' = <<Item>> /\ Range(order') = {Item}
      BY <1>6 DEF ListFirst, Range
    <2>4. ListBooks'
      BY <1>o, <1>6, <2>1, <2>2, <2>3 DEF ListFirst, ListBooks, LinkedPC
    <2>5. ThreadBooks'
      BY <1>6, <2>1, <2>3 DEF ListFirst, ThreadBooks, LinkedPC
    <2> QED BY <2>4, <2>5
  <1>7. CASE ListLink
    <2>1. KCore.pc = "link" /\ KCore'.pc = "publish" /\ KCore.item = Item /\ KCore'.item = Item
      BY <1>7, ItemMoves DEF ListLink, PC
    <2>2. Item \notin Range(order)
      BY <1>7, Appending DEF ListLink
    <2>3. \A i \in DOMAIN order : prev'[order[i]] = prev[order[i]]
      BY <1>o, <1>7, <2>2 DEF ListLink
    <2>4. ListBooks'
      BY <1>7, <2>1, <2>3 DEF ListLink, ListBooks, LinkedPC
    <2>5. ThreadBooks'
      BY <1>7, <2>1 DEF ListLink, ThreadBooks, LinkedPC, Range
    <2> QED BY <2>4, <2>5
  <1>8. CASE ListPublish
    <2>1. KCore.pc = "publish" /\ KCore'.pc = "back" /\ KCore.item = Item /\ KCore'.item = Item
      BY <1>8, ItemMoves DEF ListPublish, PC
    <2>2. Item \in Tasks /\ Item \notin Range(order)
      BY <1>8, Appending DEF ListPublish
    <2>3. order # <<>> /\ prev[Item] = order[Len(order)]
      BY <2>1 DEF IInv, KernelControl, Construction
    <2>4. /\ Len(order') = Len(order) + 1 /\ order'[Len(order) + 1] = Item
          /\ \A i \in 1..Len(order) : order'[i] = order[i]
          /\ DOMAIN order' = 1..(Len(order) + 1)
      BY <1>o, <1>8, <2>2 DEF ListPublish
    <2>5. ListBooks'
      <3>1. ASSUME NEW i \in DOMAIN order', i > 1 PROVE prev[order'[i]] = order'[i - 1]
        <4>1. CASE i = Len(order) + 1
          BY <1>o, <2>3, <2>4, <3>1, <4>1
        <4>2. CASE i # Len(order) + 1
          <5>1. i \in DOMAIN order /\ i - 1 \in 1..Len(order)
            BY <1>o, <2>4, <3>1, <4>2
          <5>2. prev[order[i]] = order[i - 1]
            BY <3>1, <5>1 DEF ListBooks
          <5> QED BY <1>o, <2>4, <5>1, <5>2
        <4> QED BY <4>1, <4>2
      <3>2. prev' = prev /\ count' = count /\ mutex' = mutex
        BY <1>8 DEF ListPublish
      <3>3. count = Len(order)
        BY <2>1 DEF ListBooks
      <3> QED BY <1>o, <2>1, <2>4, <3>1, <3>2, <3>3 DEF ListBooks, LinkedPC
    <2>6. ThreadBooks'
      <3>1. \A t \in Range(order') : t = Item \/ t \in Range(order)
        BY <1>o, <2>4 DEF Range
      <3>2. tCount[Item] = IF Item = Kernel THEN 1 ELSE 0
        BY <2>1 DEF ThreadBooks
      <3>3. tCount' = tCount
        BY <1>8 DEF ListPublish
      <3>4. \A t \in Range(order) : t # Item /\ tCount[t] = 1
        BY <2>1, <2>2 DEF ThreadBooks
      <3> QED BY <2>1, <3>1, <3>2, <3>3, <3>4 DEF ThreadBooks, LinkedPC
    <2> QED BY <2>5, <2>6
  <1>9. CASE ListBack
    <2>1. KCore.pc = "back" /\ KCore'.pc = "count" /\ KCore.item = Item /\ KCore'.item = Item
      BY <1>9, ItemMoves DEF ListBack, PC
    <2>2. next[Item] = order[1] /\ order # <<>>
      BY <2>1 DEF IInv, KernelControl, Construction
    <2>3. \A i \in DOMAIN order : i > 1 => prev'[order[i]] = prev[order[i]]
      <3>1. 1 \in DOMAIN order
        BY <1>o, <2>2
      <3>2. \A i \in DOMAIN order : i > 1 => order[i] # order[1]
        BY <1>o, <3>1
      <3> QED BY <1>o, <1>9, <2>2, <3>2 DEF ListBack, LinkedPrev
    <2>4. ListBooks'
      BY <1>9, <2>1, <2>3 DEF ListBack, ListBooks, LinkedPC
    <2>5. ThreadBooks'
      BY <1>9, <2>1 DEF ListBack, ThreadBooks, LinkedPC, Range
    <2> QED BY <2>4, <2>5
  <1>10. CASE ListCount
    <2>1. KCore.pc = "count" /\ KCore'.pc = "release" /\ KCore.item = Item /\ KCore'.item = Item
      BY <1>10, ItemMoves DEF ListCount, PC
    <2>2. ListBooks'
      BY <1>10, <2>1 DEF ListCount, ListBooks, LinkedPC
    <2>3. ThreadBooks'
      BY <1>10, <2>1 DEF ListCount, ThreadBooks, LinkedPC, Range
    <2> QED BY <2>2, <2>3
  <1>11. CASE ListRelease
    <2>1. KCore.pc = "release" /\ KCore'.pc = Appended /\ KCore.item = Item /\ KCore'.item = Item
      BY <1>11, ItemMoves DEF ListRelease, PC, Appended
    <2> QED BY <1>11, <2>1, BooksKept DEF ListRelease, LinkedPC, Appended
  <1>12. CASE SetCurrent
    <2>1. KCore.pc = "current" /\ KCore'.pc = "enable"
      BY <1>12, KernelMoves DEF SetCurrent, PC
    <2> QED BY <1>12, <2>1, BooksKept DEF SetCurrent, ListBooks, LinkedPC
  <1>13. CASE Enable
    <2>1. KCore.pc = "enable" /\ KCore'.pc = "idle"
      BY <1>13, KernelMoves DEF Enable, PC
    <2> QED BY <1>13, <2>1, BooksKept DEF Enable, ListBooks, LinkedPC
  <1>14. CASE CountThread
    <2>1. KCore.pc = "started" /\ KCore'.pc = "idle" /\ KCore.item = Item
      BY <1>14, KernelMoves DEF CountThread, PC
    <2>2. Item \in Users /\ Item # Kernel
      BY <2>1, TasksAssumption DEF IInv, KernelControl, Construction
    <2>3. ListBooks'
      BY <1>14, <2>1 DEF CountThread, ListBooks, LinkedPC
    <2>4. ThreadBooks'
      <3>1. tCount' = [tCount EXCEPT ![Item] = @ + 1] /\ tCount \in [Tasks -> Nat \cup {NULL}] /\ order' = order
        BY <1>14 DEF CountThread, IInv, TypeOK, ProcessType
      <3>2. \A t \in Range(order) : t \in Tasks /\ tCount[t] = IF t = Item THEN 0 ELSE 1
        BY <1>o, <2>1, <2>2 DEF ThreadBooks, LinkedPC, Range
      <3>3. \A t \in Range(order) : tCount'[t] = 1
        BY <2>2, <3>1, <3>2
      <3> QED BY <2>1, <3>1, <3>3 DEF ThreadBooks, LinkedPC
    <2> QED BY <2>3, <2>4
  <1> QED BY <1>1, <1>2, <1>3, <1>4, <1>5, <1>6, <1>7, <1>8, <1>9, <1>10, <1>11, <1>12, <1>13, <1>14
      DEF KernelWork

LEMMA BuildBooks ==
  ASSUME IInv, ListBooks, ThreadBooks, NEW u \in Users, BuildProcess(u)
  PROVE  ListBooks' /\ ThreadBooks' /\ u \notin Range(order)
  <1>1. KCore.pc = "idle" /\ KCore'.pc = "process" /\ KCore'.item = u
    BY KernelMoves DEF BuildProcess, schedVars, PC
  <1>2. u \notin Range(order) /\ u # Kernel
    BY NullAssumption, TasksAssumption DEF BuildProcess, IInv, Ring, LinkedThreadsComplete, Complete
  <1>3. UNCHANGED <<order, count, prev, mutex>> /\ tCount' = [tCount EXCEPT ![u] = 0]
    BY DEF BuildProcess, linkVars
  <1>4. ListBooks'
    BY <1>1, <1>3 DEF ListBooks, LinkedPC
  <1>5. tCount'[u] = 0 /\ \A t \in Range(order) : tCount'[t] = tCount[t]
    BY <1>2, <1>3 DEF IInv, TypeOK, ProcessType
  <1>6. ThreadBooks'
    BY <1>1, <1>2, <1>3, <1>5 DEF ThreadBooks, LinkedPC, Range
  <1> QED BY <1>2, <1>4, <1>6

LEMMA ListBooksStep == IInv /\ ListBooks /\ ThreadBooks /\ [Next]_vars => ListBooks' /\ ThreadBooks'
  <1> SUFFICES ASSUME IInv, ListBooks, ThreadBooks, [Next]_vars PROVE ListBooks' /\ ThreadBooks'
    OBVIOUS
  <1>1. ASSUME KCore' = KCore, UNCHANGED <<processVars, next, prev, list, count, mutex, order>>
        PROVE  ListBooks' /\ ThreadBooks'
    BY <1>1 DEF ListBooks, ThreadBooks, Range, processVars
  <1> QED BY <1>1, KernelStands, BooksStep, BuildBooks DEF Next

\* What a step does to the records: only the page of a new record brings garbage,
\* and list_append takes none of it away.
LEMMA RecordBooksStep == IInv /\ RecordBooks /\ [Next]_vars => RecordBooks' /\ (AllCleared' => AllCleared)
  <1> SUFFICES ASSUME IInv, RecordBooks, [Next]_vars PROVE RecordBooks' /\ (AllCleared' => AllCleared)
    OBVIOUS
  <1> USE DEF SameCpu, threadVars, processVars, linkVars, schedVars, pastVars
  <1>t. /\ list \in [Tasks -> PageWord \cup {NULL, "thread_list"}]
        /\ pList \in [Tasks -> PageWord \cup {NULL, "process_list"}]
        /\ pSuspend \in [Tasks -> {FALSE, NULL}]
    BY DEF IInv, TypeOK, LinkType, ProcessType
  <1>k. ASSUME UNCHANGED <<list, pList, pSuspend, processList>>,
               KCore'.pc \notin {"boot", "get", "process"},
               KCore'.pc = "link" => list[KCore'.item] = NULL
        PROVE  RecordBooks' /\ (AllCleared' => AllCleared)
    BY <1>k DEF RecordBooks, AllCleared
  <1>1. CASE InitLists
    <2>1. KCore.pc = "boot" /\ KCore'.pc = "kthread"
      BY <1>1, KernelMoves DEF InitLists, PC
    <2>2. /\ \A u \in Users : pList'[u] = pList[u] /\ pSuspend'[u] = pSuspend[u]
          /\ list' = list
      BY <1>1, <1>t, TasksAssumption DEF InitLists, AppendProcess
    <2>3. pList[Kernel] = NULL
      BY <2>1 DEF RecordBooks
    <2> QED BY <2>1, <2>2, <2>3 DEF RecordBooks, AllCleared
  <1>2. CASE AllocKernelThread
    <2>1. KCore.pc = "kthread" /\ KCore'.pc = "get" /\ KCore'.item = Kernel
      BY <1>2, KernelMoves DEF AllocKernelThread, PC
    <2>2. list[Kernel] = NULL
      BY <2>1 DEF IInv, KernelControl, Booting
    <2>3. /\ list'[Kernel] \in PageWord /\ \A u \in Users : list'[u] = list[u]
          /\ UNCHANGED <<pList, pSuspend>>
      BY <1>2, <1>t, TasksAssumption DEF AllocKernelThread
    <2> QED BY <2>1, <2>2, <2>3 DEF RecordBooks, AllCleared
  <1>3. CASE AllocThread
    <2>1. KCore.pc = "process" /\ KCore'.pc = "get" /\ KCore.item = Item /\ KCore'.item = Item
      BY <1>3, ItemMoves DEF AllocThread, PC
    <2>2. Item \in Users /\ pSuspend[Item] = FALSE /\ list[Item] = NULL
      BY <2>1 DEF RecordBooks, IInv, KernelControl, Construction
    <2>3. /\ list'[Item] \in PageWord /\ \A t \in Tasks \ {Item} : list'[t] = list[t]
          /\ UNCHANGED <<pList, pSuspend>>
      BY <1>3, <1>t, <2>2 DEF AllocThread
    <2> QED BY <2>1, <2>2, <2>3, NullAssumption DEF RecordBooks, AllCleared
  <1>4. CASE ListGet
    <2>1. KCore'.pc = "link" /\ KCore'.item = Item
      BY <1>4, ItemMoves DEF ListGet, PC
    <2> QED BY <1>4, <2>1, <1>k DEF ListGet
  <1>5. CASE ListLink
    <2>1. KCore.pc = "link" /\ KCore'.pc = "publish" /\ KCore.item = Item /\ KCore'.item = Item
      BY <1>5, ItemMoves DEF ListLink, PC
    <2>2. Item \in Tasks /\ pSuspend[Item] = FALSE /\ list[Item] = NULL
      BY <1>5, <2>1, Appending DEF ListLink, RecordBooks, Complete
    <2>3. /\ \A t \in Tasks \ {Item} : list'[t] = list[t]
          /\ UNCHANGED <<pList, pSuspend>>
      BY <1>5, <1>t DEF ListLink
    <2> QED BY <2>1, <2>2, <2>3, NullAssumption DEF RecordBooks, AllCleared
  <1>6. CASE ListSkip \/ ListRelease
    <2>1. KCore'.pc = Appended
      BY <1>6, ItemMoves DEF ListSkip, ListRelease, PC, Appended
    <2> QED BY <1>6, <2>1, <1>k DEF ListSkip, ListRelease, Appended
  <1>7. CASE ListFirst \/ ListPublish \/ ListBack \/ ListCount
    <2>1. KCore'.pc \in {"count", "back", "release"}
      BY <1>7, ItemMoves DEF ListFirst, ListPublish, ListBack, ListCount, PC
    <2> QED BY <1>7, <2>1, <1>k DEF ListFirst, ListPublish, ListBack, ListCount
  <1>8. CASE SetCurrent \/ Enable \/ CountThread
    <2>1. KCore'.pc \in {"enable", "idle"}
      BY <1>8, KernelMoves DEF SetCurrent, Enable, CountThread, PC
    <2> QED BY <1>8, <2>1, <1>k DEF SetCurrent, Enable, CountThread
  <1>9. ASSUME NEW u \in Users, BuildProcess(u) PROVE RecordBooks' /\ (AllCleared' => AllCleared)
    <2>1. KCore.pc = "idle" /\ KCore'.pc = "process" /\ KCore'.item = u
      BY <1>9, KernelMoves DEF BuildProcess, PC
    <2>2. list[u] = NULL /\ pList[u] = NULL
      BY <1>9 DEF BuildProcess, RecordBooks
    <2>3. /\ \A t \in Tasks \ {u} : pList'[t] = pList[t] /\ pSuspend'[t] = pSuspend[t]
          /\ pSuspend'[u] = FALSE /\ list' = list
      BY <1>9, <1>t DEF BuildProcess, AppendProcess
    <2> QED BY <2>1, <2>2, <2>3, NullAssumption DEF RecordBooks, AllCleared
  <1>10. ASSUME KCore' = KCore, UNCHANGED <<processVars, next, prev, list, count, mutex, order>>
         PROVE  RecordBooks' /\ (AllCleared' => AllCleared)
    BY <1>10 DEF RecordBooks, AllCleared
  <1> QED BY <1>1, <1>2, <1>3, <1>4, <1>5, <1>6, <1>7, <1>8, <1>9, <1>10, KernelStands
      DEF Next, KernelWork

\* With every record cleared list_append never takes an item for appended.
LEMMA ProcessBooksStep == IInv /\ RecordBooks /\ ProcessBooks /\ [Next]_vars => ProcessBooks'
  <1> SUFFICES ASSUME IInv, RecordBooks, ProcessBooks, [Next]_vars, AllCleared'
               PROVE  ProcessBooks'
    BY DEF ProcessBooks
  <1> USE DEF SameCpu, threadVars, processVars, linkVars, schedVars, pastVars
  <1>c. AllCleared
    BY RecordBooksStep
  <1>l. KCore.pc = "get" => list[KCore.item] = NULL
    <2> SUFFICES ASSUME KCore.pc = "get" PROVE list[KCore.item] = NULL
      OBVIOUS
    <2>1. KCore.item \in Tasks
      BY DEF IInv, KernelControl, Construction, AppendPC
    <2> QED BY <1>c, <2>1, PageAssumption DEF AllCleared, RecordBooks
  <1>1. CASE InitLists
    <2>1. KCore.pc = "boot" /\ KCore'.pc = "kthread"
      BY <1>1, KernelMoves DEF InitLists, PC
    <2>2. processList = <<>>
      BY <2>1 DEF RecordBooks
    <2>3. PICK w \in PageWord : AppendProcess(Kernel, w)
      BY <1>1 DEF InitLists
    <2>4. pList'[Kernel] = w
      BY <2>2, <2>3 DEF AppendProcess, IInv, TypeOK, ProcessType
    <2>5. w = NULL
      BY <2>4, PageAssumption DEF AllCleared
    <2> QED BY <2>1, <2>2, <2>3, <2>5 DEF AppendProcess, ProcessBooks
  <1>2. CASE AllocKernelThread
    <2>1. KCore.pc = "kthread" /\ KCore'.pc = "get" /\ KCore'.item = Kernel
      BY <1>2, KernelMoves DEF AllocKernelThread, PC
    <2>2. order = <<>> /\ processList = <<Kernel>>
      BY <1>c, <2>1 DEF IInv, KernelControl, Booting, ProcessBooks
    <2>3. UNCHANGED <<order, processList>>
      BY <1>2 DEF AllocKernelThread
    <2> QED BY <2>1, <2>2, <2>3 DEF ProcessBooks
  <1>3. CASE AllocThread
    <2>1. KCore.pc = "process" /\ KCore'.pc = "get" /\ KCore.item = Item /\ KCore'.item = Item
      BY <1>3, ItemMoves DEF AllocThread, PC
    <2> QED BY <1>3, <1>c, <2>1 DEF AllocThread, ProcessBooks
  <1>4. CASE ListSkip
    <2>1. KCore.pc = "get" /\ KCore.item = Item
      BY <1>4, ItemMoves DEF ListSkip, PC, Appended
    <2> QED BY <1>4, <1>l, <2>1 DEF ListSkip
  <1>5. CASE ListGet
    <2>1. KCore.pc = "get" /\ KCore'.pc = "link" /\ KCore.item = Item /\ KCore'.item = Item
      BY <1>5, ItemMoves DEF ListGet, PC
    <2> QED BY <1>5, <1>c, <2>1 DEF ListGet, ProcessBooks
  <1>6. CASE ListFirst
    <2>1. KCore.pc = "link" /\ KCore'.pc = "count" /\ KCore.item = Item
      BY <1>6, ItemMoves DEF ListFirst, PC
    <2>2. order = <<>> /\ order' = <<Item>> /\ processList' = processList
      BY <1>6, TasksAssumption DEF ListFirst, IInv, Ring, TypeOK, LinkType
    <2>3. processList = Append(order, Item)
      BY <1>c, <2>1 DEF ProcessBooks
    <2> QED BY <2>1, <2>2, <2>3 DEF ProcessBooks
  <1>7. CASE ListLink
    <2>1. KCore.pc = "link" /\ KCore'.pc = "publish" /\ KCore.item = Item /\ KCore'.item = Item
      BY <1>7, ItemMoves DEF ListLink, PC
    <2> QED BY <1>7, <1>c, <2>1 DEF ListLink, ProcessBooks
  <1>8. CASE ListPublish
    <2>1. KCore.pc = "publish" /\ KCore'.pc = "back" /\ KCore.item = Item
      BY <1>8, ItemMoves DEF ListPublish, PC
    <2> QED BY <1>8, <1>c, <2>1 DEF ListPublish, ProcessBooks
  <1>9. CASE ListBack \/ ListCount
    <2>1. KCore.pc \in {"back", "count"} /\ KCore'.pc \in {"count", "release"}
      BY <1>9, ItemMoves DEF ListBack, ListCount, PC
    <2> QED BY <1>9, <1>c, <2>1 DEF ListBack, ListCount, ProcessBooks
  <1>10. CASE ListRelease
    <2>1. KCore.pc = "release" /\ KCore'.pc = Appended
      BY <1>10, ItemMoves DEF ListRelease, PC, Appended
    <2> QED BY <1>10, <1>c, <2>1 DEF ListRelease, ProcessBooks, Appended
  <1>11. CASE SetCurrent \/ Enable \/ CountThread
    <2>1. KCore.pc \in {"current", "enable", "started"} /\ KCore'.pc \in {"enable", "idle"}
      BY <1>11, KernelMoves DEF SetCurrent, Enable, CountThread, PC
    <2> QED BY <1>11, <1>c, <2>1 DEF SetCurrent, Enable, CountThread, ProcessBooks
  <1>12. ASSUME NEW u \in Users, BuildProcess(u) PROVE ProcessBooks'
    <2>1. KCore.pc = "idle" /\ KCore'.pc = "process" /\ KCore'.item = u
      BY <1>12, KernelMoves DEF BuildProcess, PC
    <2>2. PICK w \in PageWord : AppendProcess(u, w)
      BY <1>12 DEF BuildProcess
    <2>3. w # NULL => pList'[u] = w
      BY <2>2 DEF AppendProcess, IInv, TypeOK, ProcessType
    <2>4. w = NULL
      BY <2>3, PageAssumption DEF AllCleared
    <2>5. processList' = Append(processList, u) /\ order' = order /\ processList = order
      BY <1>12, <1>c, <2>1, <2>2, <2>4 DEF BuildProcess, AppendProcess, ProcessBooks
    <2> QED BY <2>1, <2>5 DEF ProcessBooks
  <1>13. ASSUME KCore' = KCore, UNCHANGED <<processVars, next, prev, list, count, mutex, order>>
         PROVE  ProcessBooks'
    BY <1>13, <1>c DEF ProcessBooks
  <1> QED BY <1>1, <1>2, <1>3, <1>4, <1>5, <1>6, <1>7, <1>8, <1>9, <1>10, <1>11, <1>12, <1>13, KernelStands
      DEF Next, KernelWork

-----------------------------------------------------------------------------
(* The theorems.                                                           *)

LEMMA StepKeepsIInv == IInv /\ [Next]_vars => IInv'
  <1> SUFFICES ASSUME IInv, [Next]_vars PROVE IInv'
    OBVIOUS
  <1>1. CASE KernelWork
    BY <1>1, InitListsStep, AllocKernelThreadStep, AllocThreadStep, ListSkipStep, ListGetStep,
       ListFirstStep, ListLinkStep, ListPublishStep, ListBackStep, ListCountStep,
       ListReleaseStep, SetCurrentStep, EnableStep, CountThreadStep
       DEF KernelWork
  <1>2. CASE KernelStack
    BY <1>2, KernelStackStep
  <1>3. ASSUME NEW u \in Users, BuildProcess(u) PROVE IInv'
    BY <1>3, BuildProcessStep
  <1>4. CASE UserRun
    BY <1>4, UserRunStep
  <1>5. CASE OtherInterrupt
    BY <1>5, OtherInterruptStep
  <1>6. CASE EarlyTick
    BY <1>6, EarlyTickStep
  <1>7. CASE Tick
    BY <1>7, TickStep
  <1>8. CASE Advance
    BY <1>8, AdvanceStep
  <1>a. CASE FollowUnwritten
    BY <1>a, FollowUnwrittenStep
  <1>9. CASE Restore
    BY <1>9, RestoreStep
  <1>10. CASE Iret
    BY <1>10, IretStep
  <1>11. CASE UNCHANGED vars
    <2> USE <1>11 DEF vars, cpuVars, threadVars, processVars, linkVars, schedVars, pastVars
    <2>1. KernelRuns' = KernelRuns /\ Ring3' = Ring3 /\ KCore' = KCore
      BY DEF KernelRuns, Ring3, KCore
    <2>2. CpuType' /\ ThreadType'
      BY DEF IInv, TypeOK, CpuType, ThreadType
    <2>3. ProcessType' /\ LinkType'
      BY DEF IInv, TypeOK, ProcessType, LinkType
    <2>4. SchedType' /\ FlagType'
      BY DEF IInv, TypeOK, SchedType, FlagType
    <2>5. KernelControl' /\ Ring'
      BY <2>1, ListsKept DEF IInv, Ring, RingClosed, KernelControl, Switching
    <2>6. Execution'
      BY <2>1 DEF IInv, Execution, KernelSaved, UserSaved, KernelCleared
    <2> QED BY <2>2, <2>3, <2>4, <2>5, <2>6 DEF IInv, TypeOK
  <1> QED BY <1>1, <1>2, <1>3, <1>4, <1>5, <1>6, <1>7, <1>8, <1>9, <1>10, <1>11, <1>a DEF Next

(***************************************************************************)
(* The inductive invariant holds in every reachable state.                 *)
(***************************************************************************)
THEOREM Invariance == Spec => []IInv
  BY InitHolds, StepKeepsIInv, PTL DEF Spec

(***************************************************************************)
(* Every variable keeps its type.                                          *)
(***************************************************************************)
THEOREM TypeCorrect == Spec => []TypeOK
  <1>1. IInv => TypeOK
    BY DEF IInv
  <1> QED BY <1>1, Invariance, PTL

(***************************************************************************)
(* For any number of threads, a tick in the middle of list_append finds    *)
(* the linked threads in one ring, and the current one on it if the record *)
(* of the kernel's own thread came with list = NULL.  If it did not, the   *)
(* tick may follow a pointer that was never written.                       *)
(***************************************************************************)
THEOREM RingStaysClosed == Spec => []RingClosed
  <1>1. IInv => RingClosed
    BY DEF IInv, Ring
  <1> QED BY <1>1, Invariance, PTL

(***************************************************************************)
(* switch_task never reaches a thread that create_thread has not finished. *)
(***************************************************************************)
THEOREM LinkedAreComplete == Spec => []LinkedThreadsComplete
  <1>1. IInv => LinkedThreadsComplete
    BY DEF IInv, Ring
  <1> QED BY <1>1, Invariance, PTL

(***************************************************************************)
(* A user thread executes in its own page directory, and the TSS found     *)
(* through it protects the stack of the kernel thread, at any depth.       *)
(***************************************************************************)
THEOREM UserSpaceCorrect == Spec => []UserInItsOwnSpace
  <1>1. IInv => UserInItsOwnSpace
    <2> SUFFICES ASSUME IInv, phase = "run", Ring3
                 PROVE  /\ cr3 # Kernel /\ cr3 = currentThread /\ cr3 = currentProcess
                        /\ tss[cr3] = Len(live)
      BY DEF UserInItsOwnSpace
    <2>1. enabled
      BY DEF IInv, KernelControl, Switching, KernelRuns
    <2> QED BY <2>1 DEF IInv, Execution
  <1> QED BY <1>1, Invariance, PTL

(***************************************************************************)
(* Every thread is resumed with the registers it was interrupted with and, *)
(* the kernel thread, with every live word of its stack.                   *)
(***************************************************************************)
THEOREM ContextIntegrity == Spec => ResumesAsInterrupted
  <1> DEFINE Resumed == phase = "iret" /\ phase' = "run" =>
                          /\ cpu' = seen[cr3]
                          /\ cr3 = Kernel => [i \in 1..esp' |-> kstack'[i]] = live
  <1>1. IInv /\ [Next]_vars => [Resumed]_vars
    <2> SUFFICES ASSUME IInv, Next, phase = "iret" PROVE Resumed
      OBVIOUS
    <2>1. Iret
      BY DEF Next, KernelWork, KernelStack, BuildProcess, UserRun, OtherInterrupt, EarlyTick,
             Tick, Advance, FollowUnwritten, Restore, At, InitLists, AllocKernelThread, AllocThread, ListSkip,
             ListGet, ListFirst, ListLink, ListPublish, ListBack, ListCount, ListRelease,
             SetCurrent, Enable, CountThread
    <2> QED BY <2>1, IretStep
  <1> QED BY <1>1, Invariance, PTL DEF Spec, ResumesAsInterrupted

(***************************************************************************)
(* The scheduler implements the round robin of RoundRobin.tla: every step  *)
(* is a thread entering the ring, the first turn, the turn passing to the  *)
(* successor, or no step of the ring at all.  A kernel thread that was not *)
(* linked makes the mapped ring empty: nothing is promised then.           *)
(***************************************************************************)
THEOREM ImplementsRoundRobin == Spec => RR!Init /\ [][RR!Next]_(RR!vars)
  <1>1. Init => RR!Init
    BY DEF Init, RR!Init, RRing, RTurn
  <1>2. IInv /\ [Next]_vars => [RR!Next]_(RR!vars)
    <2> SUFFICES ASSUME IInv, [Next]_vars PROVE RR!Next \/ UNCHANGED <<RRing, RTurn>>
      BY DEF RR!vars
    <2> USE DEF schedVars, linkVars
    <2>a. ASSUME UNCHANGED <<list, order, currentThread>> PROVE UNCHANGED <<RRing, RTurn>>
      BY <2>a DEF RRing, RTurn, KernelCleared
    <2>b. ASSUME ~KernelCleared, list' = list PROVE UNCHANGED <<RRing, RTurn>>
      BY <2>b DEF RRing, RTurn, KernelCleared
    <2>c. ASSUME KernelCleared, list' = list
          PROVE  RRing = order /\ RTurn = currentThread /\ RRing' = order' /\ RTurn' = currentThread'
      BY <2>c DEF RRing, RTurn, KernelCleared
    <2>1. CASE ListFirst
      <3>1. Item \in Tasks /\ Item \notin Range(order) /\ order = <<>>
        <4>1. Item \in Tasks /\ Item \notin Range(order)
          BY <2>1, Appending DEF ListFirst
        <4>2. order = <<>>
          BY <2>1, TasksAssumption DEF ListFirst, IInv, Ring, TypeOK, LinkType
        <4> QED BY <4>1, <4>2
      <3>2. order' = Append(order, Item) /\ list' = list /\ currentThread' = currentThread
        BY <2>1, <3>1 DEF ListFirst
      <3>3. CASE KernelCleared
        BY <2>c, <3>1, <3>2, <3>3 DEF RR!Next, RR!Enter, RR!Range, Range
      <3> QED BY <2>b, <3>2, <3>3
    <2>2. CASE ListPublish
      <3>1. Item \in Tasks /\ Item \notin Range(order)
        BY <2>2, Appending DEF ListPublish
      <3>2. order' = Append(order, Item) /\ list' = list /\ currentThread' = currentThread
        BY <2>2 DEF ListPublish
      <3>3. CASE KernelCleared
        BY <2>c, <3>1, <3>2, <3>3 DEF RR!Next, RR!Enter, RR!Range, Range
      <3> QED BY <2>b, <3>2, <3>3
    <2>3. CASE SetCurrent
      <3>1. KCore.pc = "current"
        BY <2>3, KernelExecutes DEF SetCurrent
      <3>2. list' = list /\ order' = order /\ currentThread' = Kernel
        BY <2>3 DEF SetCurrent
      <3>3. CASE KernelCleared
        <4>1. order # <<>> /\ order[1] = Kernel /\ currentThread = NULL
          BY <3>1, <3>3 DEF IInv, Ring, KernelControl, Switching, Construction, BootPC
        <4> QED BY <2>c, <3>2, <3>3, <4>1 DEF RR!Next, RR!Start
      <3> QED BY <2>b, <3>2, <3>3
    <2>4. CASE Advance
      <3>0. list' = list /\ order' = order
        BY <2>4 DEF Advance
      <3>1. enabled
        BY <2>4 DEF Advance, IInv, Execution
      <3> SUFFICES ASSUME KernelCleared PROVE RR!Next
        BY <2>b, <3>0
      <3>2. PICK i \in DOMAIN order : currentThread = order[i]
        BY <3>1 DEF IInv, Ring, RingClosed, Range
      <3>3. currentThread' = order[IF i = Len(order) THEN 1 ELSE i + 1]
        BY <2>4, <3>2 DEF Advance, NextThread, IInv, Ring, RingClosed, Closed, TypeOK, LinkType
      <3> QED BY <2>c, <3>0, <3>2, <3>3 DEF RR!Next, RR!Pass, RR!Succ
    <2>5. CASE FollowUnwritten
      <3>1. ~KernelCleared' /\ list' = list
        <4>1. phase' = "astray" /\ list' = list
          BY <2>5 DEF FollowUnwritten
        <4> QED BY <2>5, <4>1, FollowUnwrittenStep DEF IInv, Ring, RingClosed
      <3> QED BY <2>b, <3>1 DEF KernelCleared
    <2>6. CASE AllocKernelThread
      <3>1. KCore.pc = "kthread" /\ UNCHANGED <<order, currentThread>>
        BY <2>6, KernelExecutes DEF AllocKernelThread
      <3>2. order = <<>> /\ currentThread = NULL
        BY <3>1 DEF IInv, KernelControl, Switching, Booting, BootPC
      <3> QED BY <3>1, <3>2 DEF RRing, RTurn
    <2>7. CASE AllocThread \/ ListLink
      <3>1. Item \in Tasks \cup {NULL} /\ Item # Kernel
        <4>1. CASE AllocThread
          <5>1. KCore.pc = "process" /\ KCore.item = Item
            BY <4>1, KernelExecutes DEF AllocThread
          <5> QED BY <5>1, TasksAssumption DEF IInv, KernelControl, Construction
        <4>2. CASE ListLink
          BY <4>2, Appending DEF ListLink
        <4> QED BY <2>7, <4>1, <4>2
      <3>2. list'[Kernel] = list[Kernel] /\ UNCHANGED <<order, currentThread>>
        BY <2>7, <3>1 DEF AllocThread, ListLink, IInv, TypeOK, LinkType
      <3> QED BY <3>2 DEF RRing, RTurn, KernelCleared
    <2>8. CASE \/ InitLists \/ ListSkip \/ ListGet \/ ListBack \/ ListCount \/ ListRelease
               \/ Enable \/ CountThread
      BY <2>8, <2>a DEF InitLists, ListSkip, ListGet, ListBack, ListCount, ListRelease, Enable, CountThread
    <2>9. CASE KernelStack \/ UserRun \/ OtherInterrupt \/ EarlyTick \/ Tick \/ Restore \/ Iret
      BY <2>9, <2>a DEF KernelStack, UserRun, OtherInterrupt, EarlyTick, Tick, Restore, Iret
    <2>10. ASSUME NEW u \in Users, BuildProcess(u) PROVE UNCHANGED <<RRing, RTurn>>
      BY <2>10, <2>a DEF BuildProcess
    <2>11. CASE UNCHANGED vars
      BY <2>11, <2>a DEF vars
    <2> QED BY <2>1, <2>2, <2>3, <2>4, <2>5, <2>6, <2>7, <2>8, <2>9, <2>10, <2>11 DEF Next, KernelWork
  <1> QED BY <1>1, <1>2, Invariance, PTL DEF Spec

(***************************************************************************)
(* Whenever the shell is between two commands thread_list agrees with      *)
(* itself, however many threads it has started, wherever the timer         *)
(* interrupted list_append, and whatever the uncleared pages held: the     *)
(* count, the mutex, both directions of the ring, the thread counts.  If   *)
(* no list pointer came as garbage, the process list agrees with the ring. *)
(***************************************************************************)
THEOREM ListsAlwaysAgree == Spec => []ListsAgree
  <1>1. Init => ListBooks /\ ThreadBooks
    BY ListBooksInit
  <1>2. Init => RecordBooks /\ ProcessBooks
    <2> SUFFICES ASSUME Init PROVE RecordBooks /\ ProcessBooks
      OBVIOUS
    <2>1. cpu.core = [pc |-> "boot", item |-> NULL] /\ cpu.core \notin Word
      BY WordAssumption DEF Init, Regs, KernelCore, PC
    <2>2. KCore.pc = "boot"
      BY <2>1 DEF Init, KCore, KernelRuns, Ring3
    <2>3. processList = <<>> /\ order = <<>> /\ \A t \in Tasks : list[t] = NULL /\ pList[t] = NULL
      BY DEF Init, Blank
    <2> QED BY <2>2, <2>3 DEF RecordBooks, ProcessBooks
  <1>3. IInv /\ RecordBooks /\ [Next]_vars => RecordBooks'
    BY RecordBooksStep
  <1>4. IInv /\ RecordBooks /\ ProcessBooks /\ [Next]_vars => ProcessBooks'
    BY ProcessBooksStep
  <1>5. IInv /\ ListBooks /\ ThreadBooks /\ ProcessBooks => ListsAgree
    <2> SUFFICES ASSUME IInv, ListBooks, ThreadBooks, ProcessBooks, At("idle")
                 PROVE  /\ count = Len(order) /\ ~mutex
                        /\ \A i \in DOMAIN order :
                             prev[order[i]] = IF i = 1 THEN order[Len(order)] ELSE order[i - 1]
                        /\ AllCleared => processList = order
                        /\ \A t \in Range(order) : tCount[t] = 1
      BY DEF ListsAgree
    <2>1. KCore.pc = "idle"
      BY KernelExecutes
    <2>2. ASSUME NEW i \in DOMAIN order
          PROVE  prev[order[i]] = IF i = 1 THEN order[Len(order)] ELSE order[i - 1]
      <3>1. order # <<>> /\ i \in 1..Len(order)
        BY <2>2, OrderTyped
      <3>2. prev[order[1]] = order[Len(order)]
        BY <2>1, <3>1 DEF IInv, Ring
      <3> QED BY <2>2, <3>1, <3>2 DEF ListBooks
    <2> QED BY <2>1, <2>2 DEF ListBooks, ThreadBooks, ProcessBooks, LinkedPC
  <1> QED BY <1>1, <1>2, <1>3, <1>4, <1>5, ListBooksStep, Invariance, PTL DEF Spec
=============================================================================
