----------------------------- MODULE ProcProofs -----------------------------
(***************************************************************************)
(* Proofs about module Proc, for every number of processes, every set of   *)
(* sleep times and kill targets, with or without application faults.       *)
(*                                                                         *)
(* The scheduler theorems assume MaxProcs <= MaxAttempts + 1: the scan of  *)
(* schedule() must be able to go once round the list.  The code scans 256  *)
(* PCBs and puts no such limit on the list.                                *)
(***************************************************************************)
EXTENDS Proc, TLAPS

USE DEF Slot, Procs, States, Programs, Labels, BootTasks

(* The boot code is the program of process 1: it creates the four tasks, the
   first of them Kernel_Task with pid 1, and then idles. *)
BootInv ==
  /\ pc[1] \in {"create", "store", "link", "bootflag", "bootfocus", "idle"}
  /\ pc[1] # "idle" => boot < 4
  /\ nproc = 0 =>
       /\ boot = 0
       /\ prog[1] = "none"
       /\ pc[1] \in {"create", "store", "link"}
       /\ pc[1] = "create" => next_pid = 1
       /\ pc[1] # "create" => newpid[1] = 1
  /\ nproc > 0 => pid[1] = 1 /\ prog[1] = "kernel"

(* Kernel_Task is always eligible, only the dispatched process is RUNNING or
   holds the CPU, and no PCB is in use before it is linked. *)
CpuInv ==
  /\ nproc > 0 => state[1] \in {"READY", "RUNNING"}
  /\ current_process # 0 => state[current_process] \in {"READY", "RUNNING"}
  /\ \A p \in Slot : state[p] = "RUNNING" => p = current_process
  /\ \A p \in Slot : p > nproc => state[p] = "FREE"

(* Only App_Exec, which is not process 1, executes process_spawn_pending. *)
SpawnLabels == {"poll", "filho", "pai", "parent", "test", "give", "clear", "focus"}

LabelInv == \A p \in Slot : pc[p] \in SpawnLabels => prog[p] = "exec"

(* A process that executed its own exit is a zombie. *)
DeadInv == \A p \in Slot : pc[p] = "dead" => state[p] = "ZOMBIE"
-----------------------------------------------------------------------------

LEMMA OneIsASlot == 1 \in Slot
BY ProcsAssumption

(* A dispatch keeps the types of the CPU variables. *)
LEMMA TimerTypes ==
  ASSUME TypeOK, NEW s \in [Slot -> States], NEW w \in [Slot -> Nat],
         TimerHandler(s, w)
  PROVE  /\ nproc > 0
         /\ current_process' \in 1..nproc
         /\ state' \in [Slot -> States]
         /\ wake' \in [Slot -> Nat]
<1>1. CountDown(s, w) \in [Slot -> Nat]
  BY DEF CountDown
<1>2. Candidates(s, w) \in [Slot -> States]
  BY DEF Candidates, Demote, Awake
<1>3. PICK q \in Procs : current_process' = q /\ state' = [Candidates(s, w) EXCEPT ![q] = "RUNNING"]
  BY DEF TimerHandler
<1>4. nproc > 0 /\ current_process' \in 1..nproc
  BY <1>3 DEF TypeOK
<1>5. state' \in [Slot -> States]
  BY <1>2, <1>3
<1>6. wake' \in [Slot -> Nat]
  BY <1>1 DEF TimerHandler
<1> QED
  BY <1>4, <1>5, <1>6

(* Every step keeps the type invariant. *)
LEMMA TypeStep ==
  ASSUME TypeOK, BootInv, [Next]_vars
  PROVE  TypeOK'
<1> USE OneIsASlot, TicksAssumption DEF TypeOK, Goto, At, SpawnReturns, Fails, Finds,
        listVars, focusVars, cpuVars, pidVars, spawnVars
<1>1. CASE Tick
  <2>1. TimerHandler(state, wake) BY <1>1 DEF Tick
  <2>2. /\ nproc > 0
        /\ current_process' \in 1..nproc
        /\ state' \in [Slot -> States]
        /\ wake' \in [Slot -> Nat]
    BY <2>1, TimerTypes
  <2> QED BY <1>1, <2>2 DEF Tick
<1>2. ASSUME NEW p \in Slot, CreateLoad(p) PROVE TypeOK'
  BY <1>2 DEF CreateLoad
<1>3. ASSUME NEW p \in Slot, CreateStore(p) PROVE TypeOK'
  <2>1. newpid[p] \in Nat BY <1>3
  <2>2. next_pid' \in Nat \ {0} BY <1>3, <2>1 DEF CreateStore
  <2> QED BY <1>3, <2>2 DEF CreateStore
<1>4. ASSUME NEW p \in Slot, CreateLink(p) PROVE TypeOK'
  <2>1. Creates(p) \in {"kernel", "shell", "launcher", "exec", "app"} /\ boot' \in 0..4
    BY <1>4 DEF CreateLink, Creates, BootInv
  <2>2. EntryPoint(Creates(p)) \in Labels
    BY <2>1 DEF EntryPoint
  <2>6. p = 1 => boot \in 0..3
    BY <1>4 DEF CreateLink, BootInv
  <2>7. AfterCreate(p) \in Labels
    <3>1. ASSUME NEW b \in 0..3
          PROVE <<"create", "bootflag", "create", "idle">>[b + 1] \in Labels
      BY <3>1
    <3> QED BY <2>6, <3>1 DEF AfterCreate
  <2>3. nproc' \in 0..MaxProcs /\ current_process' \in 0..nproc' /\ (nproc' # 0 /\ current_process' # 0)
    BY <1>4, ProcsAssumption DEF CreateLink, CurrentAfterLink
  <2>4. pc' \in [Slot -> Labels] /\ prog' \in [Slot -> Programs]
    BY <1>4, <2>1, <2>2, <2>7 DEF CreateLink
  <2>5. newpid' \in [Slot -> Nat] /\ pid' \in [Slot -> Nat] /\ parent_pid' \in [Slot -> Nat]
    BY <1>4, ProcsAssumption DEF CreateLink
  <2>8. state' \in [Slot -> States]
    BY <1>4 DEF CreateLink
  <2>9. /\ UNCHANGED <<focusVars, wake, next_pid, spawnVars, pendente, halted>>
        /\ nproc' = nproc + 1
    BY <1>4 DEF CreateLink
  <2>10. /\ proc_filho' \in 0..nproc' /\ proc_pai' \in 0..nproc'
         /\ foreground_process' \in 0..nproc'
    BY <2>9
  <2> QED BY <2>1, <2>3, <2>4, <2>5, <2>8, <2>9, <2>10
<1>5. ASSUME NEW p \in Slot, CreateFail(p) PROVE TypeOK'
  BY <1>5 DEF CreateFail
<1>6. ASSUME BootFlag PROVE TypeOK'
  BY <1>6 DEF BootFlag
<1>7. ASSUME BootFocus PROVE TypeOK'
  BY <1>7 DEF BootFocus
<1>8. ASSUME NEW p \in Slot, SpawnTake(p) PROVE TypeOK'
  BY <1>8 DEF SpawnTake
<1>9. ASSUME NEW p \in Slot, ElfLoad(p) PROVE TypeOK'
  BY <1>9 DEF ElfLoad
<1>10. ASSUME NEW p \in Slot, SpawnFilho(p) PROVE TypeOK'
  BY <1>10 DEF SpawnFilho
<1>11. ASSUME NEW p \in Slot, SpawnPai(p) PROVE TypeOK'
  <2>1. pc' \in [Slot -> Labels] /\ pid_do_pai' \in Nat /\ proc_filho' \in 0..nproc /\ proc_pai' \in 0..nproc
    <3>1. PICK q \in 0..nproc :
            \/ proc_filho # 0 /\ Goto(p, "parent") /\ proc_pai' = q
                              /\ UNCHANGED <<pid_do_pai, proc_filho>>
            \/ proc_filho = 0 /\ Goto(p, "poll") /\ SpawnReturns
      BY <1>11 DEF SpawnPai
    <3>2. pc' \in [Slot -> Labels]
      BY <3>1 DEF Labels
    <3>3. pid_do_pai' \in Nat /\ proc_filho' \in 0..nproc /\ proc_pai' \in 0..nproc
      BY <3>1
    <3> QED BY <3>2, <3>3
  <2> QED BY <1>11, <2>1 DEF SpawnPai
<1>12. ASSUME NEW p \in Slot, SpawnParent(p) PROVE TypeOK'
  BY <1>12 DEF SpawnParent
<1>13. ASSUME NEW p \in Slot, SpawnTest(p) PROVE TypeOK'
  BY <1>13 DEF SpawnTest
<1>14. ASSUME NEW p \in Slot, SpawnGive(p) PROVE TypeOK'
  BY <1>14 DEF SpawnGive
<1>15. ASSUME NEW p \in Slot, SpawnClear(p) PROVE TypeOK'
  BY <1>15 DEF SpawnClear
<1>16. ASSUME NEW p \in Slot, SpawnFocus(p) PROVE TypeOK'
  BY <1>16 DEF SpawnFocus
<1>17. ASSUME NEW p \in Slot, ReturnPoint(p) PROVE TypeOK'
  BY <1>17 DEF ReturnPoint
<1>18. ASSUME NEW p \in Slot, ShellCheck(p) PROVE TypeOK'
  BY <1>18 DEF ShellCheck
<1>19. ASSUME NEW p \in Slot, NEW k \in Nat, SysSleep(p, k), pc' \in [Slot -> Labels]
       PROVE TypeOK'
  <2>1. [state EXCEPT ![p] = "SLEEPING"] \in [Slot -> States] /\ [wake EXCEPT ![p] = k] \in [Slot -> Nat]
    OBVIOUS
  <2>2. TimerHandler([state EXCEPT ![p] = "SLEEPING"], [wake EXCEPT ![p] = k])
    BY <1>19 DEF SysSleep
  <2>3. /\ current_process' \in 1..nproc
        /\ state' \in [Slot -> States]
        /\ wake' \in [Slot -> Nat]
    BY <2>1, <2>2, TimerTypes
  <2> QED BY <1>19, <2>3 DEF SysSleep
<1>20. ASSUME NEW p \in Slot, SysExec(p), pc' \in [Slot -> Labels] PROVE TypeOK'
  BY <1>20 DEF SysExec
<1>21. ASSUME NEW t \in Slot, FocusBack(t)
       PROVE is_foreground' \in [Slot -> BOOLEAN] /\ foreground_process' \in 0..nproc
  BY <1>21 DEF FocusBack
<1>22. ASSUME NEW p \in Slot, NEW x \in Nat, KillOther(p, x), pc' \in [Slot -> Labels]
       PROVE TypeOK'
  <2>1. PICK t \in Procs : state' = [state EXCEPT ![t] = "ZOMBIE"] /\ FocusBack(t)
    BY <1>22 DEF KillOther
  <2>2. t \in Slot BY ProcsAssumption
  <2> QED BY <1>22, <2>1, <2>2, <1>21 DEF KillOther
<1>23. ASSUME NEW p \in Slot, SysExit(p) \/ (\E x \in KillTargets : KillSelf(p, x))
       PROVE TypeOK'
  <2>1. [state EXCEPT ![p] = "ZOMBIE"] \in [Slot -> States]
    OBVIOUS
  <2>2. /\ TimerHandler([state EXCEPT ![p] = "ZOMBIE"], wake)
        /\ FocusBack(p) /\ Goto(p, "dead")
        /\ UNCHANGED <<listVars, pidVars, spawnVars, parent_pid, pendente, halted>>
    BY <1>23 DEF SysExit, KillSelf
  <2>3. /\ current_process' \in 1..nproc
        /\ state' \in [Slot -> States]
        /\ wake' \in [Slot -> Nat]
    BY <2>1, <2>2, TimerTypes
  <2> QED BY <2>2, <2>3, <1>21
<1>24. ASSUME NEW p \in Slot, ShellNoKey(p) \/ ShellExec(p) \/ ShellKill(p) PROVE TypeOK'
  <2>1. pc' \in [Slot -> Labels] BY <1>24 DEF ShellNoKey, ShellExec, ShellKill
  <2> QED BY <1>24, <2>1, <1>19, <1>20, <1>22, KillAssumption DEF ShellNoKey, ShellExec, ShellKill
<1>25. ASSUME NEW p \in Slot, AppStep(p) PROVE TypeOK'
  <2>1. CASE AppFault(p) BY <2>1 DEF AppFault
  <2>2. CASE AppExec(p) BY <2>2, <1>20 DEF AppExec
  <2>3. CASE AppSleep(p) BY <2>3, <1>19 DEF AppSleep
  <2>4. CASE SysExit(p) BY <2>4, <1>23
  <2>5. CASE AppKill(p) BY <2>5, <1>22, <1>23, KillAssumption DEF AppKill
  <2> QED BY <1>25, <2>1, <2>2, <2>3, <2>4, <2>5 DEF AppStep
<1>26. CASE UNCHANGED vars
  BY <1>26 DEF vars
<1>27. ASSUME NEW p \in Slot, KernelStep(p) PROVE TypeOK'
  BY <1>27, <1>2, <1>3, <1>4, <1>5, <1>6, <1>7, <1>8, <1>9, <1>10, <1>11, <1>12, <1>13,
     <1>14, <1>15, <1>16, <1>17, <1>18, <1>24 DEF KernelStep
<1> QED BY <1>1, <1>25, <1>26, <1>27 DEF Next, HaltLoop

(* Process 1 is the boot code before it is anything else, and no other process
   writes its variables. *)
LEMMA BootStep ==
  ASSUME TypeOK, BootInv, [Next]_vars
  PROVE  BootInv'
<1> USE OneIsASlot DEF Goto, At, SpawnReturns, Fails, listVars, focusVars, cpuVars, pidVars, spawnVars
<1> DEFINE Same == /\ nproc' = nproc /\ boot' = boot /\ next_pid' = next_pid
                   /\ prog'[1] = prog[1] /\ pid'[1] = pid[1]
                   /\ pc'[1] = pc[1] /\ newpid'[1] = newpid[1]
<1>0. Same => BootInv'
  BY DEF BootInv
<1>1. \A p \in Slot : \A l \in Labels :
        At(p, l) => /\ p # 1 => nproc > 0
                    /\ l \notin {"create", "store", "link", "bootflag", "bootfocus", "idle"} => p # 1
                    /\ IsCreator(p) => p # 1
  BY DEF TypeOK, BootInv, IsCreator
<1>2. ASSUME NEW p \in Slot, CreateLoad(p) PROVE BootInv'
  <2>1. CASE p = 1 BY <1>2, <2>1 DEF CreateLoad, TypeOK, BootInv
  <2>2. CASE p # 1 BY <1>0, <1>1, <1>2, <2>2 DEF CreateLoad, TypeOK
  <2> QED BY <2>1, <2>2
<1>3. ASSUME NEW p \in Slot, CreateStore(p) PROVE BootInv'
  <2>1. CASE p = 1 BY <1>3, <2>1 DEF CreateStore, TypeOK, BootInv
  <2>2. CASE p # 1 BY <1>1, <1>3, <2>2 DEF CreateStore, TypeOK, BootInv
  <2> QED BY <2>1, <2>2
<1>4. ASSUME NEW p \in Slot, CreateLink(p) PROVE BootInv'
  <2>1. nproc' = nproc + 1 /\ nproc \in Nat /\ nproc + 1 \in Slot
    BY <1>4, ProcsAssumption DEF CreateLink, TypeOK
  <2>2. CASE p = 1
    <3>1. boot \in 0..3 /\ boot' = boot + 1
      BY <1>4, <2>2 DEF CreateLink, TypeOK, BootInv
    <3>2. pc'[1] = AfterCreate(1) /\ AfterCreate(1) = <<"create", "bootflag", "create", "idle">>[boot + 1]
      BY <1>4, <2>2 DEF CreateLink, AfterCreate, TypeOK
    <3>3. CASE nproc = 0
      <4>1. boot = 0 /\ newpid[1] = 1 /\ Creates(1) = "kernel"
        BY <1>4, <2>2, <3>3 DEF CreateLink, BootInv, Creates
      <4>2. pid'[1] = 1 /\ prog'[1] = "kernel"
        BY <1>4, <2>1, <2>2, <3>3, <4>1 DEF CreateLink, TypeOK
      <4> QED BY <2>1, <3>1, <3>2, <4>1, <4>2 DEF BootInv
    <3>4. CASE nproc > 0
      <4>1. pid'[1] = 1 /\ prog'[1] = "kernel"
        BY <1>4, <2>1, <2>2, <3>4 DEF CreateLink, TypeOK, BootInv
      <4> QED BY <2>1, <3>1, <3>2, <4>1 DEF BootInv
    <3> QED BY <2>1, <3>3, <3>4
  <2>3. CASE p # 1
    <3>1. nproc > 0 /\ pc'[1] = pc[1] /\ boot' = boot /\ pid'[1] = pid[1] /\ prog'[1] = prog[1]
      BY <1>1, <1>4, <2>1, <2>3 DEF CreateLink, TypeOK
    <3> QED BY <2>1, <3>1 DEF BootInv
  <2> QED BY <2>2, <2>3
<1>5. ASSUME NEW p \in Slot, CreateFail(p) PROVE BootInv'
  BY <1>0, <1>1, <1>5 DEF CreateFail, TypeOK
<1>6. CASE BootFlag
  BY <1>6 DEF BootFlag, TypeOK, BootInv
<1>7. CASE BootFocus
  BY <1>7 DEF BootFocus, TypeOK, BootInv
<1> DEFINE Leaves(p) == /\ nproc' = nproc /\ boot' = boot /\ next_pid' = next_pid
                        /\ prog' = prog /\ pid' = pid
                        /\ newpid'[1] = newpid[1]
                        /\ pc' = pc \/ \E l \in Labels : pc' = [pc EXCEPT ![p] = l]
<1>13. ASSUME NEW p \in Slot, p # 1, Leaves(p) PROVE BootInv'
  <2>1. pc'[1] = pc[1]
    BY <1>13 DEF TypeOK
  <2> QED BY <1>0, <1>13, <2>1
<1>8. ASSUME NEW p \in Slot,
             \/ SpawnTake(p) \/ ElfLoad(p) \/ SpawnFilho(p) \/ SpawnPai(p) \/ SpawnParent(p)
             \/ SpawnTest(p) \/ SpawnGive(p) \/ SpawnClear(p) \/ SpawnFocus(p)
             \/ ReturnPoint(p) \/ ShellCheck(p)
      PROVE  BootInv'
  <2>1. p # 1
    BY <1>8 DEF SpawnTake, ElfLoad, SpawnFilho, SpawnPai, SpawnParent, SpawnTest,
       SpawnGive, SpawnClear, SpawnFocus, ReturnPoint, ShellCheck, BootInv
  <2>2. CASE SpawnFilho(p)
    <3>1. newpid'[1] = newpid[1] BY <2>1, <2>2 DEF SpawnFilho, TypeOK
    <3>2. Leaves(p) BY <2>2, <3>1 DEF SpawnFilho, Labels
    <3> QED BY <1>13, <2>1, <3>2
  <2>3. CASE \/ SpawnTake(p) \/ ElfLoad(p) \/ SpawnPai(p) \/ SpawnParent(p)
             \/ SpawnTest(p) \/ SpawnGive(p) \/ SpawnClear(p) \/ SpawnFocus(p)
             \/ ReturnPoint(p) \/ ShellCheck(p)
    <3>1. Leaves(p)
      BY <2>3 DEF SpawnTake, ElfLoad, SpawnPai, SpawnParent, SpawnTest,
         SpawnGive, SpawnClear, SpawnFocus, ReturnPoint, ShellCheck, Labels
    <3> QED BY <1>13, <2>1, <3>1
  <2> QED BY <1>8, <2>2, <2>3
<1>9. ASSUME NEW p \in Slot, ShellNoKey(p) \/ ShellExec(p) \/ ShellKill(p) PROVE BootInv'
  <2>1. p # 1
    BY <1>9 DEF ShellNoKey, ShellExec, ShellKill, BootInv
  <2>2. Leaves(p)
    BY <1>9 DEF ShellNoKey, ShellExec, ShellKill, SysSleep, SysExec, KillOther, Labels
  <2> QED BY <1>13, <2>1, <2>2
<1>10. ASSUME NEW p \in Slot, AppStep(p) PROVE BootInv'
  <2>1. p # 1
    BY <1>10 DEF AppStep, AppExec, AppSleep, AppKill, AppFault, SysExit, KillSelf, BootInv
  <2>2. Leaves(p)
    BY <1>10 DEF AppStep, AppExec, AppSleep, AppKill, AppFault, SysExit, SysSleep,
       SysExec, KillOther, KillSelf, Labels
  <2> QED BY <1>13, <2>1, <2>2
<1>11. CASE Tick
  BY <1>0, <1>11 DEF Tick
<1>12. CASE UNCHANGED vars
  BY <1>0, <1>12 DEF vars
<1> QED
  BY <1>2, <1>3, <1>4, <1>5, <1>6, <1>7, <1>8, <1>9, <1>10, <1>11, <1>12 DEF Next, KernelStep, HaltLoop

(* A label of process_spawn_pending is reached only from another one of them. *)
LEMMA LabelStep ==
  ASSUME TypeOK, BootInv, LabelInv, [Next]_vars
  PROVE  LabelInv'
<1> USE OneIsASlot DEF Goto, At, SpawnReturns, Fails, listVars, SpawnLabels
<1> DEFINE Stays(p) == /\ prog' = prog
                       /\ \/ pc' = pc
                          \/ \E l \in Labels : Goto(p, l) /\ (l \in SpawnLabels => prog[p] = "exec")
<1>0. ASSUME NEW p \in Slot, Stays(p) PROVE LabelInv'
  <2>1. CASE pc' = pc
    BY <1>0, <2>1 DEF LabelInv
  <2>2. CASE pc' # pc
    <3>1. PICK l \in Labels : Goto(p, l) /\ (l \in SpawnLabels => prog[p] = "exec")
      BY <1>0, <2>2
    <3>2. \A r \in Slot : pc'[r] = IF r = p THEN l ELSE pc[r]
      BY <3>1 DEF TypeOK
    <3> QED BY <1>0, <3>1, <3>2 DEF LabelInv
  <2> QED BY <2>1, <2>2
<1>1. ASSUME NEW p \in Slot, CreateLink(p) PROVE LabelInv'
  <2>1. nproc + 1 \in Slot
    BY <1>1, ProcsAssumption DEF CreateLink, TypeOK
  <2>2. p = 1 => boot \in 0..3
    BY <1>1 DEF CreateLink, TypeOK, BootInv
  <2>3. p # 1 => p \in Procs
    BY <1>1 DEF CreateLink, TypeOK
  <2>4. AfterCreate(p) \in SpawnLabels => p # 1 /\ prog[p] = "exec"
    <3>1. \A b \in 0..3 : <<"create", "bootflag", "create", "idle">>[b + 1] \notin SpawnLabels
      OBVIOUS
    <3> QED BY <2>2, <3>1 DEF AfterCreate
  <2>5. EntryPoint(Creates(p)) \in SpawnLabels => Creates(p) = "exec"
    <3>1. Creates(p) \in {"kernel", "shell", "launcher", "exec", "app"}
      BY <2>2 DEF Creates
    <3> QED BY <3>1 DEF EntryPoint
  <2>6. /\ prog' = [prog EXCEPT ![nproc + 1] = Creates(p)]
        /\ pc' = [pc EXCEPT ![nproc + 1] = EntryPoint(Creates(p)), ![p] = AfterCreate(p)]
    BY <1>1 DEF CreateLink
  <2> QED BY <2>1, <2>3, <2>4, <2>5, <2>6 DEF LabelInv, TypeOK
<1>2. ASSUME NEW p \in Slot,
             \/ CreateLoad(p) \/ CreateStore(p) \/ CreateFail(p) \/ SpawnTake(p) \/ ElfLoad(p)
             \/ SpawnFilho(p) \/ SpawnPai(p) \/ SpawnParent(p) \/ SpawnTest(p) \/ SpawnGive(p)
             \/ SpawnClear(p) \/ SpawnFocus(p) \/ ReturnPoint(p) \/ ShellCheck(p)
      PROVE  LabelInv'
  <2>1. Stays(p)
    BY <1>2 DEF CreateLoad, CreateStore, CreateFail, SpawnTake, ElfLoad, SpawnFilho, SpawnPai,
       SpawnParent, SpawnTest, SpawnGive, SpawnClear, SpawnFocus, ReturnPoint, ShellCheck, LabelInv
  <2> QED BY <1>0, <2>1
<1>3. CASE BootFlag \/ BootFocus
  <2>1. Stays(1) BY <1>3 DEF BootFlag, BootFocus
  <2> QED BY <1>0, <2>1
<1>4. ASSUME NEW p \in Slot, ShellNoKey(p) \/ ShellExec(p) \/ ShellKill(p) PROVE LabelInv'
  <2>1. Stays(p)
    BY <1>4 DEF ShellNoKey, ShellExec, ShellKill, SysSleep, SysExec, KillOther
  <2> QED BY <1>0, <2>1
<1>5. ASSUME NEW p \in Slot, AppStep(p) PROVE LabelInv'
  <2>1. Stays(p)
    BY <1>5 DEF AppStep, AppExec, AppSleep, AppKill, AppFault, SysExit, SysSleep,
       SysExec, KillOther, KillSelf
  <2> QED BY <1>0, <2>1
<1>6. CASE Tick
  <2>1. Stays(1) BY <1>6 DEF Tick
  <2> QED BY <1>0, <2>1
<1>7. CASE UNCHANGED vars
  <2>1. Stays(1) BY <1>7 DEF vars
  <2> QED BY <1>0, <2>1
<1> QED
  BY <1>1, <1>2, <1>3, <1>4, <1>5, <1>6, <1>7 DEF Next, KernelStep, HaltLoop
-----------------------------------------------------------------------------
(* The scheduler *)

(* What code may hand to the scheduler: Kernel_Task is eligible, nobody but the
   current process is RUNNING, and unlinked PCBs are not in use. *)
Handover(s) ==
  /\ s[1] \in {"READY", "RUNNING"}
  /\ \A p \in Slot : s[p] = "RUNNING" => p = current_process
  /\ \A p \in Slot : p > nproc => s[p] = "FREE"

(* The states c differ from s only in due sleepers, which are READY, and in the
   current process, which is READY if it was RUNNING. *)
OnlyReadied(c, s, w) ==
  /\ c \in [Slot -> States]
  /\ \A p \in Slot :
       /\ c[p] # s[p] =>
            /\ c[p] = "READY"
            /\ (s[p] = "SLEEPING" /\ w[p] <= 1) \/ (s[p] = "RUNNING" /\ p = current_process)
       /\ s[p] = "RUNNING" /\ p = current_process => c[p] = "READY"

(* The candidates of schedule() differ so from what was handed over. *)
LEMMA CandidateStates ==
  ASSUME NEW s \in [Slot -> States], NEW w \in [Slot -> Nat]
  PROVE  OnlyReadied(Candidates(s, w), s, w)
<1> DEFINE a == Awake(s, CountDown(s, w))
           c == Candidates(s, w)
<1>1. a \in [Slot -> States]
  BY DEF Awake
<1>2. c = [a EXCEPT ![current_process] = IF @ = "RUNNING" THEN "READY" ELSE @]
  BY DEF Candidates, Demote
<1>3. ASSUME NEW p \in Slot
      PROVE  \/ a[p] = s[p]
             \/ a[p] = "READY" /\ s[p] = "SLEEPING" /\ w[p] <= 1
  <2>1. CountDown(s, w)[p] = IF s[p] = "SLEEPING" /\ w[p] > 0 THEN w[p] - 1 ELSE 0
    BY DEF CountDown
  <2>2. a[p] = IF p \in Procs /\ s[p] = "SLEEPING" /\ CountDown(s, w)[p] = 0 THEN "READY" ELSE s[p]
    BY DEF Awake
  <2>3. w[p] \in Nat
    OBVIOUS
  <2> HIDE DEF a
  <2> QED BY <2>1, <2>2, <2>3
<1> HIDE DEF a, c
<1>4. c \in [Slot -> States]
  BY <1>1, <1>2
<1>5. \A p \in Slot : c[p] = IF p = current_process /\ a[p] = "RUNNING" THEN "READY" ELSE a[p]
  BY <1>1, <1>2
<1>6. \A p \in Slot : /\ c[p] # s[p] =>
                          /\ c[p] = "READY"
                          /\ (s[p] = "SLEEPING" /\ w[p] <= 1) \/ (s[p] = "RUNNING" /\ p = current_process)
                      /\ s[p] = "RUNNING" /\ p = current_process => c[p] = "READY"
  BY <1>3, <1>5
<1> QED BY <1>4, <1>6 DEF c, OnlyReadied

(* When the scan may go once round the list, schedule() dispatches a process
   that was READY, never the head of the list for want of a better one. *)
LEMMA DispatchesReady ==
  ASSUME MaxProcs <= MaxAttempts + 1, TypeOK, nproc > 0,
         NEW s \in [Slot -> States], NEW w \in [Slot -> Nat], Handover(s),
         NEW q \in Procs, Selects(Candidates(s, w), q)
  PROVE  /\ Candidates(s, w)[q] = "READY"
         /\ Handover(Candidates(s, w))
         /\ \A p \in Slot : Candidates(s, w)[p] # "RUNNING"
         /\ \A p \in Slot : s[p] \in {"ZOMBIE", "FREE"} => Candidates(s, w)[p] = s[p]
<1> DEFINE c == Candidates(s, w)
<1>0. OnlyReadied(c, s, w)
  BY CandidateStates
<1> HIDE DEF c
<1>1. \A p \in Slot :
         /\ c[p] # s[p] =>
              /\ c[p] = "READY"
              /\ s[p] = "SLEEPING" \/ (s[p] = "RUNNING" /\ p = current_process)
         /\ s[p] = "RUNNING" /\ p = current_process => c[p] = "READY"
  BY <1>0 DEF OnlyReadied
<1>2. \A p \in Slot : c[p] # "RUNNING"
  BY <1>1 DEF Handover
<1>3. \A p \in Slot : s[p] \in {"ZOMBIE", "FREE"} => c[p] = s[p]
  BY <1>1
<1>4. c[1] = "READY"
  BY <1>1, <1>2, OneIsASlot DEF Handover
<1>5. Distance(1) \in Nat /\ Distance(1) <= nproc - 1 /\ nproc <= MaxProcs
  BY ProcsAssumption DEF Distance, TypeOK
<1>6. 1 \in Reachable(c)
  <2>1. 1 \in Procs /\ nproc \in Nat
    BY DEF TypeOK
  <2> QED BY <1>4, <1>5, <2>1, ProcsAssumption, AttemptAssumption DEF Reachable
<1>7. c[q] = "READY"
  <2>1. q \in Reachable(c)
    BY <1>6 DEF Selects, c
  <2> QED BY <2>1 DEF Reachable
<1>8. Handover(c)
  BY <1>2, <1>3, <1>4 DEF Handover
<1> QED BY <1>2, <1>3, <1>7, <1>8 DEF c

(* A dispatch keeps the scheduler's invariant, revives no dead process and wakes
   no sleeper early. *)
LEMMA TimerCpu ==
  ASSUME MaxProcs <= MaxAttempts + 1, TypeOK, nproc' = nproc,
         NEW s \in [Slot -> States], NEW w \in [Slot -> Nat], Handover(s),
         TimerHandler(s, w)
  PROVE  /\ CpuInv'
         /\ \A p \in Slot : s[p] = "ZOMBIE" => state'[p] = "ZOMBIE"
         /\ \A p \in Slot : s[p] = "SLEEPING" /\ state'[p] \in {"READY", "RUNNING"} => w[p] <= 1
<1> DEFINE c == Candidates(s, w)
<1>1. PICK q \in Procs : /\ Selects(c, q)
                         /\ current_process' = q
                         /\ state' = [c EXCEPT ![q] = "RUNNING"]
  BY DEF TimerHandler
<1>2. nproc > 0 /\ q \in Slot
  BY <1>1, ProcsAssumption DEF TypeOK
<1>3. /\ c[q] = "READY" /\ Handover(c)
      /\ \A p \in Slot : c[p] # "RUNNING"
      /\ \A p \in Slot : s[p] \in {"ZOMBIE", "FREE"} => c[p] = s[p]
  <2> HIDE DEF Handover
  <2> QED BY <1>1, <1>2, DispatchesReady
<1>4. /\ c \in [Slot -> States]
      /\ \A p \in Slot : s[p] = "SLEEPING" /\ c[p] = "READY" => w[p] <= 1
  <2>1. OnlyReadied(c, s, w)
    BY CandidateStates
  <2> HIDE DEF c
  <2> QED BY <2>1 DEF OnlyReadied
<1> HIDE DEF c
<1> QED
  BY <1>1, <1>2, <1>3, <1>4 DEF CpuInv, Handover

(* What a step does to the states of processes, with the scheduler's invariant. *)
LEMMA CpuStep ==
  ASSUME MaxProcs <= MaxAttempts + 1, TypeOK, BootInv, CpuInv, [Next]_vars
  PROVE  /\ CpuInv'
         /\ \A p \in Slot : state[p] = "ZOMBIE" => state'[p] = "ZOMBIE"
         /\ \A p \in Slot : state[p] = "SLEEPING" /\ state'[p] \in {"READY", "RUNNING"}
                            => wake[p] <= 1
<1> DEFINE Good == /\ CpuInv'
                   /\ \A p \in Slot : state[p] = "ZOMBIE" => state'[p] = "ZOMBIE"
                   /\ \A p \in Slot : state[p] = "SLEEPING" /\ state'[p] \in {"READY", "RUNNING"}
                                      => wake[p] <= 1
<1> USE OneIsASlot, ProcsAssumption DEF Goto, At, listVars, cpuVars
<1>0. ASSUME UNCHANGED <<nproc, current_process, state>> PROVE Good
  BY <1>0 DEF CpuInv, TypeOK
<1>1. nproc > 0 => Handover(state)
  BY DEF Handover, CpuInv, TypeOK
(* A process that gives the CPU up, sleeping or dying. *)
<1>2. ASSUME NEW p \in Slot, pc[p] \in {"run", "key"}, p = (IF current_process = 0 THEN 1 ELSE current_process),
             NEW st \in {"SLEEPING", "ZOMBIE"}, NEW w \in [Slot -> Nat],
             \A r \in Slot : r # p => w[r] = wake[r],
             TimerHandler([state EXCEPT ![p] = st], w), nproc' = nproc
      PROVE  Good
  <2>1. p # 1 /\ p = current_process /\ nproc > 0 /\ p \in Procs
    BY <1>2 DEF BootInv, TypeOK
  <2>2. [state EXCEPT ![p] = st] \in [Slot -> States]
    BY DEF TypeOK
  <2>3. Handover([state EXCEPT ![p] = st])
    BY <1>1, <2>1 DEF Handover, TypeOK
  <2>4. state[p] \in {"READY", "RUNNING"}
    BY <2>1 DEF CpuInv
  <2>5. \A r \in Slot : r # p => [state EXCEPT ![p] = st][r] = state[r]
    BY DEF TypeOK
  <2>6. /\ CpuInv'
        /\ \A r \in Slot : [state EXCEPT ![p] = st][r] = "ZOMBIE" => state'[r] = "ZOMBIE"
        /\ \A r \in Slot : /\ [state EXCEPT ![p] = st][r] = "SLEEPING"
                            /\ state'[r] \in {"READY", "RUNNING"} => w[r] <= 1
    BY <1>2, <2>1, <2>2, <2>3, TimerCpu
  <2> HIDE DEF Handover, CpuInv
  <2> QED BY <1>2, <2>4, <2>5, <2>6
<1>3. ASSUME NEW p \in Slot, pc[p] \in {"run", "key"}, p = (IF current_process = 0 THEN 1 ELSE current_process),
             NEW x \in Nat, KillOther(p, x)
      PROVE  Good
  <2>1. PICK t \in Procs : /\ Finds(x, t)
                           /\ t # p
                           /\ state' = [state EXCEPT ![t] = "ZOMBIE"]
    BY <1>3 DEF KillOther
  <2>2. nproc \in Nat /\ t \in 1..nproc
    BY DEF TypeOK
  <2>3. pid[t] = x
    BY <2>1, <2>2 DEF Finds
  <2>4. x > 3
    BY <1>3 DEF KillOther
  <2>5. pid[t] = x /\ x > 3 /\ t # p /\ state' = [state EXCEPT ![t] = "ZOMBIE"]
    BY <2>1, <2>3, <2>4
  <2>6. p # 1 /\ p = current_process /\ t # 1 /\ t \in Slot
    <3>1. p # 1
      BY <1>3 DEF BootInv
    <3>2. t # 1
      BY <2>2, <2>3, <2>4 DEF BootInv
    <3>3. t \in Slot
      BY <2>2 DEF TypeOK
    <3> QED BY <1>3, <3>1, <3>2, <3>3
  <2>7. current_process' = current_process /\ nproc' = nproc
    BY <1>3 DEF KillOther
  <2>8. \A r \in Slot : r # t => state'[r] = state[r]
    BY <2>5, <2>6 DEF TypeOK
  <2>9. state'[t] = "ZOMBIE"
    BY <2>5, <2>6 DEF TypeOK
  <2>10. state[p] \in {"READY", "RUNNING"} /\ p \in Slot /\ p # t
    BY <2>5, <2>6 DEF CpuInv, TypeOK
  <2>11. \A r \in Slot : state'[r] = "RUNNING" => r = current_process
    BY <2>8, <2>9 DEF CpuInv
  <2>12. \A r \in Slot : r > nproc => state'[r] = "FREE"
    <3>1. \A r \in Slot : r > nproc => r # t
      BY <2>2
    <3> QED BY <2>8, <3>1 DEF CpuInv
  <2>13. CpuInv'
    BY <2>6, <2>7, <2>8, <2>10, <2>11, <2>12 DEF CpuInv, TypeOK
  <2> QED BY <2>8, <2>9, <2>13
<1>4. CASE Tick
  <2>1. nproc > 0 /\ nproc' = nproc /\ TimerHandler(state, wake)
    BY <1>4 DEF Tick
  <2>2. state \in [Slot -> States] /\ wake \in [Slot -> Nat]
    BY DEF TypeOK
  <2> QED BY <1>1, <2>1, <2>2, TimerCpu
<1>5. ASSUME NEW p \in Slot, CreateLink(p) PROVE Good
  <2>1. /\ nproc' = nproc + 1 /\ nproc + 1 \in Slot
        /\ state' = [state EXCEPT ![nproc + 1] = "READY"]
        /\ current_process' = IF current_process = 0 THEN nproc + 1 ELSE current_process
    BY <1>5 DEF CreateLink, CurrentAfterLink, TypeOK
  <2>2. state[nproc + 1] = "FREE"
    BY <2>1 DEF CpuInv, TypeOK
  <2>3. /\ state'[nproc + 1] = "READY"
        /\ \A r \in Slot : r # nproc + 1 => state'[r] = state[r]
    BY <2>1 DEF TypeOK
  <2>5. nproc \in Nat /\ current_process \in 0..nproc /\ (nproc = 0 <=> current_process = 0)
    BY DEF TypeOK
  <2>6. nproc' > 0 => state'[1] \in {"READY", "RUNNING"}
    BY <2>3, <2>5 DEF CpuInv
  <2>7. current_process' # 0 => state'[current_process'] \in {"READY", "RUNNING"}
    BY <2>1, <2>3, <2>5 DEF CpuInv
  <2>8. \A r \in Slot : state'[r] = "RUNNING" => r = current_process'
    BY <2>1, <2>3, <2>5 DEF CpuInv
  <2>9. \A r \in Slot : r > nproc' => state'[r] = "FREE"
    <3>1. \A r \in Slot : r > nproc' => r # nproc + 1 /\ r > nproc
      BY <2>1, <2>5
    <3> QED BY <2>3, <3>1 DEF CpuInv
  <2>4. CpuInv'
    BY <2>6, <2>7, <2>8, <2>9 DEF CpuInv
  <2> QED BY <2>2, <2>3, <2>4
<1>6. ASSUME NEW p \in Slot,
             \/ CreateLoad(p) \/ CreateStore(p) \/ CreateFail(p) \/ SpawnTake(p) \/ ElfLoad(p)
             \/ SpawnFilho(p) \/ SpawnPai(p) \/ SpawnParent(p) \/ SpawnTest(p) \/ SpawnGive(p)
             \/ SpawnClear(p) \/ SpawnFocus(p) \/ ReturnPoint(p) \/ ShellCheck(p)
             \/ BootFlag \/ BootFocus
      PROVE  Good
  BY <1>0, <1>6 DEF CreateLoad, CreateStore, CreateFail, SpawnTake, ElfLoad, SpawnFilho, SpawnPai,
     SpawnParent, SpawnTest, SpawnGive, SpawnClear, SpawnFocus, ReturnPoint, ShellCheck,
     BootFlag, BootFocus
<1>7. ASSUME NEW p \in Slot, pc[p] \in {"run", "key"}, p = (IF current_process = 0 THEN 1 ELSE current_process),
             NEW k \in Nat, SysSleep(p, k)
      PROVE  Good
  <2>1. /\ [wake EXCEPT ![p] = k] \in [Slot -> Nat]
        /\ \A r \in Slot : r # p => [wake EXCEPT ![p] = k][r] = wake[r]
    BY DEF TypeOK
  <2>2. nproc' = nproc /\ TimerHandler([state EXCEPT ![p] = "SLEEPING"], [wake EXCEPT ![p] = k])
    BY <1>7 DEF SysSleep
  <2> QED BY <1>2, <1>7, <2>1, <2>2
<1>8. ASSUME NEW p \in Slot, SysExit(p) \/ \E x \in KillTargets : KillSelf(p, x)
      PROVE  Good
  <2>1. wake \in [Slot -> Nat]
    BY DEF TypeOK
  <2>2. /\ nproc' = nproc /\ TimerHandler([state EXCEPT ![p] = "ZOMBIE"], wake)
        /\ pc[p] = "run" /\ p = (IF current_process = 0 THEN 1 ELSE current_process)
    BY <1>8 DEF SysExit, KillSelf
  <2> QED BY <1>2, <2>1, <2>2
<1>9. ASSUME NEW p \in Slot, ShellNoKey(p) \/ ShellExec(p) \/ ShellKill(p) PROVE Good
  <2>1. pc[p] \in {"run", "key"} /\ p = (IF current_process = 0 THEN 1 ELSE current_process)
    BY <1>9 DEF ShellNoKey, ShellExec, ShellKill
  <2>2. CASE ShellNoKey(p) BY <1>7, <2>1, <2>2, TicksAssumption DEF ShellNoKey
  <2>3. CASE ShellExec(p) BY <1>0, <2>3 DEF ShellExec, SysExec
  <2>4. CASE ShellKill(p) BY <1>3, <2>1, <2>4, KillAssumption DEF ShellKill
  <2> QED BY <1>9, <2>2, <2>3, <2>4
<1>10. ASSUME NEW p \in Slot, AppStep(p) PROVE Good
  <2>1. CASE AppExec(p) BY <1>0, <2>1 DEF AppExec, SysExec
  <2>2. CASE AppSleep(p) BY <1>7, <2>2, TicksAssumption DEF AppSleep
  <2>3. CASE SysExit(p) BY <1>8, <2>3
  <2>4. CASE AppKill(p) BY <1>3, <1>8, <2>4, KillAssumption DEF AppKill
  <2>5. CASE AppFault(p) BY <1>0, <2>5 DEF AppFault
  <2> QED BY <1>10, <2>1, <2>2, <2>3, <2>4, <2>5 DEF AppStep
<1>11. CASE UNCHANGED vars
  BY <1>0, <1>11 DEF vars
<1> QED
  BY <1>4, <1>5, <1>6, <1>9, <1>10, <1>11 DEF Next, KernelStep, HaltLoop

(* Only an exit leads to the label after it, and it leaves a zombie behind. *)
LEMMA DeadStep ==
  ASSUME MaxProcs <= MaxAttempts + 1, TypeOK, BootInv, CpuInv, DeadInv, [Next]_vars
  PROVE  DeadInv'
<1> USE OneIsASlot, ProcsAssumption DEF Goto, At, Fails, listVars
<1> DEFINE Stays(p) == \/ pc' = pc
                       \/ \E l \in Labels \ {"dead"} : Goto(p, l)
<1>1. \A p \in Slot : state[p] = "ZOMBIE" => state'[p] = "ZOMBIE"
  BY CpuStep
<1>2. ASSUME NEW p \in Slot, Stays(p) PROVE DeadInv'
  BY <1>1, <1>2 DEF DeadInv, TypeOK
<1>3. ASSUME NEW p \in Slot, SysExit(p) \/ \E x \in KillTargets : KillSelf(p, x)
      PROVE  DeadInv'
  <2>1. /\ nproc' = nproc /\ TimerHandler([state EXCEPT ![p] = "ZOMBIE"], wake)
        /\ pc[p] = "run" /\ p = (IF current_process = 0 THEN 1 ELSE current_process)
        /\ pc' = [pc EXCEPT ![p] = "dead"]
    BY <1>3 DEF SysExit, KillSelf
  <2>2. p # 1 /\ p = current_process /\ nproc > 0
    BY <2>1 DEF BootInv, TypeOK
  <2>3. [state EXCEPT ![p] = "ZOMBIE"] \in [Slot -> States] /\ wake \in [Slot -> Nat]
    BY DEF TypeOK
  <2>7. \A r \in Slot : [state EXCEPT ![p] = "ZOMBIE"][r] = IF r = p THEN "ZOMBIE" ELSE state[r]
    BY DEF TypeOK
  <2>8. p <= nproc
    BY <2>2 DEF TypeOK
  <2>4. Handover([state EXCEPT ![p] = "ZOMBIE"])
    BY <2>2, <2>7, <2>8 DEF Handover, CpuInv
  <2>5. [state EXCEPT ![p] = "ZOMBIE"][p] = "ZOMBIE"
    BY DEF TypeOK
  <2>6. state'[p] = "ZOMBIE"
    BY <2>1, <2>3, <2>4, <2>5, TimerCpu
  <2> QED BY <1>1, <2>1, <2>6 DEF DeadInv, TypeOK
<1>4. ASSUME NEW p \in Slot, CreateLink(p) PROVE DeadInv'
  <2>1. nproc + 1 \in Slot /\ (p = 1 => boot \in 0..3)
    BY <1>4 DEF CreateLink, TypeOK, BootInv
  <2>2. AfterCreate(p) # "dead"
    <3>1. \A b \in 0..3 : <<"create", "bootflag", "create", "idle">>[b + 1] # "dead"
      OBVIOUS
    <3> QED BY <2>1, <3>1 DEF AfterCreate
  <2>3. EntryPoint(Creates(p)) # "dead"
    <3>1. Creates(p) \in {"kernel", "shell", "launcher", "exec", "app"}
      BY <2>1 DEF Creates
    <3> QED BY <3>1 DEF EntryPoint
  <2>4. pc' = [pc EXCEPT ![nproc + 1] = EntryPoint(Creates(p)), ![p] = AfterCreate(p)]
    BY <1>4 DEF CreateLink
  <2> QED BY <1>1, <2>1, <2>2, <2>3, <2>4 DEF DeadInv, TypeOK
<1>5. ASSUME NEW p \in Slot,
             \/ CreateLoad(p) \/ CreateStore(p) \/ CreateFail(p) \/ SpawnTake(p) \/ ElfLoad(p)
             \/ SpawnFilho(p) \/ SpawnPai(p) \/ SpawnParent(p) \/ SpawnTest(p) \/ SpawnGive(p)
             \/ SpawnClear(p) \/ SpawnFocus(p) \/ ReturnPoint(p) \/ ShellCheck(p)
      PROVE  DeadInv'
  <2>1. Stays(p)
    BY <1>5 DEF CreateLoad, CreateStore, CreateFail, SpawnTake, ElfLoad, SpawnFilho, SpawnPai,
       SpawnParent, SpawnTest, SpawnGive, SpawnClear, SpawnFocus, ReturnPoint, ShellCheck, Labels
  <2> QED BY <1>2, <2>1
<1>6. CASE BootFlag \/ BootFocus
  <2>1. Stays(1) BY <1>6 DEF BootFlag, BootFocus, Labels
  <2> QED BY <1>2, <2>1
<1>7. ASSUME NEW p \in Slot, ShellNoKey(p) \/ ShellExec(p) \/ ShellKill(p) PROVE DeadInv'
  <2>1. Stays(p)
    BY <1>7 DEF ShellNoKey, ShellExec, ShellKill, Labels
  <2> QED BY <1>2, <2>1
<1>8. ASSUME NEW p \in Slot, AppStep(p) PROVE DeadInv'
  <2>1. CASE SysExit(p) \/ \E x \in KillTargets : KillSelf(p, x)
    BY <1>3, <2>1
  <2>2. CASE AppExec(p) \/ AppSleep(p) \/ AppFault(p)
             \/ \E x \in KillTargets : KillOther(p, x) /\ UNCHANGED pc
    <3>1. Stays(p) BY <2>2 DEF AppExec, AppSleep, AppFault, Labels
    <3> QED BY <1>2, <3>1
  <2> QED BY <1>8, <2>1, <2>2 DEF AppStep, AppKill
<1>9. CASE Tick \/ UNCHANGED vars
  <2>1. Stays(1) BY <1>9 DEF Tick, vars
  <2> QED BY <1>2, <2>1
<1> QED
  BY <1>3, <1>4, <1>5, <1>6, <1>7, <1>8, <1>9 DEF Next, KernelStep, HaltLoop
-----------------------------------------------------------------------------
(* The theorems *)

LEMMA InitInvariants == Init => TypeOK /\ BootInv /\ CpuInv /\ LabelInv
<1> SUFFICES ASSUME Init PROVE TypeOK /\ BootInv /\ CpuInv /\ LabelInv
  OBVIOUS
<1> USE OneIsASlot, ProcsAssumption
<1>1. TypeOK
  <2>1. state \in [Slot -> States] /\ prog \in [Slot -> Programs] /\ pc \in [Slot -> Labels]
    BY DEF Init
  <2>2. /\ wake \in [Slot -> Nat] /\ parent_pid \in [Slot -> Nat]
        /\ pid \in [Slot -> Nat] /\ newpid \in [Slot -> Nat]
    BY DEF Init
  <2>3. is_foreground \in [Slot -> BOOLEAN] /\ halted \in BOOLEAN
    BY DEF Init
  <2> QED BY <2>1, <2>2, <2>3 DEF Init, TypeOK
<1>2. BootInv
  BY DEF Init, BootInv
<1>3. CpuInv
  BY DEF Init, CpuInv
<1>4. LabelInv
  BY DEF Init, LabelInv, SpawnLabels
<1> QED BY <1>1, <1>2, <1>3, <1>4

(* The kernel's process structures keep their types under every interleaving,
   however many processes there are. *)
THEOREM TypeCorrect == Spec => [](TypeOK /\ BootInv)
<1>1. Init => TypeOK /\ BootInv
  BY InitInvariants
<1>2. TypeOK /\ BootInv /\ [Next]_vars => TypeOK' /\ BootInv'
  BY TypeStep, BootStep
<1> QED
  BY <1>1, <1>2, PTL DEF Spec

(* Only App_Exec ever executes process_spawn_pending. *)
THEOREM LabelCorrect == Spec => []LabelInv
<1>1. Init => LabelInv
  BY InitInvariants
<1>2. TypeOK /\ BootInv /\ LabelInv /\ [Next]_vars => LabelInv'
  BY LabelStep
<1> QED
  BY <1>1, <1>2, TypeCorrect, PTL DEF Spec

(* An accepted exec request is neither overwritten nor dropped before App_Exec
   has taken it over (syscall.c:281-301, proc.c:682-694). *)
THEOREM RequestsAreKept == Spec => RequestNotLost
<1> DEFINE Kept == pendente # 0 /\ pendente' # pendente =>
                     /\ prog[current_process] = "exec"
                     /\ pendente' = 0
                     /\ pid_do_pai' = pendente
<1>1. ASSUME TypeOK, BootInv, LabelInv, [Next]_vars PROVE Kept
  <2> SUFFICES ASSUME pendente # 0, pendente' # pendente PROVE Kept
    OBVIOUS
  <2>3. \E p \in Slot : KernelStep(p) \/ AppStep(p)
    BY <1>1 DEF Next, vars, Tick, HaltLoop
  <2>1. PICK p \in Slot : SpawnTake(p)
    BY <2>3 DEF KernelStep, AppStep, CreateLoad, CreateStore, CreateLink, CreateFail,
       BootFlag, BootFocus, ElfLoad, SpawnFilho, SpawnPai, SpawnParent, SpawnTest, SpawnGive,
       SpawnClear, SpawnFocus, ReturnPoint, ShellCheck, ShellNoKey, ShellExec, ShellKill,
       AppExec, AppSleep, SysExit, AppKill, AppFault, SysExec, SysSleep, KillOther, KillSelf
  <2>2. pc[p] = "poll" /\ prog[p] = "exec"
    BY <1>1, <2>1 DEF SpawnTake, At, LabelInv, SpawnLabels
  <2>4. p = current_process
    BY <1>1, <2>1, <2>2 DEF SpawnTake, At, BootInv
  <2> QED BY <2>1, <2>2, <2>4 DEF SpawnTake
<1>2. TypeOK /\ BootInv /\ LabelInv /\ [Next]_vars => [Kept]_vars
  BY <1>1
<1> QED
  BY <1>2, TypeCorrect, LabelCorrect, PTL DEF Spec, RequestNotLost

(* While the scan of schedule() may go once round the list, the scheduler's
   invariant holds. *)
THEOREM SchedulerCorrect ==
  ASSUME MaxProcs <= MaxAttempts + 1
  PROVE  Spec => []CpuInv
<1>1. Init => CpuInv
  BY InitInvariants
<1>2. TypeOK /\ BootInv /\ CpuInv /\ [Next]_vars => CpuInv'
  BY CpuStep
<1> QED
  BY <1>1, <1>2, TypeCorrect, PTL DEF Spec

(* While the scan may go once round the list, no dead and no sleeping process
   ever holds the CPU (proc.c:342-355). *)
THEOREM CpuIsHeldByTheLiving ==
  ASSUME MaxProcs <= MaxAttempts + 1
  PROVE  Spec => []CpuHeldByTheLiving
<1>1. TypeOK /\ CpuInv => CpuHeldByTheLiving
  BY ProcsAssumption DEF CpuInv, CpuHeldByTheLiving, TypeOK
<1> QED
  BY <1>1, TypeCorrect, SchedulerCorrect, PTL

(* While the scan may go once round the list, a dead process stays dead: the
   choice of `head' for want of a better one never revives it (proc.c:348-351). *)
THEOREM TheDeadStayDead ==
  ASSUME MaxProcs <= MaxAttempts + 1
  PROVE  Spec => DeadStaysDead
<1>1. Init => DeadInv
  BY DEF Init, DeadInv
<1>2. TypeOK /\ BootInv /\ CpuInv /\ DeadInv /\ [Next]_vars => DeadInv'
  BY DeadStep
<1>3. TypeOK /\ BootInv /\ CpuInv /\ DeadInv /\ [Next]_vars
        => [\A p \in Slot : state[p] = "ZOMBIE" \/ pc[p] = "dead" => state'[p] = "ZOMBIE"]_vars
  BY CpuStep DEF DeadInv
<1> QED
  BY <1>1, <1>2, <1>3, TypeCorrect, SchedulerCorrect, PTL DEF Spec, DeadStaysDead

(* While the scan may go once round the list, no sleeper is woken before its
   ticks have been counted (proc.c:309-319). *)
THEOREM SleepersWakeWhenDue ==
  ASSUME MaxProcs <= MaxAttempts + 1
  PROVE  Spec => WakesOnlyWhenDue
<1>1. TypeOK /\ BootInv /\ CpuInv /\ [Next]_vars
        => [\A p \in Slot : state[p] = "SLEEPING" /\ state'[p] \in {"READY", "RUNNING"}
              => wake[p] <= 1]_vars
  BY CpuStep
<1> QED
  BY <1>1, TypeCorrect, SchedulerCorrect, PTL DEF Spec, WakesOnlyWhenDue
-----------------------------------------------------------------------------
(* The keyboard and the flag *)

SomebodyHas(x) == \E r \in Procs : pid[r] = x

(* There is one App_Exec, the fourth task, and until the third exists nobody but   *)
(* the boot code creates anything.                                                 *)
OneExec ==
  /\ \A p, q \in Procs : prog[p] = "exec" /\ prog[q] = "exec" => p = q
  /\ boot <= 3 => \A p \in Procs : prog[p] # "exec"
  /\ boot <= 2 => nproc = boot /\ \A p \in Procs : prog[p] \in {"kernel", "shell"}
  /\ \A p \in Procs : pc[p] \in {"load", "create", "store", "link"} => p = 1 \/ IsCreator(p)

(* Between the flag and the keyboard kernel_main finds the same shell twice. *)
BootHandOff ==
  /\ pc[1] \in {"bootflag", "bootfocus"} => boot = 2
  /\ pc[1] = "bootfocus" => \A q \in Procs : Finds(newpid[1], q) => is_foreground[q]

(* The child of a hand-off is not its own parent, if pids tell them apart: whoever *)
(* asked for it existed, with its pid, before the child was linked.                *)
HandOff(p) ==
  /\ pc[p] \in {"load", "create", "store", "link"} => SomebodyHas(pid_do_pai)
  /\ pc[p] = "filho" =>
       \E r, c \in Procs : r # c /\ pid[r] = pid_do_pai /\ pid[c] = newpid[p]
  /\ pc[p] = "pai" /\ UniquePids => \E r \in Procs \ {proc_filho} : pid[r] = pid_do_pai
  /\ pc[p] \in {"parent", "test", "give", "clear", "focus"} => proc_filho # 0
  /\ pc[p] \in {"parent", "test", "give", "clear"} /\ UniquePids => proc_pai # proc_filho
  /\ pc[p] = "clear" => is_foreground[proc_filho]
  /\ pc[p] = "focus" /\ UniquePids => is_foreground[proc_filho]

FocusInv ==
  /\ OneExec
  /\ BootHandOff
  /\ pendente # 0 => SomebodyHas(pendente)
  /\ \A p \in Procs : prog[p] = "exec" => HandOff(p)
  /\ FocusFlagAgrees

Sadio == TypeOK /\ BootInv /\ LabelInv /\ FocusInv

(* A label at which something happens is one of a linked process, or of the boot code. *)
LEMMA MoverIs ==
  ASSUME Sadio, NEW p \in Slot, NEW l, At(p, l)
  PROVE  /\ pc[p] = l
         /\ (p \in Procs /\ p = current_process) \/ (p = 1 /\ nproc = 0)
         /\ prog[p] = "exec" => p \in Procs /\ p # 1
<1>1. /\ nproc \in Nat /\ current_process \in 0..nproc /\ (current_process = 0 <=> nproc = 0)
      /\ nproc = 0 => prog[1] = "none"
      /\ nproc > 0 => prog[1] = "kernel"
  BY ProcsAssumption DEF Sadio, TypeOK, BootInv
<1>2. pc[p] = l /\ p = (IF current_process = 0 THEN 1 ELSE current_process)
  BY DEF At
<1>3. CASE nproc = 0
  BY <1>1, <1>2, <1>3
<1>4. CASE nproc > 0
  <2>1. nproc # 0
    BY <1>1, <1>4
  <2>2. p = current_process /\ current_process # 0 /\ prog[1] = "kernel"
    BY <1>1, <1>2, <1>4, <2>1
  <2>3. p \in Procs
    BY <1>1, <2>2
  <2> QED
    BY <1>2, <2>2, <2>3
<1> QED
  BY <1>1, <1>3, <1>4

(* A lookup has one answer. *)
LEMMA FindsOne ==
  ASSUME NEW x, NEW a \in 0..nproc, NEW b \in 0..nproc, Finds(x, a), Finds(x, b), nproc \in Nat
  PROVE  a = b
BY DEF Finds

(* What a step leaves alone of the processes that do not take it. *)
LEMMA OthersStay ==
  ASSUME Sadio, NEW p \in Slot, KernelStep(p) \/ AppStep(p)
  PROVE  /\ p \in Procs \/ (p = 1 /\ nproc = 0)
         /\ nproc' \in {nproc, nproc + 1} /\ nproc' \in 0..MaxProcs
         /\ \A q \in Procs : pid'[q] = pid[q] /\ prog'[q] = prog[q]
         /\ \A q \in Procs \ {p} : pc'[q] = pc[q] /\ newpid'[q] = newpid[q]
<1>0. /\ nproc \in 0..MaxProcs /\ nproc + 1 \notin Procs /\ MaxProcs \in Nat
      /\ pc \in [Slot -> Labels] /\ newpid \in [Slot -> Nat]
      /\ pid \in [Slot -> Nat] /\ prog \in [Slot -> Programs]
  BY ProcsAssumption DEF Sadio, TypeOK
<1>1. CASE CreateLink(p)
  <2>1. p \in Procs \/ (p = 1 /\ nproc = 0)
    BY <1>1, MoverIs DEF CreateLink
  <2>2. nproc' = nproc + 1 /\ nproc + 1 \in 0..MaxProcs
    BY <1>0, <1>1 DEF CreateLink
  <2>3. \A q \in Procs : pid'[q] = pid[q] /\ prog'[q] = prog[q]
    BY <1>0, <1>1 DEF CreateLink
  <2>4. \A q \in Procs \ {p} : pc'[q] = pc[q] /\ newpid'[q] = newpid[q]
    BY <1>0, <1>1 DEF CreateLink
  <2> QED
    BY <2>1, <2>2, <2>3, <2>4
<1>2. CASE ~CreateLink(p)
  <2>1. (\E l : At(p, l)) /\ UNCHANGED listVars
    BY <1>2 DEF KernelStep, AppStep, CreateLoad, CreateStore, CreateFail,
       BootFlag, BootFocus, SpawnTake, ElfLoad, SpawnFilho, SpawnPai, SpawnParent, SpawnTest,
       SpawnGive, SpawnClear, SpawnFocus, ReturnPoint, ShellCheck, ShellNoKey, ShellExec, ShellKill,
       AppExec, AppSleep, SysExit, AppKill, AppFault, SysExec, SysSleep, KillOther, KillSelf
  <2>2. pc' = pc \/ \E l : Goto(p, l)
    BY <1>2 DEF KernelStep, AppStep, CreateLoad, CreateStore, CreateFail,
       BootFlag, BootFocus, SpawnTake, ElfLoad, SpawnFilho, SpawnPai, SpawnParent, SpawnTest,
       SpawnGive, SpawnClear, SpawnFocus, ReturnPoint, ShellCheck, ShellNoKey, ShellExec, ShellKill,
       AppExec, AppSleep, SysExit, AppKill, AppFault, Fails, KillSelf
  <2>3. newpid' = newpid \/ \E x : newpid' = [newpid EXCEPT ![p] = x]
    BY <1>2 DEF KernelStep, AppStep, CreateLoad, CreateStore, CreateFail,
       BootFlag, BootFocus, SpawnTake, ElfLoad, SpawnFilho, SpawnPai, SpawnParent, SpawnTest,
       SpawnGive, SpawnClear, SpawnFocus, ReturnPoint, ShellCheck, ShellNoKey, ShellExec, ShellKill,
       AppExec, AppSleep, SysExit, AppKill, AppFault, SysExec, SysSleep, KillOther, KillSelf, pidVars
  <2>4. \A q \in Procs \ {p} : pc'[q] = pc[q] /\ newpid'[q] = newpid[q]
    BY <1>0, <2>2, <2>3 DEF Goto
  <2> QED
    BY <1>0, <2>1, <2>4, MoverIs DEF listVars
<1> QED
  BY <1>1, <1>2

(* Pids are never changed, so two that are alike stay so. *)
LEMMA PidsStay ==
  ASSUME Sadio, NEW p \in Slot, KernelStep(p) \/ AppStep(p)
  PROVE  /\ UniquePids' => UniquePids
         /\ \A x : SomebodyHas(x) => SomebodyHas(x)'
<1>1. /\ nproc' \in {nproc, nproc + 1}
      /\ \A q \in Procs : pid'[q] = pid[q]
  BY OthersStay
<1>3. nproc \in Nat
  BY ProcsAssumption DEF Sadio, TypeOK
<1>2. \A q \in Procs : q \in Procs'
  BY <1>1, <1>3
<1> QED
  BY <1>1, <1>2 DEF UniquePids, SomebodyHas

(* Who changes the flags, the keyboard and the locals of the hand-off. *)
LEMMA FlagsStay ==
  ASSUME Sadio, NEW p \in Slot, KernelStep(p) \/ AppStep(p)
  PROVE  /\ \/ \A q \in Slot : is_foreground[q] => is_foreground'[q]
            \/ SpawnClear(p) /\ prog[p] = "exec"
         /\ \/ UNCHANGED foreground_process
            \/ foreground_process' \in Procs /\ is_foreground'[foreground_process']
            \/ p = 1 /\ BootFocus
            \/ SpawnFocus(p)
         /\ prog[p] # "exec" => UNCHANGED spawnVars
<1>0. /\ is_foreground \in [Slot -> BOOLEAN] /\ nproc \in 0..MaxProcs /\ LabelInv
      /\ MaxProcs \in Nat
  BY ProcsAssumption DEF Sadio, TypeOK
<1>1. UNCHANGED focusVars => /\ UNCHANGED foreground_process
                             /\ \A q \in Slot : is_foreground[q] => is_foreground'[q]
  BY DEF focusVars
<1>2. ASSUME NEW t \in Procs, FocusBack(t)
      PROVE  /\ \A q \in Slot : is_foreground[q] => is_foreground'[q]
             /\ \/ UNCHANGED foreground_process
                \/ foreground_process' \in Procs /\ is_foreground'[foreground_process']
  BY <1>0, <1>2 DEF FocusBack, focusVars, Finds
<1>3. /\ \/ \A q \in Slot : is_foreground[q] => is_foreground'[q]
         \/ SpawnClear(p) /\ prog[p] = "exec"
      /\ \/ UNCHANGED foreground_process
         \/ foreground_process' \in Procs /\ is_foreground'[foreground_process']
         \/ p = 1 /\ BootFocus
         \/ SpawnFocus(p)
  <2>1. CASE SysExit(p) \/ AppKill(p) \/ ShellKill(p)
    <3>1. \E t \in Procs : FocusBack(t)
      <4>1. (\E l : At(p, l)) /\ pc[p] # "create" /\ pc[p] # "store" /\ pc[p] # "link"
        BY <2>1 DEF SysExit, AppKill, ShellKill, KillSelf, At
      <4>2. p \in Procs
        BY <4>1, MoverIs DEF Sadio, BootInv
      <4> QED
        BY <2>1, <4>2 DEF SysExit, AppKill, ShellKill, KillSelf, KillOther
    <3> QED
      BY <1>2, <3>1
  <2>2. CASE SpawnClear(p)
    BY <1>0, <2>2 DEF SpawnClear, At, LabelInv, SpawnLabels
  <2>3. CASE SpawnFocus(p)
    BY <2>3 DEF SpawnFocus
  <2>4. CASE SpawnGive(p) \/ (p = 1 /\ BootFlag)
    BY <1>0, <2>4 DEF SpawnGive, BootFlag
  <2>5. CASE p = 1 /\ BootFocus
    BY <2>5 DEF BootFocus
  <2>6. CASE /\ ~(SysExit(p) \/ AppKill(p) \/ ShellKill(p)) /\ ~SpawnClear(p) /\ ~SpawnFocus(p)
             /\ ~SpawnGive(p) /\ ~(p = 1 /\ BootFlag) /\ ~(p = 1 /\ BootFocus)
    BY <1>1, <2>6 DEF KernelStep, AppStep, CreateLoad, CreateStore, CreateLink, CreateFail,
       SpawnTake, ElfLoad, SpawnFilho, SpawnPai, SpawnParent, SpawnTest,
       ReturnPoint, ShellCheck, ShellNoKey, ShellExec, AppExec, AppSleep, AppFault, SysExec, SysSleep
  <2> QED
    BY <2>1, <2>2, <2>3, <2>4, <2>5, <2>6
<1>4. prog[p] # "exec" => UNCHANGED spawnVars
  BY <1>0 DEF KernelStep, AppStep, CreateLoad, CreateStore, CreateLink, CreateFail, At, LabelInv,
     SpawnLabels, Fails,
     BootFlag, BootFocus, SpawnTake, ElfLoad, SpawnFilho, SpawnPai, SpawnParent, SpawnTest,
     SpawnGive, SpawnClear, SpawnFocus, ReturnPoint, ShellCheck, ShellNoKey, ShellExec, ShellKill,
     AppExec, AppSleep, SysExit, AppKill, AppFault, SysExec, SysSleep, KillOther, KillSelf
<1> QED
  BY <1>3, <1>4

(* Steps other than the link of a new process keep the list as it is. *)
LEMMA ListStays ==
  ASSUME NEW p \in Slot, KernelStep(p) \/ AppStep(p), ~CreateLink(p)
  PROVE  UNCHANGED <<nproc, pid, prog, boot>>
BY DEF KernelStep, AppStep, CreateLoad, CreateStore, CreateFail,
   BootFlag, BootFocus, SpawnTake, ElfLoad, SpawnFilho, SpawnPai, SpawnParent, SpawnTest,
   SpawnGive, SpawnClear, SpawnFocus, ReturnPoint, ShellCheck, ShellNoKey, ShellExec, ShellKill,
   AppExec, AppSleep, SysExit, AppKill, AppFault, SysExec, SysSleep, KillOther, KillSelf,
   listVars, pidVars

(* What the link of a new process does. *)
LEMMA LinkIs ==
  ASSUME Sadio, NEW p \in Slot, CreateLink(p)
  PROVE  /\ nproc \in Nat /\ nproc' = nproc + 1 /\ nproc + 1 \in Slot
         /\ prog'[nproc + 1] = Creates(p) /\ pid'[nproc + 1] = newpid[p]
         /\ \A q \in Procs : prog'[q] = prog[q] /\ pid'[q] = pid[q]
         /\ boot' = IF p = 1 THEN boot + 1 ELSE boot
         /\ pc'[p] = AfterCreate(p)
         /\ nproc + 1 # p => pc'[nproc + 1] = EntryPoint(Creates(p))
         /\ p = 1 => boot \in 0..3
         /\ p = 1 => Creates(p) = BootTasks[boot + 1]
         /\ p # 1 => p \in Procs /\ Creates(p) = "app"
         /\ p # 1 => AfterCreate(p) = IF prog[p] = "exec" THEN "filho" ELSE "idle"
         /\ p = 1 => AfterCreate(p) = <<"create", "bootflag", "create", "idle">>[boot + 1]
         /\ pc[p] = "link"
         /\ UNCHANGED <<spawnVars, focusVars, pendente>>
<1>1. /\ nproc \in 0..MaxProcs /\ nproc < MaxProcs /\ MaxProcs \in Nat
      /\ pc \in [Slot -> Labels] /\ pid \in [Slot -> Nat] /\ prog \in [Slot -> Programs]
      /\ boot \in 0..4
  BY ProcsAssumption DEF Sadio, TypeOK, CreateLink
<1>2. /\ pc[p] = "link" /\ p = 1 => boot < 4
  BY MoverIs DEF Sadio, BootInv, CreateLink
<1>3. pc[p] = "link" /\ (p # 1 => p \in Procs)
  BY MoverIs DEF CreateLink
<1>4. nproc \in Nat /\ nproc + 1 \in Slot /\ nproc + 1 \notin Procs
  BY <1>1
<1>5. /\ nproc' = nproc + 1 /\ UNCHANGED <<spawnVars, focusVars, pendente>>
      /\ boot' = IF p = 1 THEN boot + 1 ELSE boot
      /\ pid' = [pid EXCEPT ![nproc + 1] = newpid[p]]
      /\ prog' = [prog EXCEPT ![nproc + 1] = Creates(p)]
      /\ pc' = [pc EXCEPT ![nproc + 1] = EntryPoint(Creates(p)), ![p] = AfterCreate(p)]
  BY DEF CreateLink
<1>6. p = 1 => boot \in 0..3
  BY <1>1, <1>2, <1>3
<1>7. /\ prog'[nproc + 1] = Creates(p) /\ pid'[nproc + 1] = newpid[p]
      /\ \A q \in Procs : prog'[q] = prog[q] /\ pid'[q] = pid[q]
  BY <1>1, <1>4, <1>5
<1>8. pc'[p] = AfterCreate(p) /\ (nproc + 1 # p => pc'[nproc + 1] = EntryPoint(Creates(p)))
  BY <1>1, <1>4, <1>5
<1> QED
  BY <1>3, <1>4, <1>5, <1>6, <1>7, <1>8 DEF Creates, AfterCreate

LEMMA OneExecStep ==
  ASSUME Sadio, NEW p \in Slot, KernelStep(p) \/ AppStep(p)
  PROVE  OneExec'
<1>0. OneExec /\ nproc \in Nat /\ boot \in 0..4 /\ BootInv /\ LabelInv /\ pc \in [Slot -> Labels]
  BY ProcsAssumption DEF Sadio, FocusInv, TypeOK
<1>1. CASE CreateLink(p)
  <2>1. /\ nproc' = nproc + 1 /\ prog'[nproc + 1] = Creates(p)
        /\ \A q \in Procs : prog'[q] = prog[q]
        /\ boot' = IF p = 1 THEN boot + 1 ELSE boot
        /\ p = 1 => boot \in 0..3 /\ Creates(p) = BootTasks[boot + 1]
        /\ p # 1 => p \in Procs /\ Creates(p) = "app"
        /\ pc[p] = "link"
    BY <1>1, LinkIs
  <2>2. \A q \in Procs' : q \in Procs \/ q = nproc + 1
    BY <1>0, <2>1
  <2>3. p # 1 => boot \notin 0..2
    BY <1>0, <2>1 DEF OneExec, IsCreator
  <2>4. /\ Creates(p) = "exec" => p = 1 /\ boot = 3
        /\ p = 1 /\ boot <= 1 => Creates(p) \in {"kernel", "shell"}
        /\ p = 1 /\ boot <= 2 => Creates(p) # "exec"
    BY <2>1
  <2>5. /\ \A q, r \in Procs' : prog'[q] = "exec" /\ prog'[r] = "exec" => q = r
    BY <1>0, <2>1, <2>2, <2>4 DEF OneExec
  <2>6. boot' <= 3 => \A q \in Procs' : prog'[q] # "exec"
    <3>1. boot' <= 3 => boot <= 3 /\ Creates(p) # "exec"
      BY <1>0, <2>1, <2>4
    <3> QED
      BY <1>0, <2>1, <2>2, <3>1 DEF OneExec
  <2>7. boot' <= 2 => nproc' = boot' /\ \A q \in Procs' : prog'[q] \in {"kernel", "shell"}
    <3>1. boot' <= 2 => p = 1 /\ boot <= 1
      BY <1>0, <2>1, <2>3
    <3> QED
      BY <1>0, <2>1, <2>2, <2>4, <3>1 DEF OneExec
  <2>8. ASSUME NEW q \in Procs', pc'[q] \in {"load", "create", "store", "link"}, q # 1
        PROVE  IsCreator(q)'
    <3>1. CASE q = p
      <4>1. p # 1 /\ p \in Procs /\ pc[p] = "link"
        BY <2>1, <2>8, <3>1
      <4>2. IsCreator(p)
        BY <1>0, <4>1 DEF OneExec
      <4> QED
        BY <2>1, <3>1, <4>1, <4>2 DEF IsCreator
    <3>2. CASE q # p /\ q \in Procs
      <4>1. pc'[q] = pc[q]
        BY <3>2, OthersStay
      <4> QED
        BY <1>0, <2>1, <2>8, <3>2, <4>1 DEF OneExec, IsCreator
    <3>3. CASE q # p /\ q = nproc + 1
      <4>1. pc'[q] = EntryPoint(Creates(p))
        BY <1>1, <3>3, LinkIs
      <4>2. Creates(p) # "kernel"
        <5>1. Creates(p) = "kernel" => p = 1 /\ boot = 0
          BY <2>1
        <5>2. boot = 0 => nproc = 0
          BY <1>0 DEF OneExec
        <5> QED
          BY <2>8, <3>3, <5>1, <5>2
      <4>3. Creates(p) \in {"kernel", "shell", "launcher", "exec", "app"}
        BY <2>1
      <4>4. Creates(p) \in {"launcher", "exec"}
        BY <2>8, <4>1, <4>2, <4>3 DEF EntryPoint
      <4> QED
        BY <2>1, <3>3, <4>4 DEF IsCreator
    <3> QED
      BY <2>2, <3>1, <3>2, <3>3
  <2> QED
    BY <2>5, <2>6, <2>7, <2>8 DEF OneExec
<1>2. CASE ~CreateLink(p)
  <2>1. UNCHANGED <<nproc, prog, boot>>
    BY <1>2, ListStays
  <2>2. ASSUME NEW q \in Procs, pc'[q] \in {"load", "create", "store", "link"}, q # 1
        PROVE  IsCreator(q)
    <3>1. CASE q # p
      BY <1>0, <2>2, <3>1, OthersStay DEF OneExec
    <3>2. CASE q = p /\ pc' = pc
      BY <1>0, <2>2, <3>2 DEF OneExec
    <3>3. CASE q = p /\ pc' # pc
      <4>1. pc[p] \in {"load", "create", "store", "link"} \/ prog[p] = "exec"
        BY <1>0, <1>2, <2>2, <3>3 DEF KernelStep, AppStep, CreateLoad, CreateStore, CreateFail, At, Goto,
           BootFlag, BootFocus, SpawnTake, ElfLoad, SpawnFilho, SpawnPai, SpawnParent, SpawnTest,
           SpawnGive, SpawnClear, SpawnFocus, ReturnPoint, ShellCheck, ShellNoKey, ShellExec, ShellKill,
           AppExec, AppSleep, SysExit, AppKill, AppFault, KillSelf, Fails, LabelInv, SpawnLabels
      <4> QED
        BY <1>0, <2>2, <3>3, <4>1 DEF OneExec, IsCreator
    <3> QED
      BY <3>1, <3>2, <3>3
  <2> QED
    BY <1>0, <2>1, <2>2 DEF OneExec, IsCreator
<1> QED
  BY <1>1, <1>2

LEMMA BootHandOffStep ==
  ASSUME Sadio, NEW p \in Slot, KernelStep(p) \/ AppStep(p)
  PROVE  BootHandOff'
<1>0. /\ OneExec /\ BootHandOff /\ BootInv /\ LabelInv /\ nproc \in Nat /\ boot \in 0..4
      /\ pc \in [Slot -> Labels] /\ 1 \in Slot
      /\ is_foreground \in [Slot -> BOOLEAN] /\ Procs \subseteq Slot
  BY ProcsAssumption, SMTT(30) DEF Sadio, FocusInv, TypeOK
<1>1. CASE p # 1
  <2>1. ASSUME pc'[1] \in {"bootflag", "bootfocus"}
        PROVE  boot' = 2 /\ (pc'[1] = "bootfocus" => \A q \in Procs' : Finds(newpid[1], q)' => is_foreground'[q])
    <3>1. p \in Procs /\ 1 \in Procs
      BY <1>0, <1>1, OthersStay
    <3>2. pc'[1] = pc[1] /\ newpid'[1] = newpid[1]
      BY <1>1, <3>1, OthersStay
    <3>3. boot = 2 /\ prog[p] \in {"kernel", "shell"}
      BY <1>0, <2>1, <3>1, <3>2 DEF BootHandOff, OneExec
    <3>4. ~CreateLink(p)
      <4>1. ~IsCreator(p)
        BY <3>3 DEF IsCreator
      <4>2. pc[p] # "link"
        BY <1>0, <1>1, <3>1, <4>1 DEF OneExec
      <4> QED
        BY <4>2 DEF CreateLink, At
    <3>5. UNCHANGED <<nproc, pid, prog, boot>>
      BY <3>4, ListStays
    <3>6. \A q \in Slot : is_foreground[q] => is_foreground'[q]
      BY <3>3, FlagsStay
    <3> QED
      BY <1>0, <3>2, <3>3, <3>5, <3>6 DEF BootHandOff, Finds
  <2> QED
    BY <2>1 DEF BootHandOff
<1>2. CASE p = 1
  <2>1. CASE CreateLink(p)
    <3>1. /\ pc'[1] = <<"create", "bootflag", "create", "idle">>[boot + 1]
          /\ boot' = boot + 1 /\ boot \in 0..3
      BY <1>2, <2>1, LinkIs
    <3> QED
      BY <3>1 DEF BootHandOff
  <2>2. CASE BootFlag
    <3>1. PICK q \in 0..nproc : /\ Finds(newpid[1], q) /\ q # 0
                                /\ is_foreground' = [is_foreground EXCEPT ![q] = TRUE]
      BY <2>2 DEF BootFlag
    <3>2. UNCHANGED <<nproc, pid, newpid, boot>> /\ pc[1] = "bootflag"
      BY <2>2 DEF BootFlag, listVars, pidVars, At
    <3>3. is_foreground'[q]
      BY <1>0, <3>1
    <3>4. \A r \in Procs : Finds(newpid[1], r) => r = q
      BY <1>0, <3>1, FindsOne
    <3> QED
      BY <1>0, <3>2, <3>3, <3>4 DEF BootHandOff, Finds
  <2>3. CASE ~CreateLink(p) /\ ~BootFlag
    <3>1. pc'[1] \notin {"bootflag", "bootfocus"} \/ pc' = pc
      BY <1>0, <1>2, <2>3 DEF KernelStep, AppStep, CreateLoad, CreateStore, CreateFail, At, Goto,
         BootFocus, SpawnTake, ElfLoad, SpawnFilho, SpawnPai, SpawnParent, SpawnTest,
         SpawnGive, SpawnClear, SpawnFocus, ReturnPoint, ShellCheck, ShellNoKey, ShellExec, ShellKill,
         AppExec, AppSleep, SysExit, AppKill, AppFault, KillSelf, Fails
    <3>2. pc' = pc => pc[1] \notin {"bootflag", "bootfocus"}
      BY <1>0, <1>2, <2>3 DEF KernelStep, AppStep, CreateLoad, CreateStore, CreateFail, At, Goto,
         BootFocus, SpawnTake, ElfLoad, SpawnFilho, SpawnPai, SpawnParent, SpawnTest,
         SpawnGive, SpawnClear, SpawnFocus, ReturnPoint, ShellCheck, ShellNoKey, ShellExec, ShellKill,
         AppExec, AppSleep, SysExit, AppKill, AppFault, KillSelf, Fails
    <3> QED
      BY <3>1, <3>2 DEF BootHandOff
  <2> QED
    BY <2>1, <2>2, <2>3
<1> QED
  BY <1>1, <1>2

LEMMA RequesterStep ==
  ASSUME Sadio, NEW p \in Slot, KernelStep(p) \/ AppStep(p)
  PROVE  pendente' # 0 => SomebodyHas(pendente)'
<1>1. pendente # 0 => SomebodyHas(pendente)
  BY DEF Sadio, FocusInv
<1>2. pendente' = pendente \/ pendente' = 0 \/ AppExec(p) \/ ShellExec(p)
  BY DEF KernelStep, AppStep, CreateLoad, CreateStore, CreateFail, CreateLink,
     BootFlag, BootFocus, SpawnTake, ElfLoad, SpawnFilho, SpawnPai, SpawnParent, SpawnTest,
     SpawnGive, SpawnClear, SpawnFocus, ReturnPoint, ShellCheck, ShellNoKey, ShellKill,
     AppSleep, SysExit, AppKill, AppFault, SysSleep, KillOther, KillSelf
<1>3. CASE pendente' = pendente
  <2>1. \A x : SomebodyHas(x) => \E r \in Procs' : pid'[r] = x
    BY PidsStay DEF SomebodyHas
  <2> QED
    BY <1>1, <1>3, <2>1 DEF SomebodyHas
<1>4. CASE AppExec(p) \/ ShellExec(p)
  <2>1. pendente' = pid[p] /\ UNCHANGED listVars /\ (\E l \in {"run", "key"} : At(p, l))
    BY <1>4 DEF AppExec, ShellExec, SysExec
  <2>2. p \in Procs
    BY <2>1, MoverIs DEF Sadio, BootInv
  <2> QED
    BY <2>1, <2>2 DEF SomebodyHas, listVars
<1> QED
  BY <1>2, <1>3, <1>4

(* App_Exec's own steps keep what it knows of the hand-off. *)
LEMMA MoverHandsOff ==
  ASSUME Sadio, NEW p \in Procs, prog[p] = "exec", KernelStep(p) \/ AppStep(p)
  PROVE  HandOff(p)'
<1>0. /\ nproc \in 0..MaxProcs /\ MaxProcs \in Nat /\ p \in Slot /\ p # 1
      /\ pc \in [Slot -> Labels] /\ newpid \in [Slot -> Nat] /\ pid \in [Slot -> Nat]
      /\ is_foreground \in [Slot -> BOOLEAN]
      /\ proc_filho \in 0..nproc /\ proc_pai \in 0..nproc
  BY ProcsAssumption, SMTT(30) DEF Sadio, TypeOK, BootInv
<1>1. HandOff(p) /\ (pendente # 0 => SomebodyHas(pendente))
  BY DEF Sadio, FocusInv
<1> DEFINE Mid == {"load", "create", "store", "link", "filho", "pai", "parent", "test",
                   "give", "clear", "focus"}
<1>2. pc'[p] \notin Mid => HandOff(p)'
  BY DEF HandOff
<1> HIDE DEF Mid
<1>3. CASE SpawnTake(p)
  <2>1. pc'[p] = "load" /\ pid_do_pai' = pendente /\ pendente # 0 /\ UNCHANGED <<nproc, pid>>
    BY <1>0, <1>3 DEF SpawnTake, Goto, listVars
  <2> QED
    BY <1>1, <2>1 DEF HandOff, SomebodyHas
<1>4. CASE ElfLoad(p) \/ CreateLoad(p) \/ CreateStore(p) \/ CreateFail(p)
  <2>1. /\ UNCHANGED <<nproc, pid>>
        /\ pc[p] \in {"load", "create", "store", "link"}
    BY <1>4 DEF ElfLoad, CreateLoad, CreateStore, CreateFail, At, listVars
  <2>2. \/ pc'[p] = "poll"
        \/ pc'[p] \in {"create", "store", "link"} /\ UNCHANGED pid_do_pai
    BY <1>0, <1>4 DEF ElfLoad, CreateLoad, CreateStore, CreateFail, Fails, Goto, spawnVars
  <2>3. pc'[p] = "poll" => HandOff(p)'
    BY <1>2 DEF Mid
  <2>4. CASE pc'[p] \in {"create", "store", "link"} /\ UNCHANGED pid_do_pai
    BY <1>1, <2>1, <2>4 DEF HandOff, SomebodyHas
  <2> QED
    BY <2>2, <2>3, <2>4
<1>5. CASE CreateLink(p)
  <2>1. /\ nproc \in Nat /\ nproc' = nproc + 1 /\ pid'[nproc + 1] = newpid[p]
        /\ \A q \in Procs : pid'[q] = pid[q]
        /\ pc'[p] = "filho" /\ pc[p] = "link"
        /\ UNCHANGED pid_do_pai
    BY <1>0, <1>5, LinkIs DEF spawnVars
  <2>2. newpid'[p] = newpid[p]
    <3>1. AfterCreate(p) = "filho"
      BY <1>0 DEF AfterCreate
    <3> QED
      BY <1>5, <3>1 DEF CreateLink
  <2>3. PICK r \in Procs : pid[r] = pid_do_pai
    BY <1>1, <2>1 DEF HandOff, SomebodyHas
  <2>4. r \in Procs' /\ nproc + 1 \in Procs' /\ r # nproc + 1
    BY <2>1
  <2>5. pid'[r] = pid_do_pai' /\ pid'[nproc + 1] = newpid'[p]
    BY <2>1, <2>2, <2>3
  <2>6. \E a, c \in Procs' : a # c /\ pid'[a] = pid_do_pai' /\ pid'[c] = newpid'[p]
    BY <2>4, <2>5
  <2> QED
    BY <2>1, <2>6 DEF HandOff
<1>6. CASE SpawnFilho(p)
  <2>1. /\ UNCHANGED <<nproc, pid, pid_do_pai>> /\ pc[p] = "filho" /\ pc'[p] = "pai"
        /\ Finds(newpid[p], proc_filho') /\ proc_filho' \in 0..nproc
    BY <1>0, <1>6 DEF SpawnFilho, Goto, At, listVars
  <2>2. PICK r \in Procs, c \in Procs : r # c /\ pid[r] = pid_do_pai /\ pid[c] = newpid[p]
    BY <1>1, <2>1 DEF HandOff
  <2>3. proc_filho' \in Procs /\ pid[proc_filho'] = newpid[p]
    BY <2>1, <2>2 DEF Finds
  <2>4. UniquePids => r # proc_filho'
    BY <2>2, <2>3 DEF UniquePids
  <2>5. UniquePids' => UniquePids
    BY <2>1 DEF UniquePids
  <2>6. UniquePids' => \E s \in Procs' \ {proc_filho'} : pid'[s] = pid_do_pai'
    BY <2>1, <2>2, <2>4, <2>5
  <2> QED
    BY <2>1, <2>6 DEF HandOff
<1>7. CASE SpawnPai(p)
  <2>1. PICK q \in 0..nproc :
          /\ Finds(pid_do_pai, q)
          /\ \/ proc_filho # 0 /\ Goto(p, "parent") /\ proc_pai' = q
                               /\ UNCHANGED <<pid_do_pai, proc_filho>>
             \/ proc_filho = 0 /\ Goto(p, "poll") /\ SpawnReturns
    BY <1>7 DEF SpawnPai
  <2>2. UNCHANGED <<nproc, pid>> /\ pc[p] = "pai"
    BY <1>7 DEF SpawnPai, At, listVars
  <2>3. CASE proc_filho = 0
    BY <1>0, <1>2, <2>1, <2>3 DEF Goto, Mid
  <2>4. CASE proc_filho # 0
    <3>1. pc'[p] = "parent" /\ proc_pai' = q /\ UNCHANGED <<pid_do_pai, proc_filho>>
      BY <1>0, <2>1, <2>4 DEF Goto
    <3>2. UniquePids => q # proc_filho
      <4>1. SUFFICES ASSUME UniquePids PROVE q # proc_filho
        OBVIOUS
      <4>2. PICK r \in Procs \ {proc_filho} : pid[r] = pid_do_pai
        BY <1>1, <2>2, <4>1 DEF HandOff
      <4>3. q \in Procs /\ pid[q] = pid_do_pai
        BY <2>1, <4>2 DEF Finds
      <4> QED
        BY <4>1, <4>2, <4>3 DEF UniquePids
    <3>3. UniquePids' => UniquePids
      BY <2>2 DEF UniquePids
    <3> QED
      BY <2>4, <3>1, <3>2, <3>3 DEF HandOff
  <2> QED
    BY <2>3, <2>4
<1>8. CASE SpawnParent(p)
  <2>1. /\ UNCHANGED <<nproc, pid, proc_filho, proc_pai>> /\ pc[p] = "parent" /\ pc'[p] = "test"
    BY <1>0, <1>8 DEF SpawnParent, Goto, At, listVars, spawnVars
  <2> QED
    BY <1>1, <2>1 DEF HandOff, UniquePids
<1>9. CASE SpawnTest(p)
  <2>1. UNCHANGED <<nproc, pid>> /\ pc[p] = "test"
    BY <1>9 DEF SpawnTest, At, listVars
  <2>2. \/ pc'[p] = "poll"
        \/ pc'[p] = "give" /\ UNCHANGED <<proc_filho, proc_pai>>
    BY <1>0, <1>9 DEF SpawnTest, Goto, spawnVars
  <2>3. pc'[p] = "poll" => HandOff(p)'
    BY <1>2 DEF Mid
  <2>4. pc'[p] = "give" /\ UNCHANGED <<proc_filho, proc_pai>> => HandOff(p)'
    BY <1>1, <2>1 DEF HandOff, UniquePids
  <2> QED
    BY <2>2, <2>3, <2>4
<1>10. CASE SpawnGive(p)
  <2>1. /\ UNCHANGED <<nproc, pid, proc_filho, proc_pai>> /\ pc[p] = "give" /\ pc'[p] = "clear"
        /\ is_foreground' = [is_foreground EXCEPT ![proc_filho] = TRUE]
    BY <1>0, <1>10 DEF SpawnGive, Goto, At, listVars, spawnVars
  <2>2. proc_filho \in Slot /\ proc_filho # 0
    BY <1>0, <1>1, <2>1 DEF HandOff
  <2>3. is_foreground'[proc_filho']
    BY <1>0, <2>1, <2>2
  <2> QED
    BY <1>1, <2>1, <2>3 DEF HandOff, UniquePids
<1>11. CASE SpawnClear(p)
  <2>1. /\ UNCHANGED <<nproc, pid, proc_filho, proc_pai>> /\ pc[p] = "clear" /\ pc'[p] = "focus"
        /\ is_foreground' = [is_foreground EXCEPT ![proc_pai] = FALSE]
    BY <1>0, <1>11 DEF SpawnClear, Goto, At, listVars, spawnVars
  <2>2. proc_filho \in Slot /\ proc_filho # 0 /\ is_foreground[proc_filho]
    BY <1>0, <1>1, <2>1 DEF HandOff
  <2>3. UniquePids => proc_pai # proc_filho
    BY <1>1, <2>1 DEF HandOff
  <2>4. UniquePids => is_foreground'[proc_filho']
    BY <1>0, <2>1, <2>2, <2>3
  <2>5. UniquePids' => UniquePids
    BY <2>1 DEF UniquePids
  <2> QED
    BY <2>1, <2>2, <2>4, <2>5 DEF HandOff
<1>12. CASE \/ SpawnFocus(p) \/ ReturnPoint(p) \/ ShellCheck(p) \/ ShellNoKey(p)
            \/ ShellExec(p) \/ ShellKill(p) \/ AppStep(p)
  <2>1. pc'[p] \in {"poll", "fault", "key", "input", "run", "dead"}
    BY <1>0, <1>12 DEF SpawnFocus, ReturnPoint, ShellCheck, ShellNoKey, ShellExec, ShellKill,
       AppStep, AppExec, AppSleep, SysExit, AppKill, KillSelf, AppFault, Goto, At
  <2> QED
    BY <1>2, <2>1 DEF Mid
<1> QED
  BY <1>0, <1>3, <1>4, <1>5, <1>6, <1>7, <1>8, <1>9, <1>10, <1>11, <1>12 DEF KernelStep

(* The others' steps disturb no hand-off: only App_Exec clears a flag. *)
LEMMA HandOffStep ==
  ASSUME Sadio, NEW p \in Slot, KernelStep(p) \/ AppStep(p), NEW e \in Procs',
         prog'[e] = "exec"
  PROVE  HandOff(e)'
<1>0. /\ nproc \in 0..MaxProcs /\ MaxProcs \in Nat
      /\ proc_filho \in 0..nproc /\ proc_pai \in 0..nproc
      /\ is_foreground \in [Slot -> BOOLEAN]
      /\ OneExec /\ \A q \in Procs : prog[q] = "exec" => HandOff(q)
  BY ProcsAssumption DEF Sadio, TypeOK, FocusInv
<1>1. /\ p \in Procs \/ (p = 1 /\ nproc = 0)
      /\ \A q \in Procs : pid'[q] = pid[q] /\ prog'[q] = prog[q]
      /\ \A q \in Procs \ {p} : pc'[q] = pc[q] /\ newpid'[q] = newpid[q]
      /\ nproc' \in {nproc, nproc + 1}
  BY OthersStay
<1>2. CASE e \notin Procs
  <2>1. nproc' = nproc + 1 /\ e = nproc + 1
    BY <1>0, <1>1, <1>2
  <2>2. CreateLink(p)
    <3>1. ~CreateLink(p) => nproc' = nproc
      BY ListStays
    <3> QED
      BY <1>0, <2>1, <3>1
  <2>3. prog'[e] = Creates(p) /\ (e # p => pc'[e] = EntryPoint(Creates(p)))
        /\ (p = 1 => Creates(p) = BootTasks[boot + 1])
        /\ (p = 1 => boot \in 0..3)
    BY <2>1, <2>2, LinkIs
  <2>4. CASE e = p
    <3>1. p = 1 /\ nproc = 0
      BY <1>1, <1>2, <2>4
    <3>2. boot = 0
      BY <3>1 DEF Sadio, BootInv
    <3> QED
      BY <2>3, <3>1, <3>2
  <2>5. CASE e # p
    <3>1. pc'[e] = "poll"
      BY <2>3, <2>5 DEF EntryPoint
    <3> QED
      BY <3>1 DEF HandOff
  <2> QED
    BY <2>4, <2>5
<1>3. CASE e \in Procs /\ e = p
  BY <1>1, <1>3, MoverHandsOff
<1>4. CASE e \in Procs /\ e # p
  <2>1. prog[e] = "exec" /\ HandOff(e)
    BY <1>0, <1>1, <1>4
  <2>2. prog[p] # "exec"
    <3>1. CASE p \in Procs
      BY <1>0, <1>4, <2>1, <3>1 DEF OneExec
    <3>2. CASE p = 1 /\ nproc = 0
      BY <3>2 DEF Sadio, BootInv
    <3> QED
      BY <1>1, <3>1, <3>2
  <2>3. UNCHANGED <<pid_do_pai, proc_filho, proc_pai>>
    BY <2>2, FlagsStay DEF spawnVars
  <2>4. \A q \in Slot : is_foreground[q] => is_foreground'[q]
    BY <2>2, FlagsStay
  <2>5. pc'[e] = pc[e] /\ newpid'[e] = newpid[e]
    BY <1>1, <1>4
  <2>6. /\ UniquePids' => UniquePids
        /\ SomebodyHas(pid_do_pai) => SomebodyHas(pid_do_pai)'
    <3>1. SomebodyHas(pid_do_pai) => \E r \in Procs' : pid'[r] = pid_do_pai
      BY <1>0, <1>1 DEF SomebodyHas
    <3> QED
      BY <2>3, <3>1, PidsStay DEF SomebodyHas
  <2>7. pc[e] = "filho" =>
          \E r, c \in Procs' : r # c /\ pid'[r] = pid_do_pai' /\ pid'[c] = newpid'[e]
    <3>1. SUFFICES ASSUME pc[e] = "filho"
                   PROVE \E r, c \in Procs' : r # c /\ pid'[r] = pid_do_pai' /\ pid'[c] = newpid'[e]
      OBVIOUS
    <3>2. PICK r \in Procs, c \in Procs : r # c /\ pid[r] = pid_do_pai /\ pid[c] = newpid[e]
      BY <2>1, <3>1 DEF HandOff
    <3>3. r \in Procs' /\ c \in Procs'
      BY <1>0, <1>1
    <3> QED
      BY <1>1, <2>3, <2>5, <3>2, <3>3
  <2>8. pc[e] = "pai" /\ UniquePids' => \E r \in Procs' \ {proc_filho'} : pid'[r] = pid_do_pai'
    <3>1. SUFFICES ASSUME pc[e] = "pai", UniquePids
                   PROVE \E r \in Procs' \ {proc_filho'} : pid'[r] = pid_do_pai'
      BY <2>6
    <3>2. PICK r \in Procs \ {proc_filho} : pid[r] = pid_do_pai
      BY <2>1, <3>1 DEF HandOff
    <3>3. r \in Procs'
      BY <1>0, <1>1
    <3> QED
      BY <1>1, <2>3, <3>2, <3>3
  <2>9. /\ pc[e] \in {"load", "create", "store", "link"} => SomebodyHas(pid_do_pai)
        /\ pc[e] \in {"parent", "test", "give", "clear", "focus"} => proc_filho \in Slot
        /\ pc[e] \in {"parent", "test", "give", "clear", "focus"} => proc_filho # 0
        /\ pc[e] \in {"parent", "test", "give", "clear"} /\ UniquePids => proc_pai # proc_filho
        /\ pc[e] = "clear" => is_foreground[proc_filho]
        /\ pc[e] = "focus" /\ UniquePids => is_foreground[proc_filho]
    BY <1>0, <2>1 DEF HandOff
  <2>10. /\ pc[e] = "clear" => is_foreground'[proc_filho]
         /\ pc[e] = "focus" /\ UniquePids => is_foreground'[proc_filho]
    BY <2>4, <2>9
  <2> QED
    BY <2>3, <2>5, <2>6, <2>7, <2>8, <2>9, <2>10 DEF HandOff
<1> QED
  BY <1>2, <1>3, <1>4

(* The keyboard moves to a process that has the flag, or waits for the last of
   the assignments of a hand-off. *)
LEMMA FlagStep ==
  ASSUME Sadio, NEW p \in Slot, KernelStep(p) \/ AppStep(p)
  PROVE  FocusFlagAgrees'
<1>0. /\ nproc \in 0..MaxProcs /\ MaxProcs \in Nat
      /\ foreground_process \in 0..nproc /\ pc \in [Slot -> Labels]
      /\ is_foreground \in [Slot -> BOOLEAN]
      /\ OneExec /\ BootHandOff /\ FocusFlagAgrees
      /\ \A q \in Procs : prog[q] = "exec" => HandOff(q)
  BY ProcsAssumption DEF Sadio, TypeOK, FocusInv
<1>1. /\ \A q \in Procs : pid'[q] = pid[q] /\ prog'[q] = prog[q]
      /\ \A q \in Procs \ {p} : pc'[q] = pc[q]
      /\ nproc' \in {nproc, nproc + 1}
  BY OthersStay
<1>2. \A q \in Procs : q \in Procs'
  BY <1>0, <1>1
<1>3. UniquePids' => UniquePids
  BY PidsStay
<1> SUFFICES ASSUME UniquePids, foreground_process' # 0
             PROVE  \/ is_foreground'[foreground_process']
                    \/ \E e \in Procs' : prog'[e] = "exec" /\ pc'[e] = "focus"
  BY <1>3 DEF FocusFlagAgrees
<1>4. CASE p = 1 /\ BootFocus
  <2>1. PICK q \in 0..nproc : Finds(newpid[1], q) /\ foreground_process' = q
    BY <1>4 DEF BootFocus
  <2>2. pc[1] = "bootfocus" /\ q \in Procs /\ UNCHANGED is_foreground
    BY <1>0, <1>4, <2>1 DEF BootFocus, At
  <2> QED
    BY <1>0, <2>1, <2>2 DEF BootHandOff
<1>5. CASE SpawnFocus(p)
  <2>1. /\ pc[p] = "focus" /\ foreground_process' = proc_filho /\ UNCHANGED is_foreground
        /\ At(p, "focus")
    BY <1>5 DEF SpawnFocus, At
  <2>2. prog[p] = "exec"
    BY <2>1 DEF Sadio, LabelInv, SpawnLabels
  <2>3. p \in Procs
    BY <2>1, <2>2, MoverIs
  <2>4. is_foreground[proc_filho]
    BY <1>0, <2>1, <2>2, <2>3 DEF HandOff
  <2> QED
    BY <2>1, <2>4
<1>6. CASE foreground_process' \in Procs /\ is_foreground'[foreground_process']
  BY <1>6
<1>7. CASE SpawnClear(p) /\ prog[p] = "exec"
  <2>1. pc'[p] = "focus" /\ At(p, "clear")
    BY <1>0, <1>7 DEF SpawnClear, Goto
  <2>2. p \in Procs
    BY <1>7, <2>1, MoverIs
  <2>3. prog'[p] = "exec" /\ p \in Procs'
    BY <1>1, <1>2, <1>7, <2>2
  <2> QED
    BY <2>1, <2>3
<1>8. CASE /\ UNCHANGED foreground_process /\ ~SpawnFocus(p)
           /\ \A q \in Slot : is_foreground[q] => is_foreground'[q]
  <2>1. CASE is_foreground[foreground_process]
    <3>1. foreground_process \in Slot
      BY <1>0, <1>8
    <3> QED
      BY <1>8, <2>1, <3>1
  <2>2. CASE \E e \in Procs : prog[e] = "exec" /\ pc[e] = "focus"
    <3>1. PICK e \in Procs : prog[e] = "exec" /\ pc[e] = "focus"
      BY <2>2
    <3>2. CASE e # p
      BY <1>1, <1>2, <3>1, <3>2
    <3>3. CASE e = p
      <4>1. pc[p] = "focus"
        BY <3>1, <3>3
      <4>2. p # 1
        BY <4>1 DEF Sadio, BootInv
      <4> QED
        BY <1>8, <4>1, <4>2 DEF KernelStep, AppStep, CreateLoad, CreateStore, CreateLink, CreateFail, At,
           SpawnTake, ElfLoad, SpawnFilho, SpawnPai, SpawnParent, SpawnTest,
           SpawnGive, SpawnClear, ReturnPoint, ShellCheck, ShellNoKey, ShellExec, ShellKill,
           AppExec, AppSleep, SysExit, AppKill, AppFault, KillSelf
    <3> QED
      BY <3>2, <3>3
  <2> QED
    BY <1>0, <1>8, <2>1, <2>2 DEF FocusFlagAgrees
<1> QED
  BY <1>4, <1>5, <1>6, <1>7, <1>8, FlagsStay

(* The timer and the halted CPU leave the list, the flags and the labels alone. *)
LEMMA FocusStep ==
  ASSUME Sadio, [Next]_vars
  PROVE  FocusInv'
<1>1. CASE \E p \in Slot : KernelStep(p) \/ AppStep(p)
  <2>1. PICK p \in Slot : KernelStep(p) \/ AppStep(p)
    BY <1>1
  <2> QED
    BY <2>1, OneExecStep, BootHandOffStep, RequesterStep, HandOffStep, FlagStep DEF FocusInv
<1>2. CASE Tick \/ UNCHANGED vars
  <2>1. UNCHANGED <<nproc, pid, prog, is_foreground, foreground_process, newpid, boot,
                    pid_do_pai, proc_filho, proc_pai, pc, pendente>>
    BY <1>2 DEF Tick, vars, listVars, focusVars, pidVars, spawnVars
  <2>2. FocusInv
    BY DEF Sadio
  <2>3. OneExec'
    BY <2>1, <2>2 DEF FocusInv, OneExec, IsCreator
  <2>4. BootHandOff'
    BY <2>1, <2>2 DEF FocusInv, BootHandOff, Finds
  <2>5. pendente' # 0 => SomebodyHas(pendente)'
    BY <2>1, <2>2 DEF FocusInv, SomebodyHas
  <2>6. \A p \in Procs' : prog'[p] = "exec" => HandOff(p)'
    BY <2>1, <2>2 DEF FocusInv, HandOff, SomebodyHas, UniquePids
  <2>7. FocusFlagAgrees'
    BY <2>1, <2>2 DEF FocusInv, FocusFlagAgrees, UniquePids
  <2> QED
    BY <2>3, <2>4, <2>5, <2>6, <2>7 DEF FocusInv
<1> QED
  BY <1>1, <1>2 DEF Next, HaltLoop

LEMMA FocusInit == Init => FocusInv
<1>1. Init => OneExec /\ BootHandOff /\ pendente = 0 /\ Procs = {} /\ foreground_process = 0
  BY OneIsASlot DEF Init, OneExec, BootHandOff
<1> QED
  BY <1>1 DEF FocusInv, FocusFlagAgrees

(* While pids are unique, whoever the keyboard is routed to carries the
   is_foreground flag, or App_Exec is between the two assignments of a hand-off
   (proc.c:710-712): for every interleaving of launches, exits, kills and
   preemptions, whatever is killed meanwhile. *)
THEOREM KeyboardAndFlagAgree == Spec => []FocusFlagAgrees
<1>1. Sadio /\ [Next]_vars => FocusInv'
  BY FocusStep
<1>2. FocusInv => FocusFlagAgrees
  BY DEF FocusInv
<1> QED
  BY <1>1, <1>2, FocusInit, TypeCorrect, LabelCorrect, PTL DEF Spec, Sadio
=============================================================================
