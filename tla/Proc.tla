-------------------------------- MODULE Proc --------------------------------
(***************************************************************************)
(* The process core of the kernel: drivers/proc.c, the process syscalls of *)
(* drivers/syscall.c, the kernel tasks of drivers/apps.c and shell.c, the  *)
(* process part of kernel_main, and the fault path of drivers/idt.c.       *)
(*                                                                         *)
(* One CPU.  Every process has a program counter; only the process the     *)
(* scheduler dispatched takes steps, and the timer may preempt it between  *)
(* any two of them.  A step is a stretch of code that runs with interrupts *)
(* disabled (cli..sti, or a system call entered through the interrupt gate *)
(* 0x80), or one access to shared state where they are enabled.            *)
(*                                                                         *)
(* create_process links a PCB in front of `head' and no task ever unlinks  *)
(* one, so a process is named by its rank in linking order: the list is    *)
(* nproc, nproc-1, ..., 1, `head' is nproc and `p->next' is p-1.           *)
(***************************************************************************)
EXTENDS Naturals, Sequences

CONSTANTS
  MaxProcs,     \* bound: how many PCBs the kernel heap can hold
  MaxPid,       \* bound on next_pid
  MaxAttempts,  \* the 256 of schedule(): how far it looks for a READY process
  SleepTicks,   \* ticks_to_wait values the applications sleep for
  ShellTicks,   \* ticks_to_wait of the shell's sys_sleep(10)
  KillTargets,  \* pids given to SYS_KILL
  Faults        \* whether Ring 3 applications may fault

ASSUME ProcsAssumption  == MaxProcs \in Nat /\ MaxProcs >= 4
ASSUME PidAssumption    == MaxPid \in Nat
ASSUME AttemptAssumption == MaxAttempts \in Nat
ASSUME TicksAssumption  == SleepTicks \subseteq Nat \ {0} /\ ShellTicks \in Nat \ {0}
ASSUME KillAssumption   == KillTargets \subseteq Nat
ASSUME FaultsAssumption == Faults \in BOOLEAN

VARIABLES
  nproc,               \* number of linked PCBs; also `head'
  current_process,     \* 0 is NULL
  state,               \* process_t.state
  wake,                \* wake_up_time - system_ticks, while SLEEPING
  is_foreground,
  parent_pid,
  pid,
  prog,                \* the code the process runs
  pc,                  \* where in it the process is
  next_pid,
  newpid,              \* create_process's copy of next_pid, per creator
  boot,                \* how many tasks kernel_main has created
  pendente,            \* SYS_EXEC slot: pai_solicitante_pid, 0 when tem_pedido_exec is false
  pid_do_pai, proc_filho, proc_pai,  \* locals of process_spawn_pending
  foreground_process,  \* 0 is NULL
  halted               \* the CPU executed cli; hlt

listVars  == <<nproc, pid, prog>>
focusVars == <<is_foreground, foreground_process>>
cpuVars   == <<current_process, state, wake>>
pidVars   == <<next_pid, newpid, boot>>
spawnVars == <<pid_do_pai, proc_filho, proc_pai>>

vars == <<listVars, focusVars, cpuVars, pidVars, spawnVars, parent_pid, pc,
          pendente, halted>>

Slot     == 1..MaxProcs
Procs    == 1..nproc
States   == {"FREE", "ZOMBIE", "READY", "RUNNING", "SLEEPING"}
Programs == {"none", "kernel", "shell", "launcher", "exec", "app"}
Labels   == {"none", "create", "store", "link", "bootflag", "bootfocus", "idle",
             "input", "key", "load", "poll", "filho", "pai", "parent", "test",
             "give", "clear", "focus", "run", "dead", "fault"}

(* The tasks kernel_main creates, in order; task_b, the reaper, is not one. *)
BootTasks == <<"kernel", "shell", "launcher", "exec">>

(* The first instruction of each program. *)
EntryPoint(task) ==
  [kernel |-> "create", shell |-> "input", launcher |-> "load", exec |-> "poll",
   app |-> "run"][task]

(* The boot code has no PCB until Kernel_Task exists, whose PCB then holds it. *)
Init ==
  /\ nproc = 0
  /\ current_process = 0
  /\ state = [p \in Slot |-> "FREE"]
  /\ wake = [p \in Slot |-> 0]
  /\ is_foreground = [p \in Slot |-> FALSE]
  /\ parent_pid = [p \in Slot |-> 0]
  /\ pid = [p \in Slot |-> 0]
  /\ prog = [p \in Slot |-> "none"]
  /\ pc = [p \in Slot |-> IF p = 1 THEN "create" ELSE "none"]
  /\ next_pid = 1
  /\ newpid = [p \in Slot |-> 0]
  /\ boot = 0
  /\ pendente = 0
  /\ pid_do_pai = 0 /\ proc_filho = 0 /\ proc_pai = 0
  /\ foreground_process = 0
  /\ halted = FALSE

(* p holds the CPU and is at label l. *)
At(p, l) ==
  /\ ~halted
  /\ p = (IF current_process = 0 THEN 1 ELSE current_process)
  /\ pc[p] = l

Goto(p, l) == pc' = [pc EXCEPT ![p] = l]

(* q is the result of find_process_by_pid(x): the first match from head, or NULL. *)
Finds(x, q) ==
  \/ q = 0 /\ \A r \in Procs : pid[r] # x
  \/ q \in Procs /\ pid[q] = x /\ \A r \in Procs : pid[r] = x => r <= q

-----------------------------------------------------------------------------
(* schedule() and the timer interrupt *)

(* Mutant of Awake: a sleeper is woken one tick too early. *)
AwakeEarly(s, w) ==
  [p \in Slot |-> IF p \in Procs /\ s[p] = "SLEEPING" /\ w[p] <= 1 THEN "READY" ELSE s[p]]

(* The states s after the wake-up scan, remaining ticks w already counted down. *)
Awake(s, w) ==
  [p \in Slot |-> IF p \in Procs /\ s[p] = "SLEEPING" /\ w[p] = 0 THEN "READY" ELSE s[p]]

(* Mutants of Demote: the test of state 2 is lost, or the whole demotion is. *)
DemoteAlways(s) == [s EXCEPT ![current_process] = "READY"]
DemoteNever(s)  == s

(* The interrupted process goes back to READY only if it was RUNNING. *)
Demote(s) ==
  [s EXCEPT ![current_process] = IF @ = "RUNNING" THEN "READY" ELSE @]

(* How many links schedule() follows from its first candidate before it looks at q. *)
Distance(q) ==
  IF q < current_process THEN current_process - 1 - q
                         ELSE (current_process - 1) + (nproc - q)

(* The READY processes the scan reaches within MaxAttempts links. *)
Reachable(s) ==
  {q \in Procs : s[q] = "READY" /\ Distance(q) <= MaxAttempts}

(* Mutant of Selects: the search starts at head instead of current_process->next. *)
SelectsFromHead(s, q) ==
  IF Reachable(s) # {}
  THEN q \in Reachable(s) /\ \A r \in Reachable(s) : r <= q
  ELSE q = IF s[current_process] = "READY" THEN current_process ELSE nproc

(* q is the process schedule() selects; with none reachable it keeps a READY
   current process and otherwise takes the head, whatever its state. *)
Selects(s, q) ==
  IF Reachable(s) # {}
  THEN q \in Reachable(s) /\ \A r \in Reachable(s) : Distance(q) <= Distance(r)
  ELSE q = IF s[current_process] = "READY" THEN current_process ELSE nproc

(* One more tick has passed for the sleepers of s. *)
CountDown(s, w) ==
  [p \in Slot |-> IF s[p] = "SLEEPING" /\ w[p] > 0 THEN w[p] - 1 ELSE 0]

(* The states among which schedule() selects. *)
Candidates(s, w) == Demote(Awake(s, CountDown(s, w)))

(* timer_handler: tick, wake, demote, select, dispatch.  s and w are the states
   and remaining ticks the interrupted code left behind. *)
TimerHandler(s, w) ==
  /\ wake' = CountDown(s, w)
  /\ \E q \in Procs :
       /\ Selects(Candidates(s, w), q)
       /\ current_process' = q
       /\ state' = [Candidates(s, w) EXCEPT ![q] = "RUNNING"]

(* IRQ 0; before Kernel_Task exists schedule() returns at once. *)
Tick ==
  /\ ~halted
  /\ nproc > 0
  /\ TimerHandler(state, wake)
  /\ UNCHANGED <<listVars, focusVars, pidVars, spawnVars, parent_pid, pc, pendente, halted>>

-----------------------------------------------------------------------------
(* create_process(): kmalloc of the PCB, then next_pid++ as the unoptimised
   build executes it (a load and a store), then the kernel stack and the link. *)

IsCreator(p) == prog[p] \in {"launcher", "exec"}

CreateLoad(p) ==
  /\ At(p, "create")
  /\ next_pid <= MaxPid
  /\ newpid' = [newpid EXCEPT ![p] = next_pid]
  /\ Goto(p, "store")
  /\ UNCHANGED <<listVars, focusVars, cpuVars, next_pid, boot, spawnVars,
                 parent_pid, pendente, halted>>

CreateStore(p) ==
  /\ At(p, "store")
  /\ next_pid' = newpid[p] + 1
  /\ Goto(p, "link")
  /\ UNCHANGED <<listVars, focusVars, cpuVars, newpid, boot, spawnVars,
                 parent_pid, pendente, halted>>

(* What p creates, and where it continues when create_process returns. *)
Creates(p) == IF p = 1 THEN BootTasks[boot + 1] ELSE "app"

AfterCreate(p) ==
  IF p = 1
  THEN <<"create", "bootflag", "create", "idle">>[boot + 1]
  ELSE IF prog[p] = "exec" THEN "filho" ELSE "idle"

(* The locals of process_spawn_pending go out of scope when it returns. *)
SpawnReturns == pid_do_pai' = 0 /\ proc_filho' = 0 /\ proc_pai' = 0

(* Where p continues when its file or its memory was not there. *)
Fails(p) ==
  \/ prog[p] = "exec" /\ Goto(p, "poll") /\ SpawnReturns
  \/ prog[p] = "launcher" /\ Goto(p, "idle") /\ UNCHANGED spawnVars

(* The first process created becomes the current one. *)
CurrentAfterLink == IF current_process = 0 THEN nproc + 1 ELSE current_process

(* The new PCB enters the list at its head, READY and in background. *)
CreateLink(p) ==
  /\ At(p, "link")
  /\ nproc < MaxProcs
  /\ nproc' = nproc + 1
  /\ pid' = [pid EXCEPT ![nproc + 1] = newpid[p]]
  /\ prog' = [prog EXCEPT ![nproc + 1] = Creates(p)]
  /\ state' = [state EXCEPT ![nproc + 1] = "READY"]
  /\ parent_pid' = [parent_pid EXCEPT
                      ![nproc + 1] = IF current_process = 0 THEN 0 ELSE pid[current_process]]
  /\ current_process' = CurrentAfterLink
  /\ boot' = IF p = 1 THEN boot + 1 ELSE boot
  /\ newpid' = IF AfterCreate(p) \in {"bootflag", "filho"}
                 THEN newpid ELSE [newpid EXCEPT ![p] = 0]
  /\ pc' = [pc EXCEPT ![nproc + 1] = EntryPoint(Creates(p)), ![p] = AfterCreate(p)]
  /\ UNCHANGED <<focusVars, wake, next_pid, spawnVars, pendente, halted>>

(* kmalloc fails for the PCB, or for the stack after the pid was taken. *)
CreateFail(p) ==
  /\ At(p, "create") \/ At(p, "link")
  /\ IsCreator(p)
  /\ newpid' = [newpid EXCEPT ![p] = 0]
  /\ Fails(p)
  /\ UNCHANGED <<listVars, focusVars, cpuVars, next_pid, boot, parent_pid, pendente, halted>>

(* kernel_main hands the keyboard to the shell, then creates the other tasks. *)
BootFlag ==
  /\ At(1, "bootflag")
  /\ \E q \in 0..nproc :
       /\ Finds(newpid[1], q)
       /\ q # 0
       /\ is_foreground' = [is_foreground EXCEPT ![q] = TRUE]
  /\ Goto(1, "bootfocus")
  /\ UNCHANGED <<listVars, foreground_process, cpuVars, pidVars, spawnVars,
                 parent_pid, pendente, halted>>

BootFocus ==
  /\ At(1, "bootfocus")
  /\ \E q \in 0..nproc :
       /\ Finds(newpid[1], q)
       /\ foreground_process' = q
  /\ newpid' = [newpid EXCEPT ![1] = 0]
  /\ Goto(1, "create")
  /\ UNCHANGED <<listVars, is_foreground, cpuVars, next_pid, boot, spawnVars,
                 parent_pid, pendente, halted>>

-----------------------------------------------------------------------------
(* task_c and task_d: loading programs *)

(* Mutant of SpawnTake: tem_pedido_exec is not reset. *)
SpawnTakeKeeps(p) ==
  /\ At(p, "poll")
  /\ pendente # 0
  /\ pid_do_pai' = pendente
  /\ Goto(p, "load")
  /\ UNCHANGED <<listVars, focusVars, cpuVars, pidVars, proc_filho, proc_pai,
                 parent_pid, pendente, halted>>

(* process_spawn_pending takes the request and frees the slot under cli. *)
SpawnTake(p) ==
  /\ At(p, "poll")
  /\ pendente # 0
  /\ pid_do_pai' = pendente
  /\ pendente' = 0
  /\ Goto(p, "load")
  /\ UNCHANGED <<listVars, focusVars, cpuVars, pidVars, proc_filho, proc_pai,
                 parent_pid, halted>>

(* create_elf_process finds and maps the file, or returns 0. *)
ElfLoad(p) ==
  /\ At(p, "load")
  /\ \/ Goto(p, "create") /\ UNCHANGED spawnVars
     \/ Fails(p)
  /\ UNCHANGED <<listVars, focusVars, cpuVars, pidVars, parent_pid, pendente, halted>>

(* The two look-ups of the focus hand-off ... *)
SpawnFilho(p) ==
  /\ At(p, "filho")
  /\ \E q \in 0..nproc : Finds(newpid[p], q) /\ proc_filho' = q
  /\ newpid' = [newpid EXCEPT ![p] = 0]
  /\ Goto(p, "pai")
  /\ UNCHANGED <<listVars, focusVars, cpuVars, next_pid, boot, pid_do_pai, proc_pai,
                 parent_pid, pendente, halted>>

SpawnPai(p) ==
  /\ At(p, "pai")
  /\ \E q \in 0..nproc :
       /\ Finds(pid_do_pai, q)
       /\ \/ proc_filho # 0 /\ Goto(p, "parent") /\ proc_pai' = q
                             /\ UNCHANGED <<pid_do_pai, proc_filho>>
          \/ proc_filho = 0 /\ Goto(p, "poll") /\ SpawnReturns
  /\ UNCHANGED <<listVars, focusVars, cpuVars, pidVars, parent_pid, pendente, halted>>

SpawnParent(p) ==
  /\ At(p, "parent")
  /\ parent_pid' = [parent_pid EXCEPT ![proc_filho] = pid_do_pai]
  /\ Goto(p, "test")
  /\ UNCHANGED <<listVars, focusVars, cpuVars, pidVars, spawnVars, pendente, halted>>

(* ... and the hand-off itself, every access on its own: interrupts are enabled. *)
SpawnTest(p) ==
  /\ At(p, "test")
  /\ IF proc_pai # 0 /\ is_foreground[proc_pai]
     THEN Goto(p, "give") /\ UNCHANGED spawnVars
     ELSE Goto(p, "poll") /\ SpawnReturns
  /\ UNCHANGED <<listVars, focusVars, cpuVars, pidVars, parent_pid, pendente, halted>>

SpawnGive(p) ==
  /\ At(p, "give")
  /\ is_foreground' = [is_foreground EXCEPT ![proc_filho] = TRUE]
  /\ Goto(p, "clear")
  /\ UNCHANGED <<listVars, foreground_process, cpuVars, pidVars, spawnVars,
                 parent_pid, pendente, halted>>

SpawnClear(p) ==
  /\ At(p, "clear")
  /\ is_foreground' = [is_foreground EXCEPT ![proc_pai] = FALSE]
  /\ Goto(p, "focus")
  /\ UNCHANGED <<listVars, foreground_process, cpuVars, pidVars, spawnVars,
                 parent_pid, pendente, halted>>

(* The keyboard queue is drained too; it belongs to module Keyboard. *)
SpawnFocus(p) ==
  /\ At(p, "focus")
  /\ foreground_process' = proc_filho
  /\ Goto(p, "poll")
  /\ SpawnReturns
  /\ UNCHANGED <<listVars, is_foreground, cpuVars, pidVars, parent_pid, pendente, halted>>

-----------------------------------------------------------------------------
(* System calls *)

(* Mutant of SysExec: a new request replaces the pending one. *)
SysExecReplaces(p) ==
  /\ pendente' = pid[p]
  /\ UNCHANGED <<listVars, focusVars, cpuVars, pidVars, spawnVars, parent_pid, halted>>

(* SYS_EXEC accepts one request at a time; when the slot is taken it returns
   -2 and changes nothing. *)
SysExec(p) ==
  /\ pendente = 0
  /\ pendente' = pid[p]
  /\ UNCHANGED <<listVars, focusVars, cpuVars, pidVars, spawnVars, parent_pid, halted>>

(* sys_sleep(): wake_up_time, state 3, then the timer's own entry by int 0x20. *)
SysSleep(p, ticks) ==
  /\ TimerHandler([state EXCEPT ![p] = "SLEEPING"], [wake EXCEPT ![p] = ticks])
  /\ UNCHANGED <<listVars, focusVars, pidVars, spawnVars, parent_pid, pendente, halted>>

(* Mutant of FocusBack: the keyboard goes back, the flag does not. *)
FocusBackNoFlag(t) ==
  IF is_foreground[t]
  THEN \E pai \in 0..nproc :
         /\ Finds(parent_pid[t], pai)
         /\ foreground_process' = IF pai # 0 THEN pai ELSE foreground_process
         /\ UNCHANGED is_foreground
  ELSE UNCHANGED focusVars

(* The focus of a dying process t goes back to whoever has its parent's pid. *)
FocusBack(t) ==
  IF is_foreground[t]
  THEN \E pai \in 0..nproc :
         /\ Finds(parent_pid[t], pai)
         /\ is_foreground' = IF pai # 0 THEN [is_foreground EXCEPT ![pai] = TRUE]
                                        ELSE is_foreground
         /\ foreground_process' = IF pai # 0 THEN pai ELSE foreground_process
  ELSE UNCHANGED focusVars

(* SYS_EXIT: focus, then terminate_current_process() (pid 1 is refused). *)
SysExit(p) ==
  /\ At(p, "run")
  /\ pid[p] > 1
  /\ FocusBack(p)
  /\ TimerHandler([state EXCEPT ![p] = "ZOMBIE"], wake)
  /\ Goto(p, "dead")
  /\ UNCHANGED <<listVars, pidVars, spawnVars, parent_pid, pendente, halted>>

(* kill_process(x) on a live process other than the caller. *)
KillOther(p, x) ==
  /\ x > 3
  /\ \E t \in Procs :
       /\ Finds(x, t)
       /\ t # p
       /\ state[t] # "ZOMBIE"
       /\ state' = [state EXCEPT ![t] = "ZOMBIE"]
       /\ FocusBack(t)
  /\ UNCHANGED <<listVars, current_process, wake, pidVars, spawnVars, parent_pid,
                 pendente, halted>>

(* kill_process on the caller's own pid: it gives the CPU away at once. *)
KillSelf(p, x) ==
  /\ At(p, "run")
  /\ x > 3
  /\ Finds(x, p)
  /\ FocusBack(p)
  /\ TimerHandler([state EXCEPT ![p] = "ZOMBIE"], wake)
  /\ Goto(p, "dead")
  /\ UNCHANGED <<listVars, pidVars, spawnVars, parent_pid, pendente, halted>>

-----------------------------------------------------------------------------
(* Ring 3 applications and the shell *)

AppExec(p)    == At(p, "run") /\ SysExec(p) /\ UNCHANGED pc
AppSleep(p)   == At(p, "run") /\ UNCHANGED pc /\ \E k \in SleepTicks : SysSleep(p, k)
AppKill(p)    == \E x \in KillTargets : \/ At(p, "run") /\ KillOther(p, x) /\ UNCHANGED pc
                                       \/ KillSelf(p, x)

(* A Ring 3 exception: exception_handler returns to kernel_main_return_point in
   Ring 0, which executes cli and hlt. *)
AppFault(p) ==
  /\ At(p, "run")
  /\ Faults
  /\ Goto(p, "fault")
  /\ UNCHANGED <<listVars, focusVars, cpuVars, pidVars, spawnVars, parent_pid, pendente, halted>>

ReturnPoint(p) ==
  /\ At(p, "fault")
  /\ halted' = TRUE
  /\ UNCHANGED <<listVars, focusVars, cpuVars, pidVars, spawnVars, parent_pid, pc, pendente>>

(* cli; hlt; jmp: nothing ends it. *)
HaltLoop == halted /\ UNCHANGED vars

(* The shell reads the keyboard only while it is in foreground. *)
ShellCheck(p) ==
  /\ At(p, "input")
  /\ is_foreground[p]
  /\ Goto(p, "key")
  /\ UNCHANGED <<listVars, focusVars, cpuVars, pidVars, spawnVars, parent_pid, pendente, halted>>

(* No key: sleep.  A completed line: a command, of which `exec' and `kill'
   concern processes; any other key or command leaves them alone. *)
ShellNoKey(p) == At(p, "key") /\ SysSleep(p, ShellTicks) /\ Goto(p, "input")
ShellExec(p)  == At(p, "key") /\ SysExec(p) /\ Goto(p, "input")
ShellKill(p)  == /\ At(p, "key")
                 /\ \E x \in KillTargets : KillOther(p, x)
                 /\ Goto(p, "input")

-----------------------------------------------------------------------------
(* What a dispatched process does without being asked to. *)
KernelStep(p) ==
  \/ CreateLoad(p) \/ CreateStore(p) \/ CreateLink(p) \/ CreateFail(p)
  \/ p = 1 /\ (BootFlag \/ BootFocus)
  \/ SpawnTake(p) \/ ElfLoad(p) \/ SpawnFilho(p) \/ SpawnPai(p) \/ SpawnParent(p)
  \/ SpawnTest(p) \/ SpawnGive(p) \/ SpawnClear(p) \/ SpawnFocus(p)
  \/ ReturnPoint(p)
  \/ ShellCheck(p) \/ ShellNoKey(p) \/ ShellExec(p) \/ ShellKill(p)

(* What applications may do, or not. *)
AppStep(p) ==
  \/ AppExec(p) \/ AppSleep(p) \/ SysExit(p) \/ AppKill(p) \/ AppFault(p)

Next == Tick \/ HaltLoop \/ \E p \in Slot : KernelStep(p) \/ AppStep(p)

Spec == Init /\ [][Next]_vars

(* The PIT interrupts forever. *)
TickSpec == Spec /\ WF_vars(Tick)

(* ... and a time slice is long enough to execute at least one step of the
   dispatched process. *)
FairSpec == TickSpec /\ \A p \in Slot : SF_vars(KernelStep(p))
-----------------------------------------------------------------------------
(* Properties *)

(* Every variable keeps its type; pids are positive once a PCB is linked. *)
TypeOK ==
  /\ nproc \in 0..MaxProcs
  /\ current_process \in 0..nproc
  /\ (current_process = 0) <=> (nproc = 0)
  /\ state \in [Slot -> States]
  /\ wake \in [Slot -> Nat]
  /\ is_foreground \in [Slot -> BOOLEAN]
  /\ parent_pid \in [Slot -> Nat]
  /\ pid \in [Slot -> Nat]
  /\ prog \in [Slot -> Programs]
  /\ pc \in [Slot -> Labels]
  /\ next_pid \in Nat \ {0}
  /\ newpid \in [Slot -> Nat]
  /\ boot \in 0..Len(BootTasks)
  /\ pendente \in Nat /\ pid_do_pai \in Nat
  /\ proc_filho \in 0..nproc /\ proc_pai \in 0..nproc
  /\ foreground_process \in 0..nproc
  /\ halted \in BOOLEAN

(* The scheduler never leaves the CPU with a dead or a sleeping process, and
   no process is marked RUNNING without holding the CPU (proc.c:343-355). *)
CpuHeldByTheLiving ==
  /\ current_process # 0 => state[current_process] \in {"READY", "RUNNING"}
  /\ \A p \in Procs : state[p] = "RUNNING" => p = current_process

(* A process that was killed, or that executed its own exit, is a zombie and is
   never scheduled again, whatever interleaving of sleeps, kills and preemptions
   follows (proc.c:342, 397, 648). *)
DeadStaysDead ==
  [][\A p \in Slot : state[p] = "ZOMBIE" \/ pc[p] = "dead" => state'[p] = "ZOMBIE"]_vars

(* proc.h:53 calls a pid the unique identifier of a process. *)
UniquePids == \A p, q \in Procs : pid[p] = pid[q] => p = q

(* While pids are unique, the process the keyboard is routed to carries the
   is_foreground flag, except between the two assignments of a hand-off
   (proc.c:711-712).  With a duplicated pid the hand-off may take the child for
   its own parent and clear the flag it has just set. *)
FocusFlagAgrees ==
  UniquePids /\ foreground_process # 0 =>
    \/ is_foreground[foreground_process]
    \/ \E p \in Procs : prog[p] = "exec" /\ pc[p] = "focus"

(* A request SYS_EXEC accepted stays in the slot until the spawner takes it
   over: no later request replaces it and nobody else clears it
   (syscall.c:281-301, proc.c:682-694). *)
RequestNotLost ==
  [][pendente # 0 /\ pendente' # pendente =>
       /\ prog[current_process] = "exec"
       /\ pendente' = 0
       /\ pid_do_pai' = pendente]_vars

(* A sleeping process is not woken before its ticks have been counted, unless
   it is killed (proc.c:309-319). *)
WakesOnlyWhenDue ==
  [][\A p \in Slot : state[p] = "SLEEPING" /\ state'[p] \in {"READY", "RUNNING"} =>
        wake[p] <= 1]_vars

(* Round robin starves nobody: a READY process gets the CPU or is killed, as long
   as no application's fault has halted the system (idt.c:109). *)
ReadyRuns == \A p \in Slot : state[p] = "READY" ~> (state[p] # "READY" \/ halted)

(* An accepted exec request is eventually taken by App_Exec, unless App_Exec is
   killed, its pid not being one of those kill_process protects (proc.c:626),
   or an application's fault halts the system. *)
ExecServed ==
  (pendente # 0) ~>
    \/ pendente = 0
    \/ \E p \in Procs : prog[p] = "exec" /\ state[p] = "ZOMBIE"
    \/ halted

(* The keyboard is never left with a process that is dead: a dying process
   gives it back (proc.c:654-655), so once a hand-off is over its holder lives. *)
FocusOnTheLiving ==
  foreground_process # 0 =>
    \/ state[foreground_process] # "ZOMBIE"
    \/ \E p \in Procs : pc[p] \in {"give", "clear", "focus"}
=============================================================================
