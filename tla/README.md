# LBF-OS64: specification of the kernel and of its desktop

TLA+ models of LBF-OS64 (`src/SO-Kernel`, the kernel in `KERNEL_280426_v0.0.8`, called
`K/` below), TLC configurations that check them on small instances, and TLAPS
proofs that hold for every instance.

LBF-OS64 is a 64-bit hobby system for one CPU: preemptive round robin driven by the
PIT, Ring 3 applications loaded from FAT32, a flat list of PCBs, a kernel heap over a
bitmap of page frames, polled AHCI and EHCI disks, interrupt-driven keyboard, mouse
and serial ports, an explorer that shows the windows of the applications through a
shared page, and a GUI library linked to each application.

## 1. Inventory

| component | state | operations | what makes it correct |
|---|---|---|---|
| process core (`K/drivers/proc.c`, `timer.c`, `apps.c`, `kernel.c`) | PCB list, `current_process`, `foreground_process`, `next_pid`, exec slot | create, schedule, sleep, exit, kill, spawn | no dead or sleeping process runs; nobody starves; requests are served; the keyboard belongs to a live process |
| kernel heap (`K/mem/kmalloc.c`) | block list, heap ends | kmalloc, kfree, heap_init, stats | regions in use are disjoint and mapped; nothing is lost; free neighbours are merged |
| frames and page tables (`K/mem/pmm.c`, `vmm.c`) | bitmap; page tables | alloc, free, map | a frame has one owner |
| ELF loader (`K/include/elf.c`) | new address spaces | load, create process, unload | all or nothing; copies go to the new space only |
| exceptions, IDT, system calls (`K/drivers/idt.c`, `interrupts.asm`, `syscall.c`) | gates | dispatch | a faulting application does not stop the others |
| keyboard (`K/drivers/keyboard.c`) | ring, modifiers | interrupt handler, pop, line read, drain for a new child | order kept; a child starts with an empty ring |
| mouse (`K/drivers/mouse.c`) | packet state, pointer | interrupt handler | resynchronises after a lost byte |
| serial ports, PIC (`K/drivers/hw/serial.c`, `pic.c`, `Runtime/components/TOSSerial.c`) | ports, receive rings, masks, TOSSerial objects | open, close, set baud, read, interrupt | one holder per port; an open port receives |
| VFS (`K/drivers/vfs.c`) | descriptor table, nodes | open, read, write, close | a descriptor names one live file and stays inside it |
| FAT32 (`K/fs`) | mounted geometry, current directory | mount, read, write, append, delete, list, cd, mkdir, copy | what is read is the file; the current directory is one; operations end |
| disks (`K/drivers/hw/ahci_*.c`, `K/drivers/pd`) | command slot, bounce buffer; queue heads, toggles, tags | read, retry, reset | a caller gets the data of its own command |
| window list (`software/explorer.c`, `Runtime/components/TOS_IPC.c`) | shared page: slots, focus, drag, stack | register, exit, kill, sweep, click, drag | a window belongs to one application; what is dragged is focused |
| GUI library and runtime (`gui`, `events`, `Runtime`) | controls and their twins, focus, window stack | create, click, key, turn of the loop | the painted control and the one the application reads agree |
| user heap (`system/malloc.c`) | block list, break | malloc, free, realloc over SYS_SBRK | data kept, heap tiled |
| terminal and line editor (`K/drivers/video.c`, `double_buffering.c`, `shell/shell.c`) | cursor, `ram_buffer`, `refresh_screen`, command line | put a character, clear, flush, edit the line | the cursor stays on the screen; the echo is the line; what is drawn is shown |
| fonts and bitmaps, PCI and PS/2 set-up, string functions, text generator | | | not modelled, see section 5 |

How they interact.  Tasks and applications share the CPU; IRQ 0 enters
`timer_handler` and may switch to any other process between two instructions, except
between `cli` and `sti` or inside a system call (gate 0x80 is an interrupt gate).  The
shell and applications put exec requests into a one-place slot that the task App_Exec
polls; it loads the program and hands over the keyboard.  Dying processes hand the
keyboard back to their parent.  `kmalloc` and `kfree` end with an unconditional `sti`,
so a caller's own `cli` does not survive them.  The drivers have one set of variables
each and, but for the lock bit of a serial port and the spin lock around
`fat32_mount`, no lock.  Explorer and applications read and write the window list with
plain loads and stores.

Hard behaviours: preemption inside `create_process`, the focus hand-off, a copy into a
new address space, a disk read, and the registration of a window; kills and exits that
race with these; interrupt handlers against readers; lost bytes of the mouse and lost
edges of an interrupt line; time-outs and retries of a USB disk; a disk mounted in the
middle of somebody else's read; heaps after long mixtures of splits and merges;
running out of memory halfway; two copies of every control of a window.
PROJECT.json lists each hazard at its line with the properties that cover it.

## 2. Modules

| module | models | kind |
|---|---|---|
| `Proc`, `ProcProofs` | process core, process system calls, shell's process commands, boot order, fault path | state machine, proofs |
| `HeapSpec` | what the kernel heap promises | abstract specification |
| `Kmalloc`, `KmallocProofs` | `kmalloc.c` | refines `HeapSpec`, proofs |
| `Pmm` | `pmm.c`, access by access | one state machine per caller |
| `ElfLoad`, `ElfProofs`, `MCElf` | `elf.c` over `Pmm` and `vmm.c`, CR3, preemption | composes `Pmm`, proofs, values |
| `Keyboard` | `keyboard.c`, focus hand-over | state machine |
| `Mouse` | `mouse.c` | state machine |
| `Serial` | `serial.c`, `pic.c`, `TOSSerial.c`, IRQ 3 and 4 | state machine |
| `Vfs` | `vfs.c` | state machine |
| `StreamProofs` | | proofs about `Serial`, `Vfs` and `Fat32` |
| `Console` | the terminal of `video.c`, `double_buffering.c`, the line editor of `shell.c`, the system calls that print or paint | state machine |
| `TerminalProofs` | | proofs about `Keyboard`, `Mouse` and `Console` |
| `Ahci` | `ahci_*.c` and the disk | state machine |
| `EhciList` | the asynchronous list of `ehci_core.c`, `ehci_storage.c` | state machine |
| `UsbBot` | the bulk-only protocol of `ehci_storage.c` and the device | state machine |
| `DiskProofs` | | proofs about `Ahci`, `EhciList` and `UsbBot` |
| `Fat32` | `fs/fat32*.c` | state machine |
| `Ipc` | `explorer.c`, `TOS_IPC.c`, the applications' loops | state machine |
| `Gui`, `GuiProofs` | one window: library, runtime, event loop | state machine, proofs |
| `UserMalloc` | `system/malloc.c` over SYS_SBRK | state machine |
| `DesktopProofs` | | proofs about `Ipc` and `UserMalloc` |
| `MCDisks`, `MCDevices`, `MCDesktop` | several of these, one at a time | values, one run for each group |

The three MC modules give a run to components that do not share state: the variable
`qual` names the one that moves, the others stay in an initial state.

### Proc

One CPU: `current_process` takes steps, `Tick` may preempt it between any two.
A step is a stretch executed with interrupts off, or one access to shared state
where they are on; `pc` names the next step.

| code | action |
|---|---|
| `create_process`: `next_pid++`, stack, link | `CreateLoad`, `CreateStore`, `CreateLink`, `CreateFail` |
| `kernel_main`: four tasks, focus of the shell | `BootTasks`, `AfterCreate`, `BootFlag`, `BootFocus` |
| `timer_handler` and `schedule` | `TimerHandler` (`CountDown`, `Awake`, `Demote`, `Selects`), `Tick` |
| `process_spawn_pending` | `SpawnTake`, `ElfLoad`, `Create*`, `SpawnFilho` ... `SpawnFocus` |
| `SYS_EXEC`, `SYS_SLEEP`, `SYS_EXIT`, `SYS_KILL` | `SysExec`, `SysSleep`, `SysExit`, `KillOther`, `KillSelf` |
| `shell_task`, commands `exec` and `kill` | `ShellCheck`, `ShellNoKey`, `ShellExec`, `ShellKill` |
| `exception_handler` for Ring 3 and its return point | `AppFault`, `ReturnPoint`, `HaltLoop` |

`create_process` links at the head and nothing unlinks, so a process is its rank
in linking order and the list needs no pointers.  `wake` is the number of ticks
left, not an absolute time, which keeps the state finite.  `next_pid++` is a load
and a store because the build does not optimise.  The contents of files, paths
and address spaces are abstracted: a load succeeds or fails.

### Kmalloc and HeapSpec

Each heap function runs with interrupts off on the only CPU and is one step.
Addresses and lengths count 16 bytes, the alignment of every block; a header is
two units.  A heap is a record of the header fields by address.  `KmallocEncontra`,
`KmallocExpande` and `KmallocFalha` are the three ways through `kmalloc`; `Kfree`
is applied to regions in use only, as its callers do.  `HeapSpec` knows only the
set of regions in use and the end of the mapped part.

### Pmm and ElfLoad

The loaders, App_Launcher and App_Exec, are kernel tasks and call `pmm.c` with
interrupts enabled.  `Pmm` gives each caller a program counter `op` and one step per
access to `bitmap` or `last_bit_index`; `|=` and `&=` are a load and a store.
`ElfLoad` adds the program counter of `elf.c`, the loaded address space `cr3`, the
interrupt flag and the dispatched process; a loader steps only while it is `atual`.

| code | action |
|---|---|
| `pmm_alloc_block` | `Aloca`, `Busca` (one word), `Le`, `MarcaBloco`, `Guarda` |
| `pmm_free_block` | `SoltaBloco`, `LeLivre`, `LimpaBloco`, `Recua` |
| `create_elf_process`: PML4, PDPT, page directory | `Comeca`, `TemPml4`, `TemPdpt`, `TemPd` |
| `elf_load_file`: headers, mapping | `Cabecalho`, `TemPagina`, `TemTabela` (`get_next_table`), `ProximaPagina` |
| `elf_load_file`: copies, `elf_clear_bss` | `Cli`, `Buffer`, `Troca`, `CopiaParte`, `Volta` |
| process or failure | `CriaProcesso`, `SemEntrada`, `Desfaz`, `Desfeito` |
| `timer_handler`, `schedule`: the CR3 of the next PCB | `Tick`, `Despacha` |

A space is the frame of each of its tables and pages.  The program is one segment
and the stack, each under one page table; a real file adds segments, that is,
repetitions of the same steps.  Frames taken by the heap are not counted:
`kmalloc` fails, at most, when no frame is free.

### Keyboard and Mouse

| code | action |
|---|---|
| `keyboard_handler`: a key, shift down and up, caps lock | `Aperta`, `ApertaShift`, `SoltaShift`, `ApertaCaps` |
| SYS_GET_KEY and the shell | `PegaTecla` |
| `keyboard_vfs_read`, key by key | `PedeLinha`, `LeLinha` |
| `process_spawn_pending`: focus, then the ring emptied | `PassaFoco`, `Drena` |
| `kill_process`, `sys_exit`: focus to the parent | `DevolveFoco` |
| `mouse_handler`, the three stages of its packet | `ByteMouse` (`Handler`) |
| a byte that never arrives; `mouse_set_screen_size` | `PerdeByte`, `TrocaResolucao` |

The ghosts `guardadas` and `tiradas` are the characters stored and popped.  Scancodes
are four kinds of keys.  `mouse_byte` holds real bytes: the sync bit and the signs
decide what happens.  `cabeca`, `tortos` and `enganos` are ghosts that compare the
handler's cycle with the mouse's.

### Serial

A system call is one step (interrupts are off), an interrupt another.  `nivel` is the
level of an IRQ line and `irr` the requests its edges have latched, `mascara` what the
PIC masks.  `Open`, `Close`, `Read`, `Morre` are `OS_Serial_Open`, `OS_Serial_Close`,
`OS_Serial_Read` and the death of the application; `SetBaudFecha` and `SetBaudReabre`
the two system calls of `OS_Serial_SetBaud`; `Chega` a byte on the wire, `Irq4` the
handler, `Irq3` the missing gate.  Bytes are counted, not told apart.  The divisor
latch has its sixteen bits.

### Vfs

`Abre`, `AbreRaiz`, `AbreSubdir` are SYS_OPEN by the path it gets, with the lookup
(`Acomoda`) and the table (`Ocupa`); `LeArquivo`, `EscreveArquivo`, `Fecha` the other
calls; `InitStreams` is `vfs_init_standard_streams`, which nothing calls in this commit,
so that the VFS answers -1 to everything.  Heap nodes have addresses that are used
again.  What a read leaves of a file is computed modulo 2^32.

### Console

`terminal_putc` is a chain of steps, one access to the cursor, the memory or the flag
each, because the kernel is built without optimisation: `Chama`, `Desenha` or `Apaga`,
`CarregaX`/`GuardaX`, `CarregaY`/`GuardaY`, `Margem`, `Testa`, `Limpa`, `Topo`,
`Copia`/`Copiou`, `Avisa`.  `Prompt`, `Digita`, `Backspace`, `Enter` and `Executa` are
`shell_task`, which runs them with interrupts enabled.  `SysWrite`, `SysWriteFim`,
`SysClear` and `VideoFlip` are an application's system calls: behind the gate nobody else
moves (`Desmascarada`).  `SwapBuffers` is `db_swap_buffers`, the loop of `kernel_main` that
Kernel_Task goes on with.  Cells stand for pixels, one glyph for the prompt's path, and
the screen is only whether it shows `ram_buffer`.

### Disks

`Ahci`: `Inicializa`; a read is `MontaComando` (the table), `Emite` (PxCI), `Espera` (a turn
of the polling loop with its wrapping counter), `Entrega` (the bounce buffer);
`Busca_`, `Termina_` and `FalhaDisco` are the controller and the disk, which
fetch the table when they like.

`EhciList`: `Monta_`, `Insere`, `Remove` are a transfer's queue head built with the
head's link read, linked in, and taken out by restoring the link found; `Libera_` is the
end of a control transfer that went well, whose frame goes back to the allocator, and
`Reusa` its next owner.  Tasks send bulk transfers; SYS_TESTINIT (`NovaLista` to
`FimTestInit`, or `ParaControladora` when it fails early) sends both kinds, with no
interrupts but with the controller at work: `Executa` and `Percorre` come between any two
of its steps.  `perdida` is a ghost: since the list was built a frame was freed with the
controller at it.  What the controller reads after that is a stranger's, and `ListSound`
claims nothing of it; that it happens is the finding of `ehci_free`.

`UsbBot`: `LeSetores` begins a command; `SegueCbw`, `SegueDados` and `SegueCsw` go on
after each of its transfers, the last by the status (`Falhou`), `Desiste` gives up,
`TestInit` and `Insiste` are `ehci_storage_init` with its nine attempts over three pairs of
endpoints.  `PacoteOut`, `PacoteIn` and `Expira` are the device and the controller,
external: a device answers in full, or with a failed status after fewer packets
(`Respostas`), and a wrapper that meets a pending answer may be refused, replace the answer
or be answered after it.  `limpo` is a ghost: since the last start no transfer failed, no
answer fell short, no two commands overlapped and no new pair of endpoints found the
device's toggles elsewhere.  `InStep` and `OwnData` hold for such runs, with any number
of failed statuses and retries in them.  The other cases do go wrong in the code, and
are why the ghost is there:

- After a transfer that ran out of time the next command takes the late status of the one
  before, whose tag nobody compares: the finding of `usb_tag`.
- `ehci_storage.c:101` counts the packets of the length asked for, not those that came.
  When a device ends a read of two packets with a short one, which is no error, the
  toggle kept at 103 is not that of the next packet, which is dropped.
- "Sempre que trocamos de Endpoints, resetamos o sincronismo" (`ehci_storage.c:166`): lines
  167-168 put only the driver's toggles at 0.  The pairs {0x01, 0x81} and {0x01, 0x82} share
  an OUT endpoint, so a disk with the second pair has moved its OUT toggle when the driver
  comes to it, and takes the first command for a repetition.

The last two have no run of their own; `PacoteIn` and `Insiste` do what is said here.

`Fat32`: `Comeca` begins an operation, whose steps are a cluster each: `Busca`, `Lista`,
`MudaDir`, `Pula`, `Le`, `ApagaBusca`, `ApagaCadeia`, `Aloca`, `PoeEntrada`,
`AnexaBusca`, `AnexaUltimo`, `Anexa`, `MkdirAloca`, `MkdirVaga`, `CopiaBusca`, `CopiaLe`.
Every read may fail.  `Monta` is `fat32_mount` called by another process between two
steps.  Both functions that would write (fat32_file.c:25, fat32_logic.c:48) are stubs,
so the disks are constants and no crash can leave a half-written one.

### Desktop

`Ipc`: a registration is the test of the slots (`Procura`), the store that takes one
(`Ocupa_`) and the rest (`Carimba`); `Laco` is a turn of an application's loop, `Fecha_`
and `Sai` the exit button, `Condena` and `Mata` the KILL button; `Varre` and `Limpa` are
the explorer's sweep, `Mouse_` and `Clica` its mouse.  `corrida` is a ghost: two actors
were in one slot's life at once.  Nothing in the code prevents that; `OwnWindow` says
what holds as long as it has not happened.  Coordinates are the set of windows under
the pointer.

`Gui`: `Cria` adds the layout's next control in both copies, `AbreForma` a window; a
turn of the loop is `Clique`, `Tecla` or `Ocioso`, all through `Turno`, which is input,
library, runtime and painting in the order of test.c.  A control has a set of points
as its area.  `LayoutAssumption` says what the layouts of test.c, tarefa.c, serial.c,
temp.c and iachief.c have in common: no control lies over another or under a window
the application adds, no check box is checked when it is created, and the controls that
take text are among the first `MaxRegistro`.  Without it the properties fail: a window
opened over a control that is held would take its release.

`UserMalloc`: `Malloc`, `Free`, `Realloc` and `Completa` (the application writes into
what it got).  The ghost `mem` says whose data every unit holds.

## 3. Runs

| run | module | expected | shows |
|---|---|---|---|
| `proc` | Proc | pass | CPU, focus flag and request properties, the dead stay dead; 6 PCBs, no faults |
| `proc_live` | Proc | pass | an accepted exec request is served, no READY process starves, nobody wakes before its ticks are counted; with faults, sleeps of 1, 2 and 3 ticks, 5 PCBs |
| `proc_unique_pids` | Proc | violation | two creators get one pid |
| `proc_focus` | Proc | violation | the keyboard stays with a dead process |
| `elf_copy` | MCElf | violation | a tick during the copy: a program starts without part of its text or data |
| `disks` | MCDisks | pass | AHCI reads; the EHCI list, with overlapping transfers, new lists and frames given back; USB toggles in step and a command's own data, with failed statuses, short and late answers, retries; an application's heap |
| `devices` | MCDevices | pass | keyboard order and drain, mouse resynchronisation, serial holders and delivery, descriptors, the terminal and its line editor; FAT32 reads, directories and termination |
| `desktop` | MCDesktop | pass | the kernel heap's list, tiling, merging, statistics and refinement of `HeapSpec`; own address space, failed loads give everything back, no hole below the search start, loads end; windows, drags, sweeps; twins, clicks, carets and memos of a window |
| `serial_baud` | Serial | violation | a baud change loses the port to another application and the object for good |
| `ahci_timeout` | Ahci | violation | a read whose polling ran out reports success |
| `ehci_free` | EhciList | violation | a control transfer's frame is freed with the controller at it |
| `usb_tag` | UsbBot | violation | a command succeeds with the late status of the one before |

Bounds.  Proc: six PCBs are the four boot tasks and two applications, the least
with which two creations, a parent and child, and a kill of either can interleave;
`MaxPid` 6 lets every PCB get a pid and one be lost; `MaxAttempts` 5 lets the scan
go once round the list, as 256 does for a list of up to 257.
`proc` has one sleep length, two ticks; `proc_live` has one, two and three and an
application that may fault, with five PCBs, the boot tasks and one application.  A
fault changes no PCB and ends in a CPU that takes no more interrupts.  Kmalloc: three pages of
eight units hold eight smallest blocks; requests of one and two units are split off
or given out whole, one of five units forces expansions of more than a page and,
with the third page, failure.

Devices: a ring of three holds two characters, so it wraps, fills and drops; a reader
and a child; bytes of the mouse with and without the sync bit and the signs; ports
1 and 3 share a line and 2 does not; a FIFO of one byte; two heap nodes are reused and
run out, four descriptors are the three streams and one.  A file of three
units read by two ends in a short read.  A screen of two by two cells wraps after the
prompt and one letter and is cleared after three characters; a line of two letters fills,
and is erased across the wrap.

Disks: two callers; a polling loop of two turns, whose counter wraps modulo 8; four
frames hold the list's head, two queue heads and a new list or a control
transfer's.  `MaxComandos` 2 bounds the reads and the calls of SYS_TESTINIT; the nine attempts inside one run beyond it; reads of
one and of two packets turn the toggle and leave it.  FAT32: the two
images have a directory of two clusters with a vacant slot, files of one cluster
and of two that are not adjacent, an empty file and a subdirectory.

Desktop: two slots and two applications; `Segura` 1 and `TURNOS` 2 let a click be held
and released; three layouts with every kind of control; text of four characters in a
memo of two columns and one line wraps, scrolls and outgrows its buffer.
An application's heap: three pages and requests that fit a rest exactly, leave a split, or need two pages.

Fairness.  `TickSpec` of Proc assumes only that the PIT keeps interrupting (`timer_init`
in `kernel_main`); `ReadyRuns` needs no more.  `FairSpec` adds that a process that is
dispatched again and again executes some step of its program: strong fairness,
because the timer may take the CPU away at any time but a slice of 10 ms is never
empty.  Applications owe nothing and are not fair.  The other
three runs state fairness in their MC module, each for the component that moves
(`qual`).  In `MCDesktop`, loaders: the timer dispatches each again and again, which is
`ReadyRuns`, and a slice is long enough for a step; `Explorer`: the explorer is scheduled
again and again.  In `MCDevices`, `Irq4`: the CPU takes an unmasked request once the current
system call is over; `Passo`: the process in a FAT32 operation goes on.  `MCDisks` needs
none.  All but `Irq4` rest on `ReadyRuns`.  Disks, mouse, wire and applications owe nothing.

`ReadyRuns` and `ExecServed` except the halted system, where nothing is served any more:
`HaltLoop` is the loop of cli and hlt the handler of a Ring 3 fault returns to.  Deadlock is checked in
the runs of Proc; of the others some components may rest, all commands
given or the ring full.

Findings.  Each violation run checks what a comment of the code says; the `findings`
of PROJECT.json quote it and describe the trace.  Some disagreements showed while
reading and have no run:

- Comments of `sys_exit` and `kill_process` (proc.c:403, 647) leave the removal of a
  zombie to task_b, which `kernel_main` does not create.
- The yield inside `sys_sleep` is an `int 0x20` and counts as a tick (proc.c:452), so a
  sleep of one tick ends at once; `WakesOnlyWhenDue` counts ticks as the code does.
- With two loaders `pmm_alloc_block` can give one frame twice (pmm.c:68).
- When frames run out under a PDPT or page directory (elf.c:164), frame 0 is used and
  later freed.
- shell.c:71 says that '\b' erases the last character.  At a wrap the cursor is at column
  0, where `terminal_putc` does not step back (video.c:197): the line loses its last
  character and the screen keeps it.  `EchoIsLineEnd` claims the row of the cursor only.
- A '\n' of a system call between the test and the load of the shell's '\b' leaves the
  cursor one cell left of the screen; the next character is not drawn.
  `CursorComesBack` allows that cell.
- `terminal_clear` sets four bytes per pixel (video.c:178) of a buffer of pitch times
  height bytes, although video.c says it serves 24 bits too (video.c:54).  boot.asm:25
  calls VESA mode 118h one of 32 bits; where the BIOS makes it one of 24, the clear
  writes past the buffer.
- `OS_Edit_SetText` (os_edit.c:83-89) changes the caption of the library and not the text
  the runtime types into, which os_edit.h:9 calls mirrored.

## 4. Proofs

`ProcProofs`, for any number of PCBs, pids, ticks and kill targets:

- `TypeCorrect`: `TypeOK` with `BootInv`, which says how far the boot is at each
  label of `kernel_main` and that Kernel_Task is PCB 1 with pid 1; without it
  `AfterCreate` could not be shown to stay within `BootTasks`.
- `LabelCorrect`, `RequestsAreKept`: a process at a spawner's label is the spawner,
  so only the spawner clears the slot.
- `KeyboardAndFlagAgree`: `FocusInv` says at each label of the hand-off in
  `process_spawn_pending` which of parent and child exist and carry the flag: the
  parent's pid was taken before the child was linked, so while pids are unique they
  are two processes, and the flag of the child is set before the keyboard goes to it.
- `SchedulerCorrect`, `CpuIsHeldByTheLiving`, `TheDeadStayDead`,
  `SleepersWakeWhenDue`, all under `MaxProcs <= MaxAttempts + 1`: the scan can go
  once round the list.  The invariant `CpuInv` adds to `CpuHeldByTheLiving` that
  Kernel_Task, which nothing can kill and which never sleeps, is always READY
  or RUNNING: this is what the scan finds at the latest, so the fallback to
  `head` is never taken.  The code scans 256 PCBs (proc.c:343), so the theorems cover
  lists of up to 257.

`KmallocProofs`, for every page size, amount of memory and set of requests:

- `HeapCorrect`: the invariant `KInv` = the list is `WellFormed` (bounded, linked
  both ways, tiling), `Coalesced`, and its top lies within the mapped part.
  `AbsorveKeeps`, `DivideKeeps`, `AcrescentaKeeps` and `MarcaKeeps` show that each
  list operation keeps it; `JuntaCoalesces` and `LiberaKeeps` that the two merges
  of `kfree` suffice, because only the freed block's two neighbours can be free.
- `HeapTypeCorrect`, `ListStaysLinked`, `BlocksTileTheHeap`, `FreeBlocksAreMerged`.
- `HeapKeepsItsPromise`: `KmSpec => KeepsPromise`, the refinement of `HeapSpec`.  A
  block found free is disjoint from those in use by tiling (`FreeIsDisjoint`), a
  new one because it lies beyond the last (`TopIsDisjoint`), and merging leaves the
  regions in use alone (`JuntaInUse`).
- `RequestsGetEnough`: `align` never rounds down (`AlinharIsEnough`), and the block given
  is neither one of those in use nor shortened below the rounded size.
- `MemoryIsAccountedFor`: `KmSpec => []StatsAddUp`.  It follows from `KInv` alone: the walk
  of `kmalloc_stats` is a recursive function of the block it stands on, which exists
  because each next block lies higher (`PasseioExiste`), and from any block on the three
  sums make up the heap to its top (`RestoDaSoma`), both by a least counterexample.

`ElfProofs`, for any number of loaders, any memory and any program:

- `SpacesCorrect`, `EveryoneInOwnSpace`: `Spec => []OwnSpace`.  `OwnSpace` is not
  inductive: the second `write_cr3` restores what the loader remembered, so the
  invariant adds that between the two a loader remembers the kernel's CR3
  (`KernelRemembered`), which holds because outside its copies a loader is always in
  the kernel's space (`LoaderInKernel`).  The copies are not safe for all that:
  `elf_copy` shows the data going to the kernel's space instead.

For a single loader, any memory, bitmap word and program:

- `HolesAreFound`: `Spec => []NoHoleBelow`.  `HoleInv` adds where the search is: the words
  it has passed are full, and from the moment it has found a frame until
  `last_bit_index` is stored all the words below that frame are (`BuscaInv`); the word
  loaded before a store is still the one in memory; the bits behind the last frame are
  never cleared (`Sobras`), so that a word without a frame to give is full
  (`NoneMeansFull`).
- `LoadsAreAllOrNothing`: `Spec /\ []~Esgotada => []AllOrNothing`.  `FrameInv` says that each
  frame in use has one place (`Partilha`) and which places of the new space are vacant
  at each label of `elf.c` (`Vagos`): a frame that arrives never replaces another, and
  when the list of frames to free is empty nothing is left.  `NamesAssumption`, pages
  have different names, is what makes them different entries of the page tables.

The hypothesis of a single caller, `\E l : Chamadores = {l}`, is needed: `|=` and `&=`
are a load and a store with interrupts on, and two callers lose each other's bits.
Memory must last because an allocation that fails for PDPT or PD is not noticed
(elf.c:164), and then frame 0 is a table of the space.

`TerminalProofs`.  For every size of the ring and any readers: `KbTypeCorrect` and
`KeysStayInOrder`.  The work is the arithmetic of the ring: `Quantos` and `Lugar` say how
many characters lie between two indices taken modulo `KbSize` and where the k-th is,
and lemmas show what a push and a pop do to the sequence they delimit.  For those
readers also `ChildrenStartClean`: the keys counted at the hand-over had been stored
(`AntesInv`), and a ring found empty has given up all that was stored (`TypedInOrder`).
For any screen, bytes and losses: `PointerStaysOnScreen`, and `ShiftsHeal` with `ShiftInv`, which counts
the packet being assembled: a mixed one is paid for by a data byte that passed for a
first byte, or is the one the lost byte cut.

`StreamProofs`.  For any ports, applications and rates: `PortsAreExclusive`.  The
invariant `TrancaInv` relates each object that believes it holds a port to the lock
bit: the bit is set and nobody else believes so.  It exempts an object between the two
calls of `OS_Serial_SetBaud`, which keeps an index it no longer owns.  For any
directory, heap and table: `DescriptorsStaySound`.  Beyond the property `VfInv` says that
a heap node has at most one descriptor (so a close strands nobody) and that a node's
size is the directory's (so the remainder of a read does not wrap).  For any two sound
volumes (`FatImageAssumption`: chains stay in the FAT, an entry marked as a directory
leads to one, a directory's chain leaves the directories within as many links as the FAT
has clusters, a file's chain holds its bytes): `DirectoryIsMounted` and
`ReadsReturnTheFile`.  `DirInv` adds to the first that the entry at which `cd` stands
belongs to the mounted device, as long as no mount failed or cut an operation in two.
`Lendo` says where a read stands: the search has passed the clusters that neither hold
the name nor end the directory (`Nada`); the skip is at the link of the clusters still to
pass; the copy is at a place of the file, whose quotient by the cluster size is the link
and whose remainder is `internal_offset`, with the bytes from the offset up to that place
in the buffer.  The chain is a recursive function on the naturals; that there is one is
put together from its initial segments (`TrechoExiste`, `TrechoUnico`, `ElosIs`), each
from a least counterexample.

`TerminalProofs` again, for every size of the screen and of the line:

- `CursorReturns`: `CursorInv` says where in `terminal_putc` each coordinate may be out of
  range, `MargemInv` how far left it may get, for the system calls of an application
  anywhere between the shell's accesses.
- `DrawingsArePending`: raising `refresh_screen` comes after the drawing.
- `EchoIsRight`: `EchoInv` follows, at each label of `terminal_putc`, the row of the prompt
  while the cursor wraps, returns and scrolls (`Fazendo`), as long as no application has
  printed.

`DiskProofs`:

- `ReadsAreOwn`, for any callers, sectors, disks and polling limit: `Comando` says where
  the command of a caller that is alone is at each stage: in the table, then in the
  disk or the bounce buffer according to PxCI.
- `ListStaysSound`, for any callers and frames, and the controller anywhere: what is in
  use links only to what is in use (`AlocadosInv`); nothing but the head's link leads to
  the frame of a control transfer, and not after its removal, so that freeing it cuts
  nothing off (`SoDele`); ended queue heads lead back to the head of the list (`VoltaInv`:
  every closed set they are in has the head in it, which needs no induction over
  paths); and nobody replaces the link of a transfer that is alone (`SozinhoInv`).
- `DriverInStep` and `DataIsOwn`, for any tasks and any number of commands: `PassoInv`
  counts, while `limpo` holds, every packet on both sides of the wire.  `EmPasso` says
  where the one command may be and what of its answer is left (`Resto`), `Boas` that a good
  status to come has only the command's own data before it.

`DesktopProofs`.  For any number of slots and applications: `DragIsInFocus`, with the
invariant that no drag goes on while a click is served; `WindowIsItsOwners`, with
`JanelaInv`: until `corrida`, a slot about to be taken is still free, each owner is alone
in its slot, and an open window past its registration carries its owner's pid.  It
covers applications that close, exit, kill and die in any order (`JanelaSegue`).  For
any heap limit and lengths: `UserHeapIsSound`, with `HeapInv`: the list is whole (linked
both ways, tiling, up to the break), what is below the break is mapped, and each
region the application holds has a block in use of its own that is large enough.

`GuiProofs`, for any number of controls and windows, any clicks, keys and failures of
`realloc`, and every layout that `LayoutAssumption` allows: `TwinsAlwaysAgree`,
`ReleaseIsSeen`, `KeysGoToTheCaret` and `MemoStaysSound`, all from `GuCorrect`.

- The invariant `GuInv` holds at the end of every turn.  `Pressao` is what
  `NothingStaysPressed` lacks: while the hold timer runs, what sank lies under the
  click or is a button of the loop, so the release at the same point finds it.  No
  window can have come between, since a click on a control always finds the main
  window (`AchaIs`).  `Gemeos`, `Cursor` and `MemoVivo` are the other three properties
  on the records of both sides; `Inicio` says that nothing is written before the
  last control is created, and `Mostrado` that the scroll is held to the lines.
- A turn is a chain of operators on one record, so it is followed phase by phase,
  each with a predicate that says what the phase may change: the key (`Escreve`), the
  press (`Afunda`, `Toque`), the loop's focus rule (`Meio`), the runtime's click
  (`Acompanha`, what it must do for the two sides to agree again), the handlers
  (`TrataIs`), the timer and its release (`SegueIs`, `SoltaIs`), the paint (`PintaIs`).
- `Total`, the lines a memo's text takes, is a recursive function; that there is one
  for every text follows from a least counterexample (`PassosExiste`), which needs no
  induction rule.

Assumptions are the named ASSUMEs of the modules, which TLC evaluates in each run.
Only model-checked: the liveness properties and `ClosedIsSwept` (fairness is out of the
prover's reach).  The type invariants of `UsbBot`, `EhciList` and of the modules composed
in `MCDisks`, `MCDevices` and `MCDesktop` are stated there for the reader, like `TypeOK` of
ElfLoad, and are in no run's list; `TypeOK` of Proc and `LargeEnough` of
Kmalloc are proved and in none either.

## 5. Not modelled, and what is left

- Fonts, bitmaps, numbers and colours on the screen, painting: output that no component
  reads back.
- PCI and PS/2 controller set-up, port reset and USB enumeration: straight-line
  sequences of port accesses that run once, at boot or inside SYS_TESTINIT.
- String and formatting functions, the text generator's tables.
- `process_cleanup_zombies` and `list_processes` (no caller starts the one, the other prints);
  `pmm_mark_block`, `mouse_handler_it`, `disk.c`, `ide.c`, the pop of the event ring and the
  removal of a window have no caller in this commit.
- `Gui` is the loop of the demonstration application; `iachief` has one of its own, which
  feeds the same runtime.  The fixed buffers of captions (gui.c:686) are not modelled.
- While the controls of a window are created memory is assumed to suffice (Gui); later
  a `realloc` of a memo may fail.

Proofs worth adding: `TypeOK` of ElfLoad.
