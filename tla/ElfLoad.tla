------------------------------ MODULE ElfLoad ------------------------------
(***************************************************************************)
(* include/elf.c over mem/pmm.c and mem/vmm.c: App_Launcher and App_Exec   *)
(* build an address space for a program file, copy the program into it     *)
(* with CR3 switched to it, and make a process of it, or take it apart     *)
(* again.  The timer may preempt a loader wherever interrupts are enabled; *)
(* schedule() then loads the CR3 of the PCB it dispatches.                 *)
(*                                                                         *)
(* One program shape: a PT_LOAD segment with file data and BSS, of the     *)
(* pages Segmento, and the user stack, of the pages Pilha, each under one  *)
(* page table (user.ld links at 0x401000, the stack ends at 32 MB).  Disk  *)
(* reads and the headers' contents are abstracted to their outcome.        *)
(***************************************************************************)
EXTENDS Pmm, Sequences

CONSTANTS
  Segmento,   \* names of the segment's pages, in address order
  Pilha,      \* names of the stack's pages
  Partes,     \* stretches of one memcpy or memset, between which a tick may fall
  MaxLoads    \* bound: program files each loader is asked to load

ASSUME LoadersAssumption == Chamadores \cap {"kernel", "outro"} = {}
ASSUME PagesAssumption == /\ Segmento \in Seq(STRING) /\ Segmento # <<>>
                          /\ Pilha \in Seq(STRING) /\ Pilha # <<>>
ASSUME PartsAssumption == Partes \in Nat \ {0} /\ MaxLoads \in Nat

VARIABLES
  atual,       \* the dispatched process: a loader, or "outro" for any other one
  cr3,         \* the loaded address space: a loader's new one, "kernel" or "outro"
  iflag,       \* interrupts enabled
  pc,          \* where each loader is inside elf.c
  ip,          \* the page it is at
  esp,         \* frames of the space under construction, by table or page name
  fila,        \* what it has still to copy or to free
  old_cr3,
  dados,       \* the parts of the program that have reached the new space
  feitos,      \* files loaded, well or badly
  vivos        \* the address spaces of the processes created

elfLocals == <<pc, ip, esp, fila, old_cr3, dados, feitos>>
cpuState  == <<atual, cr3, iflag>>
vars == <<pmmVars, elfLocals, cpuState, vivos>>

Loaders  == Chamadores
TodasPaginas  == Segmento \o Pilha
Names    == {TodasPaginas[k] : k \in DOMAIN TodasPaginas}
Tables   == {"pml4", "pdpt", "pd", "pt", "pt_pilha"}
None     == TotalBlocks

(* Different pages have different names. *)
ASSUME NamesAssumption == /\ \A j, k \in DOMAIN TodasPaginas : TodasPaginas[j] = TodasPaginas[k] => j = k
                          /\ Names \cap Tables = {}

(* The writes of a load, in order: the file's data, then the zeroes of the BSS. *)
Copia == [k \in 1..(2 * Partes) |-> IF k <= Partes THEN "arquivo" ELSE "bss"]

Vazio == [n \in Tables \cup Names |-> None]

(* The page table that maps page k. *)
TableOf(k) == IF k <= Len(Segmento) THEN "pt" ELSE "pt_pilha"

Quadros(e) == {e[n] : n \in DOMAIN e} \ {None}

Init ==
  /\ PmmInit
  /\ atual = "outro"
  /\ cr3 = "outro"
  /\ iflag = TRUE
  /\ pc = [l \in Loaders |-> "espera"]
  /\ ip = [l \in Loaders |-> 1]
  /\ esp = [l \in Loaders |-> Vazio]
  /\ fila = [l \in Loaders |-> <<>>]
  /\ old_cr3 = [l \in Loaders |-> "kernel"]
  /\ dados = [l \in Loaders |-> {}]
  /\ feitos = [l \in Loaders |-> 0]
  /\ vivos = <<>>

(* l runs, outside pmm.c, at label x. *)
At(l, x) == atual = l /\ op[l] = "fora" /\ pc[l] = x

Goto(l, x) == pc' = [pc EXCEPT ![l] = x]

(* Call pmm_alloc_block and continue at label x with its result. *)
Pede(l, x) == Aloca(l) /\ Goto(l, x) /\ UNCHANGED <<bitmap, last_bit_index>>

Poe(l, n, f) == esp' = [esp EXCEPT ![l][n] = f]

(* No frame is free: kmalloc may fail too. *)
Esgotada == bitmap = Bits

-----------------------------------------------------------------------------
(* create_elf_process: the tables of the new space *)

Comeca(l) ==
  /\ At(l, "espera")
  /\ feitos[l] < MaxLoads
  /\ Pede(l, "pml4")
  /\ feitos' = [feitos EXCEPT ![l] = @ + 1]
  /\ UNCHANGED <<ip, esp, fila, old_cr3, dados, cpuState, vivos>>

TemPml4(l) ==
  /\ At(l, "pml4")
  /\ IF Devolvido(l) = 0
     THEN Goto(l, "espera") /\ UNCHANGED <<esp, pmmVars>>
     ELSE Poe(l, "pml4", Devolvido(l)) /\ Pede(l, "pdpt")
  /\ UNCHANGED <<ip, fila, old_cr3, dados, feitos, cpuState, vivos>>

(* The results for PDPT and PD are not compared with NULL. *)
TemPdpt(l) ==
  /\ At(l, "pdpt")
  /\ Poe(l, "pdpt", Devolvido(l))
  /\ Pede(l, "pd")
  /\ UNCHANGED <<ip, fila, old_cr3, dados, feitos, cpuState, vivos>>

TemPd(l) ==
  /\ At(l, "pd")
  /\ Poe(l, "pd", Devolvido(l))
  /\ Goto(l, "cabecalho")
  /\ UNCHANGED <<ip, fila, old_cr3, dados, feitos, cpuState, pmmVars, vivos>>

-----------------------------------------------------------------------------
(* elf_load_file: headers and mapping *)

(* Mutant of OrdemDeSoltura: the page tables themselves are not freed. *)
OrdemSemTabelas == TodasPaginas \o <<"pd", "pdpt", "pml4">>

(* The order in which elf_unload_failed_pml4 gives frames back. *)
OrdemDeSoltura == Segmento \o <<"pt">> \o Pilha \o <<"pt_pilha", "pd", "pdpt", "pml4">>

(* The file is missing or is not an ELF image: the load returns 0. *)
Cabecalho(l) ==
  /\ At(l, "cabecalho")
  /\ \/ Pede(l, "pagina") /\ UNCHANGED fila
     \/ /\ Goto(l, "desfaz")
        /\ fila' = [fila EXCEPT ![l] = OrdemDeSoltura]
        /\ UNCHANGED pmmVars
  /\ ip' = [ip EXCEPT ![l] = 1]
  /\ UNCHANGED <<esp, old_cr3, dados, feitos, cpuState, vivos>>

(* Mutant of ProximaPagina: the address does not advance. *)
ProximaPaginaRepete(l) ==
  IF ip[l] < Len(TodasPaginas)
  THEN Pede(l, "pagina") /\ UNCHANGED ip
  ELSE Goto(l, "cli") /\ UNCHANGED <<ip, pmmVars>>

(* On to the next page, or to the copies. *)
ProximaPagina(l) ==
  IF ip[l] < Len(TodasPaginas)
  THEN Pede(l, "pagina") /\ ip' = [ip EXCEPT ![l] = @ + 1]
  ELSE Goto(l, "cli") /\ UNCHANGED <<ip, pmmVars>>

(* The frame for the page goes into its page table, if the table exists. *)
TemPagina(l) ==
  /\ At(l, "pagina")
  /\ Poe(l, TodasPaginas[ip[l]], Devolvido(l))
  /\ IF esp[l][TableOf(ip[l])] # None
     THEN ProximaPagina(l)
     ELSE Pede(l, "tabela") /\ UNCHANGED ip
  /\ UNCHANGED <<fila, old_cr3, dados, feitos, cpuState, vivos>>

(* get_next_table returns 0 when there is no frame for the table: the page is
   not mapped and its frame belongs to nobody. *)
TemTabela(l) ==
  /\ At(l, "tabela")
  /\ IF Devolvido(l) = 0
     THEN Poe(l, TodasPaginas[ip[l]], None)
     ELSE Poe(l, TableOf(ip[l]), Devolvido(l))
  /\ ProximaPagina(l)
  /\ UNCHANGED <<fila, old_cr3, dados, feitos, cpuState, vivos>>

-----------------------------------------------------------------------------
(* elf_load_file: the copies, from cli to sti *)

Cli(l) ==
  /\ At(l, "cli")
  /\ iflag' = FALSE
  /\ Goto(l, "buffer")
  /\ UNCHANGED <<ip, esp, fila, old_cr3, dados, feitos, atual, cr3, pmmVars, vivos>>

(* kmalloc of the buffer, which ends with sti; then the disk read.  Without a
   buffer only the BSS is cleared. *)
Buffer(l) ==
  /\ At(l, "buffer")
  /\ iflag' = TRUE
  /\ \E ok \in (IF Esgotada THEN BOOLEAN ELSE {TRUE}) :
       fila' = [fila EXCEPT ![l] = IF ok THEN Copia ELSE SubSeq(Copia, Partes + 1, 2 * Partes)]
  /\ Goto(l, "troca")
  /\ UNCHANGED <<ip, esp, old_cr3, dados, feitos, atual, cr3, pmmVars, vivos>>

(* old_cr3 = read_cr3(); write_cr3(pml4_dest). *)
Troca(l) ==
  /\ At(l, "troca")
  /\ old_cr3' = [old_cr3 EXCEPT ![l] = cr3]
  /\ cr3' = l
  /\ Goto(l, "copia")
  /\ UNCHANGED <<ip, esp, fila, dados, feitos, atual, iflag, pmmVars, vivos>>

(* The last stretch before CR3 is switched back. *)
FimDaCopia(l) == Len(fila[l]) = 1 \/ fila[l][1] # fila[l][2]

(* A stretch of memcpy or memset goes to whatever space is loaded. *)
CopiaParte(l) ==
  /\ At(l, "copia")
  /\ dados' = [dados EXCEPT ![l] = IF cr3 = l THEN @ \cup {Len(fila[l])} ELSE @]
  /\ fila' = [fila EXCEPT ![l] = Tail(@)]
  /\ Goto(l, IF FimDaCopia(l) THEN "volta" ELSE "copia")
  /\ UNCHANGED <<ip, esp, old_cr3, feitos, cpuState, pmmVars, vivos>>

(* write_cr3(old_cr3), and kfree of the buffer, which ends with sti; after the
   BSS, sti itself. *)
Volta(l) ==
  /\ At(l, "volta")
  /\ cr3' = old_cr3[l]
  /\ iflag' = TRUE
  /\ Goto(l, IF fila[l] = <<>> THEN "fim" ELSE "troca")
  /\ UNCHANGED <<ip, esp, fila, old_cr3, dados, feitos, atual, pmmVars, vivos>>

-----------------------------------------------------------------------------
(* create_elf_process: the process, or nothing *)

Limpo(l) ==
  /\ esp' = [esp EXCEPT ![l] = Vazio]
  /\ dados' = [dados EXCEPT ![l] = {}]
  /\ Goto(l, "espera")

(* An entry point of 0 counts as a failure of the whole load. *)
SemEntrada(l) ==
  /\ At(l, "fim")
  /\ fila' = [fila EXCEPT ![l] = OrdemDeSoltura]
  /\ Goto(l, "desfaz")
  /\ UNCHANGED <<ip, esp, old_cr3, dados, feitos, cpuState, pmmVars, vivos>>

(* create_process; when its own kmalloc fails the space is forgotten. *)
CriaProcesso(l) ==
  /\ At(l, "fim")
  /\ \E ok \in (IF Esgotada THEN BOOLEAN ELSE {TRUE}) :
       vivos' = IF ok THEN Append(vivos, [espaco |-> esp[l], dados |-> dados[l]]) ELSE vivos
  /\ Limpo(l)
  /\ UNCHANGED <<ip, fila, old_cr3, feitos, cpuState, pmmVars>>

(* elf_unload_failed_pml4: pages that are absent or at frame 0 are skipped, and
   so are absent page tables. *)
Pula(l, n) == esp[l][n] = None \/ (n \in Names /\ esp[l][n] = 0)

Desfaz(l) ==
  /\ At(l, "desfaz")
  /\ fila[l] # <<>>
  /\ fila' = [fila EXCEPT ![l] = Tail(@)]
  /\ LET n == Head(fila[l])
     IN IF Pula(l, n)
        THEN UNCHANGED <<pmmVars, esp>>
        ELSE /\ SoltaBloco(l, esp[l][n])
             /\ Poe(l, n, None)
             /\ UNCHANGED <<bitmap, last_bit_index>>
  /\ UNCHANGED <<pc, ip, old_cr3, dados, feitos, cpuState, vivos>>

Desfeito(l) ==
  /\ At(l, "desfaz")
  /\ fila[l] = <<>>
  /\ Limpo(l)
  /\ UNCHANGED <<ip, fila, old_cr3, feitos, cpuState, pmmVars, vivos>>

-----------------------------------------------------------------------------
(* The rest of the system *)

(* Mutant of Despacha: schedule() does not load the CR3 of the next process. *)
DespachaSemCr3(q) == atual' = q /\ UNCHANGED cr3

(* schedule() dispatches q and loads the CR3 of its PCB: for the loaders, which
   are kernel tasks, the kernel's own. *)
Despacha(q) ==
  /\ atual' = q
  /\ cr3' = IF q = "outro" THEN "outro" ELSE "kernel"

(* The timer; interrupts are enabled in whatever it returns to. *)
Tick ==
  /\ iflag
  /\ \E q \in Loaders \cup {"outro"} : Despacha(q)
  /\ UNCHANGED <<iflag, elfLocals, pmmVars, vivos>>

(* A step inside pmm.c. *)
Aloca1(l) ==
  /\ atual = l
  /\ PmmStep(l)
  /\ UNCHANGED <<elfLocals, cpuState, vivos>>

Step(l) ==
  \/ Aloca1(l)
  \/ Comeca(l) \/ TemPml4(l) \/ TemPdpt(l) \/ TemPd(l)
  \/ Cabecalho(l) \/ TemPagina(l) \/ TemTabela(l)
  \/ Cli(l) \/ Buffer(l) \/ Troca(l) \/ CopiaParte(l) \/ Volta(l)
  \/ SemEntrada(l) \/ CriaProcesso(l) \/ Desfaz(l) \/ Desfeito(l)

Next == Tick \/ \E l \in Loaders : Step(l)

Spec == Init /\ [][Next]_vars

-----------------------------------------------------------------------------
(* Properties *)

Labels == {"espera", "pml4", "pdpt", "pd", "cabecalho", "pagina", "tabela", "cli", "buffer",
           "troca", "copia", "volta", "fim", "desfaz"}

Spaces == [Tables \cup Names -> Bits \cup {None}]

(* Every variable keeps its type; a load writes only the parts the segment has. *)
TypeOK ==
  /\ PmmTypeOK
  /\ atual \in Loaders \cup {"outro"}
  /\ cr3 \in Loaders \cup {"kernel", "outro"}
  /\ iflag \in BOOLEAN
  /\ pc \in [Loaders -> Labels]
  /\ ip \in [Loaders -> 1..Len(TodasPaginas)]
  /\ esp \in [Loaders -> Spaces]
  /\ \A l \in Loaders : Len(fila[l]) <= Len(OrdemDeSoltura)
  /\ old_cr3 \in [Loaders -> Loaders \cup {"kernel", "outro"}]
  /\ dados \in [Loaders -> SUBSET (1..(2 * Partes))]
  /\ feitos \in [Loaders -> 0..MaxLoads]

(* Everyone runs in the address space of its own PCB, except a loader between its
   two write_cr3: no interrupt leaves another process in a half-built space, and
   no loader returns from its copies with the new space loaded (proc.c:357-360,
   elf.c:120-125, elf.c:243-251). *)
OwnSpace ==
  cr3 # (IF atual = "outro" THEN "outro" ELSE "kernel") =>
    atual # "outro" /\ cr3 = atual /\ pc[atual] \in {"copia", "volta"}

(* The frame a loader holds between an allocation and its use, or is giving back. *)
EmTransito(l) ==
  IF \/ op[l] \in {"guarda", "le_livre", "limpa"}
     \/ op[l] = "fora" /\ pc[l] \in {"pml4", "pdpt", "pd", "pagina", "tabela"} /\ block_id[l] # 0
  THEN {block_id[l]} ELSE {}

(* All or nothing, while memory lasts: the frames in use are those of the processes
   created and of the load under way, so a load that fails gives everything back,
   page tables included (elf.c:14-62). *)
AllOrNothing ==
  bitmap = Reserved
           \cup (UNION {Quadros(vivos[k].espaco) : k \in DOMAIN vivos})
           \cup (UNION {Quadros(esp[l]) \cup EmTransito(l) : l \in Loaders})

(* No hole lies below the word the search starts at, other than one being freed:
   this is what makes a circular search use the holes at the start of memory
   first (pmm.c:43-46). *)
NoHoleBelow ==
  \A w \in 0..(last_bit_index - 1) :
    \/ Word(w) \subseteq bitmap
    \/ \E l \in Loaders : op[l] = "recua" /\ WordOf(block_id[l]) = w

(* A load comes to an end, with a process or without. *)
LoadEnds == \A l \in Loaders : pc[l] # "espera" ~> pc[l] = "espera"

(* The copies are a critical section (elf.c:107), so a process starts with every
   part of its program in its memory. *)
ProgramWhole == \A k \in DOMAIN vivos : vivos[k].dados = 1..(2 * Partes)
=============================================================================
