----------------------------- MODULE ElfProofs -----------------------------
(***************************************************************************)
(* Proofs about module ElfLoad, for any memory and any program.            *)
(*                                                                         *)
(* For any number of loaders: nobody but the loader itself ever runs in a  *)
(* half-built address space.  For a single one (two lose updates of the    *)
(* bitmap, see pmm.c:68): the allocator's search misses no hole, and the   *)
(* frames in use are those of the processes and of the load under way.     *)
(***************************************************************************)
EXTENDS ElfLoad, SequenceTheorems, WellFoundedInduction, TLAPS

(* The types the argument needs. *)
SpaceTypes ==
  /\ atual \in Loaders \cup {"outro"}
  /\ pc \in [Loaders -> Labels]
  /\ old_cr3 \in [Loaders -> Loaders \cup {"kernel", "outro"}]

(* Between its two write_cr3 a loader remembers the kernel's CR3. *)
KernelRemembered == \A l \in Loaders : pc[l] \in {"copia", "volta"} => old_cr3[l] = "kernel"

SpaceInv == SpaceTypes /\ KernelRemembered /\ OwnSpace


-----------------------------------------------------------------------------
(* A loader that runs outside its copies runs in the kernel's space. *)
LEMMA LoaderInKernel ==
  ASSUME SpaceInv, NEW l \in Loaders, atual = l, pc[l] \notin {"copia", "volta"}
  PROVE  cr3 = "kernel"
BY LoadersAssumption DEF SpaceInv, OwnSpace, Loaders

(* A step that keeps CR3 and moves a loader between labels outside the copies
   keeps the invariant (most of elf.c). *)
LEMMA PlainMove ==
  ASSUME SpaceInv, NEW l \in Loaders, NEW x \in Labels \ {"copia", "volta"},
         atual = l, pc[l] \notin {"copia", "volta"}, Goto(l, x) \/ UNCHANGED pc,
         UNCHANGED <<atual, cr3, old_cr3>>
  PROVE  SpaceInv'
<1>1. cr3 = "kernel" BY LoaderInKernel
<1>2. SpaceTypes' BY DEF SpaceInv, SpaceTypes, Goto
<1>3. KernelRemembered' BY DEF SpaceInv, SpaceTypes, KernelRemembered, Goto
<1>4. OwnSpace' BY <1>1, LoadersAssumption DEF SpaceInv, SpaceTypes, OwnSpace, Loaders
<1> QED BY <1>2, <1>3, <1>4 DEF SpaceInv

(* The steps inside pmm.c touch none of this. *)
LEMMA AllocatorMove ==
  ASSUME SpaceInv, NEW l \in Loaders, Aloca1(l)
  PROVE  SpaceInv'
BY DEF SpaceInv, SpaceTypes, KernelRemembered, OwnSpace, Aloca1, elfLocals, cpuState

-----------------------------------------------------------------------------
(* The first write_cr3: the CR3 remembered is the kernel's (elf.c:120-121). *)
LEMMA TrocaKeeps ==
  ASSUME SpaceInv, NEW l \in Loaders, Troca(l)
  PROVE  SpaceInv'
<1>1. atual = l /\ pc[l] = "troca" /\ cr3 = "kernel" BY LoaderInKernel DEF Troca, At
<1>2. SpaceTypes' BY <1>1 DEF SpaceInv, SpaceTypes, Troca, Goto, Labels
<1>3. KernelRemembered'
  BY <1>1 DEF SpaceInv, SpaceTypes, KernelRemembered, Troca, Goto
<1>4. OwnSpace'
  BY <1>1, LoadersAssumption DEF SpaceInv, SpaceTypes, OwnSpace, Troca, Goto, Loaders
<1> QED BY <1>2, <1>3, <1>4 DEF SpaceInv

(* A stretch of the copy, in whichever space it runs (elf.c:123, elf.c:248). *)
LEMMA CopiaParteKeeps ==
  ASSUME SpaceInv, NEW l \in Loaders, CopiaParte(l)
  PROVE  SpaceInv'
<1>1. atual = l /\ pc[l] = "copia" /\ UNCHANGED <<atual, cr3, old_cr3>>
  BY DEF CopiaParte, At, cpuState
<1>2. PICK x \in {"copia", "volta"} : pc' = [pc EXCEPT ![l] = x]
  BY DEF CopiaParte, Goto
<1>3. SpaceTypes' BY <1>1, <1>2 DEF SpaceInv, SpaceTypes, Labels
<1>4. KernelRemembered' BY <1>1, <1>2 DEF SpaceInv, SpaceTypes, KernelRemembered
<1>5. OwnSpace'
  BY <1>1, <1>2, LoadersAssumption DEF SpaceInv, SpaceTypes, OwnSpace, Loaders
<1> QED BY <1>3, <1>4, <1>5 DEF SpaceInv

(* The second write_cr3 (elf.c:125, elf.c:251). *)
LEMMA VoltaKeeps ==
  ASSUME SpaceInv, NEW l \in Loaders, Volta(l)
  PROVE  SpaceInv'
<1>1. atual = l /\ atual' = l /\ cr3' = "kernel" /\ UNCHANGED old_cr3
  BY DEF SpaceInv, KernelRemembered, Volta, At
<1>2. PICK x \in {"fim", "troca"} : pc' = [pc EXCEPT ![l] = x]
  BY DEF Volta, Goto
<1>3. SpaceTypes' BY <1>1, <1>2 DEF SpaceInv, SpaceTypes, Labels
<1>4. KernelRemembered' BY <1>1, <1>2 DEF SpaceInv, SpaceTypes, KernelRemembered
<1>5. OwnSpace' BY <1>1, LoadersAssumption DEF OwnSpace, Loaders
<1> QED BY <1>3, <1>4, <1>5 DEF SpaceInv

(* A preemption at any point: schedule() loads the CR3 of the PCB it dispatches. *)
LEMMA TickKeeps ==
  ASSUME SpaceInv, Tick
  PROVE  SpaceInv'
<1>1. PICK q \in Loaders \cup {"outro"} :
        atual' = q /\ cr3' = (IF q = "outro" THEN "outro" ELSE "kernel")
  BY DEF Tick, Despacha
<1>2. UNCHANGED <<pc, old_cr3>> BY DEF Tick, elfLocals
<1> QED BY <1>1, <1>2 DEF SpaceInv, SpaceTypes, KernelRemembered, OwnSpace

(* Every other step of a loader is a move outside the copies. *)
LEMMA OtherStepsKeep ==
  ASSUME SpaceInv, NEW l \in Loaders,
         \/ Comeca(l) \/ TemPml4(l) \/ TemPdpt(l) \/ TemPd(l)
         \/ Cabecalho(l) \/ TemPagina(l) \/ TemTabela(l) \/ Cli(l) \/ Buffer(l)
         \/ SemEntrada(l) \/ CriaProcesso(l) \/ Desfaz(l) \/ Desfeito(l)
  PROVE  SpaceInv'
<1> DEFINE Fora == Labels \ {"copia", "volta"}
           Move == /\ atual = l /\ pc[l] \notin {"copia", "volta"}
                   /\ UNCHANGED <<atual, cr3, old_cr3>>
                   /\ \E x \in Fora : Goto(l, x) \/ UNCHANGED pc
<1>1. CASE Comeca(l) \/ TemPml4(l) \/ TemPdpt(l) \/ TemPd(l)
  <2>1. Move BY <1>1 DEF Comeca, TemPml4, TemPdpt, TemPd, At, Pede, cpuState, Labels
  <2> QED BY <2>1, PlainMove
<1>2. CASE Cabecalho(l)
  <2>1. Move BY <1>2 DEF Cabecalho, At, Pede, cpuState, Labels
  <2> QED BY <2>1, PlainMove
<1>3. CASE TemPagina(l) \/ TemTabela(l)
  <2>1. Move BY <1>3 DEF TemPagina, TemTabela, ProximaPagina, At, Pede, cpuState, Labels
  <2> QED BY <2>1, PlainMove
<1>4. CASE Cli(l) \/ Buffer(l)
  <2>1. Move BY <1>4 DEF Cli, Buffer, At, Labels
  <2> QED BY <2>1, PlainMove
<1>5. CASE SemEntrada(l) \/ CriaProcesso(l) \/ Desfaz(l) \/ Desfeito(l)
  <2>1. Move BY <1>5 DEF SemEntrada, CriaProcesso, Desfaz, Desfeito, Limpo, At, cpuState, Labels
  <2> QED BY <2>1, PlainMove
<1> QED BY <1>1, <1>2, <1>3, <1>4, <1>5

-----------------------------------------------------------------------------
(* The invariant that carries OwnSpace: the space of a load is loaded only while
   its loader is between its two write_cr3, and there the loader remembers the
   kernel's CR3. *)
THEOREM SpacesCorrect == Spec => []SpaceInv
<1>1. Init => SpaceInv
  BY DEF Init, SpaceInv, SpaceTypes, KernelRemembered, OwnSpace, Labels
<1>2. SpaceInv /\ [Next]_vars => SpaceInv'
  <2> SUFFICES ASSUME SpaceInv, [Next]_vars PROVE SpaceInv' OBVIOUS
  <2>1. CASE Tick BY <2>1, TickKeeps
  <2>2. ASSUME NEW l \in Loaders, Step(l) PROVE SpaceInv'
    <3>1. CASE Aloca1(l) BY <3>1, AllocatorMove
    <3>2. CASE Troca(l) BY <3>2, TrocaKeeps
    <3>3. CASE CopiaParte(l) BY <3>3, CopiaParteKeeps
    <3>4. CASE Volta(l) BY <3>4, VoltaKeeps
    <3>5. CASE \/ Comeca(l) \/ TemPml4(l) \/ TemPdpt(l) \/ TemPd(l)
               \/ Cabecalho(l) \/ TemPagina(l) \/ TemTabela(l) \/ Cli(l) \/ Buffer(l)
               \/ SemEntrada(l) \/ CriaProcesso(l) \/ Desfaz(l) \/ Desfeito(l)
      BY <3>5, OtherStepsKeep
    <3> QED BY <2>2, <3>1, <3>2, <3>3, <3>4, <3>5 DEF Step
  <2>3. CASE UNCHANGED vars
    BY <2>3 DEF vars, elfLocals, cpuState, SpaceInv, SpaceTypes, KernelRemembered, OwnSpace
  <2> QED BY <2>1, <2>2, <2>3 DEF Next
<1> QED BY <1>1, <1>2, PTL DEF Spec

(* No interrupt leaves another process in a half-built address space, and no
   loader leaves its copies with the new space loaded. *)
THEOREM EveryoneInOwnSpace == Spec => []OwnSpace
<1>1. SpaceInv => OwnSpace BY DEF SpaceInv
<1> QED BY <1>1, SpacesCorrect, PTL

-----------------------------------------------------------------------------
(* The allocator, called by a single loader *)

Operacoes == {"fora", "busca", "le", "marca", "guarda", "le_livre", "limpa", "recua"}

(* The types of the allocator that the proofs need. *)
PmmTipos ==
  /\ bitmap \subseteq Bits
  /\ last_bit_index \in 0..(BitmapSize - 1)
  /\ op \in [Loaders -> Operacoes]
  /\ i \in [Loaders -> Nat]
  /\ block_id \in [Loaders -> Nat]
  /\ visto \in [Loaders -> SUBSET Bits]

(* No frame of word w is free. *)
Cheia(w) == Word(w) \subseteq bitmap

(* What loader l, alone in pmm.c, has found out so far. *)
BuscaInv(l) ==
  /\ op[l] = "busca" => i[l] < BitmapSize
  /\ op[l] = "busca" => \A k \in 0..(i[l] - 1) : Cheia((last_bit_index + k) % BitmapSize)
  /\ op[l] \in {"le", "marca", "guarda"} =>
       /\ block_id[l] \in Bits /\ block_id[l] < TotalBlocks
       /\ \A w \in 0..(WordOf(block_id[l]) - 1) : Cheia(w)
  /\ op[l] \in {"le", "marca"} => block_id[l] \notin bitmap
  /\ op[l] \in {"le_livre", "limpa", "recua"} => block_id[l] < TotalBlocks
  /\ op[l] \in {"marca", "limpa"} => visto[l] = Word(WordOf(block_id[l])) \cap bitmap

(* The bits behind the last frame are never cleared. *)
Sobras == \A b \in Bits : b >= TotalBlocks => b \in bitmap

(* The invariant of the search, for a loader that is alone. *)
HoleInv(l) == PmmTipos /\ BuscaInv(l) /\ Sobras /\ NoHoleBelow

LEMMA SizeIs == BitmapSize \in Nat /\ BitmapSize >= 1 /\ TotalBlocks \in Nat /\ WordBits \in Nat /\ WordBits >= 1
<1>1. TotalBlocks \in Nat /\ TotalBlocks >= 1 /\ WordBits \in Nat /\ WordBits >= 1
  BY MemoryAssumption
<1>2. PICK x \in Nat : x = TotalBlocks + WordBits - 1 /\ x >= WordBits
  BY <1>1
<1>3. x \div WordBits \in Nat /\ x \div WordBits >= 1
  BY <1>1, <1>2
<1> QED BY <1>1, <1>2, <1>3 DEF BitmapSize

LEMMA BitsAre == Bits \subseteq Nat
BY SizeIs DEF Bits

LEMMA LeastExists ==
  ASSUME NEW T, T \subseteq Nat, T # {}
  PROVE  \E a \in T : \A x \in T : a <= x
<1>1. PICK a \in T : \A y \in T : ~(<<y, a>> \in OpToRel(<, Nat))
  BY NatLessThanWellFounded, WFMin, Zenon
<1>2. \A y \in T : ~(y < a)
  BY <1>1, Zenon DEF OpToRel
<1> QED BY <1>2

LEMMA WordIn ==
  ASSUME NEW b \in Bits
  PROVE  WordOf(b) \in 0..(BitmapSize - 1) /\ b \in Word(WordOf(b))
<1>1. b \in Nat /\ WordBits \in Nat /\ WordBits >= 1 /\ BitmapSize \in Nat
  BY SizeIs, BitsAre
<1>2. PICK w \in Nat : w = b \div WordBits
  BY <1>1
<1>3. PICK t \in Nat : t = w * WordBits /\ t <= b
  BY <1>1, <1>2
<1>4. PICK z \in Nat : z = BitmapSize * WordBits /\ b < z
  BY <1>1 DEF Bits
<1>5. w < BitmapSize
  <2>1. SUFFICES ASSUME w >= BitmapSize PROVE FALSE
    BY <1>1
  <2>2. PICK d \in Nat : w = BitmapSize + d
    BY <1>1, <2>1
  <2>3. w * WordBits = BitmapSize * WordBits + d * WordBits
    BY <1>1, <2>2
  <2>4. PICK e \in Nat : e = d * WordBits
    BY <1>1
  <2>5. t = z + e
    BY <1>3, <1>4, <2>3, <2>4
  <2> QED BY <1>1, <1>3, <1>4, <2>4, <2>5
<1> QED BY <1>1, <1>2, <1>5 DEF WordOf, Word

LEMMA ModIs ==
  ASSUME NEW x \in 0..(BitmapSize - 1), NEW k \in 0..(BitmapSize - 1)
  PROVE  /\ (x + k) % BitmapSize = IF x + k < BitmapSize THEN x + k ELSE x + k - BitmapSize
         /\ (x + k) % BitmapSize \in 0..(BitmapSize - 1)
<1>1. BitmapSize \in Nat /\ BitmapSize >= 1 /\ x \in Nat /\ k \in Nat
  BY SizeIs
<1>2. CASE x + k < BitmapSize
  BY <1>1, <1>2
<1>3. CASE ~(x + k < BitmapSize)
  BY <1>1, <1>3
<1> QED BY <1>1, <1>2, <1>3

-----------------------------------------------------------------------------
(* The steps of pmm.c, by the only loader *)

LEMMA HoleInit ==
  ASSUME NEW l, Chamadores = {l}, PmmInit
  PROVE  HoleInv(l)
<1>1. BitmapSize \in Nat /\ BitmapSize >= 1 /\ TotalBlocks \in Nat
  BY SizeIs
<1>2. PmmTipos
  BY <1>1, BitsAre DEF PmmInit, PmmTipos, Reserved, Operacoes, Loaders
<1>3. Sobras
  BY <1>1, UsableAssumption, BitsAre DEF PmmInit, Sobras, Reserved
<1>4. BuscaInv(l) /\ NoHoleBelow
  BY <1>1 DEF PmmInit, BuscaInv, NoHoleBelow
<1> QED BY <1>2, <1>3, <1>4 DEF HoleInv

(* What the parts of the invariant say of the only loader. *)
LEMMA HoleParts ==
  ASSUME NEW l, Chamadores = {l}, HoleInv(l)
  PROVE  /\ bitmap \subseteq Bits /\ last_bit_index \in 0..(BitmapSize - 1)
         /\ op[l] \in Operacoes /\ i[l] \in Nat /\ block_id[l] \in Nat /\ visto[l] \subseteq Bits
         /\ \A w \in 0..(last_bit_index - 1) :
              Cheia(w) \/ (op[l] = "recua" /\ WordOf(block_id[l]) = w)
         /\ WordOf(block_id[l]) \in Nat
<1>1. /\ bitmap \subseteq Bits /\ last_bit_index \in 0..(BitmapSize - 1)
      /\ op[l] \in Operacoes /\ i[l] \in Nat /\ block_id[l] \in Nat /\ visto[l] \subseteq Bits
  BY DEF HoleInv, PmmTipos, Loaders
<1>2. \A w \in 0..(last_bit_index - 1) :
              Cheia(w) \/ (op[l] = "recua" /\ WordOf(block_id[l]) = w)
  BY DEF HoleInv, NoHoleBelow, Cheia, Loaders
<1>3. WordOf(block_id[l]) \in Nat
  BY <1>1, SizeIs DEF WordOf
<1> QED BY <1>1, <1>2, <1>3

(* The search starts a word at a time; a word without a free frame is full. *)
LEMMA NoneMeansFull ==
  ASSUME Sobras, bitmap \subseteq Bits, NEW w,
         {b \in Word(w) : LowestClear(w, b) /\ b < TotalBlocks} = {}
  PROVE  Cheia(w)
<1> SUFFICES ASSUME NEW x \in Word(w), x \notin bitmap PROVE FALSE
  BY DEF Cheia
<1>1. PICK T : T = Word(w) \ bitmap
  OBVIOUS
<1>2. T \subseteq Nat /\ T # {} /\ T \subseteq Bits
  BY <1>1, BitsAre DEF Word
<1>3. PICK b \in T : \A y \in T : b <= y
  BY <1>2, LeastExists
<1>4. b < TotalBlocks
  BY <1>1, <1>2, <1>3, SizeIs DEF Sobras
<1>5. LowestClear(w, b) /\ b \in Word(w)
  BY <1>1, <1>3 DEF LowestClear
<1> QED BY <1>4, <1>5

(* Facts of a step that leaves the bitmap and the start of the search alone. *)
LEMMA HoleQuiet ==
  ASSUME NEW l, Chamadores = {l}, HoleInv(l), bitmap' = bitmap, last_bit_index' = last_bit_index,
         op' \in [Loaders -> Operacoes], i' \in [Loaders -> Nat], block_id' \in [Loaders -> Nat],
         visto' \in [Loaders -> SUBSET Bits],
         BuscaInv(l)', op[l] # "recua" \/ (op'[l] = "recua" /\ block_id'[l] = block_id[l])
  PROVE  HoleInv(l)'
<1>1. PmmTipos' /\ Sobras'
  BY DEF HoleInv, PmmTipos, Sobras
<1>2. NoHoleBelow'
  <2> SUFFICES ASSUME NEW w \in 0..(last_bit_index - 1)
               PROVE  Word(w) \subseteq bitmap \/ (op'[l] = "recua" /\ WordOf(block_id'[l]) = w)
    BY DEF NoHoleBelow, Loaders
  <2> QED BY HoleParts DEF Cheia
<1> QED BY <1>1, <1>2 DEF HoleInv

LEMMA BuscaHole ==
  ASSUME NEW l, Chamadores = {l}, HoleInv(l), Busca(l)
  PROVE  HoleInv(l)'
<1>1. /\ bitmap \subseteq Bits /\ last_bit_index \in 0..(BitmapSize - 1)
      /\ i[l] \in Nat /\ op[l] = "busca" /\ i[l] < BitmapSize
      /\ \A k \in 0..(i[l] - 1) : Cheia((last_bit_index + k) % BitmapSize)
      /\ \A w \in 0..(last_bit_index - 1) : Cheia(w)
  BY HoleParts DEF Busca, HoleInv, BuscaInv
<1>2. BitmapSize \in Nat /\ BitmapSize >= 1 /\ TotalBlocks \in Nat
  BY SizeIs
<1>3. PICK index : index = (last_bit_index + i[l]) % BitmapSize
  OBVIOUS
<1>4. /\ index = IF last_bit_index + i[l] < BitmapSize THEN last_bit_index + i[l]
                 ELSE last_bit_index + i[l] - BitmapSize
      /\ index \in 0..(BitmapSize - 1)
  BY <1>1, <1>2, <1>3, ModIs
<1>5. PICK achados : achados = {b \in Word(index) : LowestClear(index, b) /\ b < TotalBlocks}
  OBVIOUS
<1>6. PICK b \in (IF achados = {} THEN {0} ELSE achados) :
          /\ op' = [op EXCEPT ![l] = IF achados # {} THEN "le"
                                     ELSE IF i[l] + 1 < BitmapSize THEN "busca" ELSE "fora"]
          /\ block_id' = [block_id EXCEPT ![l] = b]
          /\ i' = [i EXCEPT ![l] = IF achados # {} THEN @ ELSE @ + 1]
  BY <1>3, <1>5 DEF Busca
<1>7. UNCHANGED <<bitmap, last_bit_index, visto>>
  BY DEF Busca
<1>8. b \in Nat /\ (achados # {} => b \in achados)
  BY <1>2, <1>5, <1>6, BitsAre DEF Word
<1>9. /\ op \in [Loaders -> Operacoes] /\ i \in [Loaders -> Nat] /\ block_id \in [Loaders -> Nat]
      /\ visto \in [Loaders -> SUBSET Bits] /\ l \in Loaders
  BY DEF HoleInv, PmmTipos, Loaders
<1>10. /\ op' \in [Loaders -> Operacoes] /\ i' \in [Loaders -> Nat] /\ block_id' \in [Loaders -> Nat]
       /\ visto' \in [Loaders -> SUBSET Bits]
  BY <1>1, <1>6, <1>7, <1>8, <1>9 DEF Operacoes
<1>11. CASE achados # {}
  <2>1. op'[l] = "le" /\ block_id'[l] = b /\ b \in achados
    BY <1>6, <1>8, <1>9, <1>11
  <2>2. b \in Bits /\ WordOf(b) = index /\ b < TotalBlocks /\ b \notin bitmap
    BY <1>5, <2>1 DEF LowestClear, Word
  <2>3. ASSUME NEW w \in 0..(index - 1) PROVE Cheia(w)
    <3>1. CASE w < last_bit_index
      BY <1>1, <1>4, <3>1
    <3>2. CASE ~(w < last_bit_index)
      <4>1. PICK k \in 0..(i[l] - 1) : w = last_bit_index + k
        BY <1>1, <1>2, <1>4, <3>2
      <4>2. k \in 0..(BitmapSize - 1) /\ last_bit_index + k < BitmapSize
        BY <1>1, <1>2, <1>4, <4>1
      <4>3. (last_bit_index + k) % BitmapSize = w
        BY <1>1, <4>1, <4>2, ModIs
      <4> QED BY <1>1, <4>1, <4>3
    <3> QED BY <3>1, <3>2
  <2>4. BuscaInv(l)'
    BY <1>7, <2>1, <2>2, <2>3 DEF BuscaInv, Cheia
  <2> QED BY <1>1, <1>7, <1>10, <2>4, HoleQuiet
<1>12. CASE achados = {}
  <2>1. op'[l] = IF i[l] + 1 < BitmapSize THEN "busca" ELSE "fora"
    BY <1>6, <1>9, <1>12
  <2>2. i'[l] = i[l] + 1
    BY <1>6, <1>9, <1>12
  <2>3. Cheia(index)
    BY <1>1, <1>5, <1>12, NoneMeansFull DEF HoleInv
  <2>4. ASSUME NEW k \in 0..i[l] PROVE Cheia((last_bit_index + k) % BitmapSize)
    BY <1>1, <1>3, <2>3
  <2>5. BuscaInv(l)'
    <3>1. CASE i[l] + 1 < BitmapSize
      <4>1. op'[l] = "busca"
        BY <2>1, <3>1
      <4>2. \A k \in 0..(i'[l] - 1) : Cheia((last_bit_index + k) % BitmapSize)
        BY <1>1, <2>2, <2>4
      <4> QED BY <1>7, <2>2, <3>1, <4>1, <4>2 DEF BuscaInv, Cheia
    <3>2. CASE ~(i[l] + 1 < BitmapSize)
      BY <2>1, <3>2 DEF BuscaInv
    <3> QED BY <3>1, <3>2
  <2> QED BY <1>1, <1>7, <1>10, <2>5, HoleQuiet
<1> QED BY <1>11, <1>12

LEMMA LeHole ==
  ASSUME NEW l, Chamadores = {l}, HoleInv(l), Le(l) \/ LeLivre(l)
  PROVE  HoleInv(l)'
<1>1. /\ op \in [Loaders -> Operacoes] /\ i \in [Loaders -> Nat] /\ block_id \in [Loaders -> Nat]
      /\ visto \in [Loaders -> SUBSET Bits] /\ l \in Loaders /\ BuscaInv(l)
  BY DEF HoleInv, PmmTipos, Loaders
<1>2. PICK f \in {"marca", "limpa"} :
        /\ op' = [op EXCEPT ![l] = f]
        /\ f = IF op[l] = "le" THEN "marca" ELSE "limpa"
        /\ op[l] \in {"le", "le_livre"}
  BY DEF Le, LeLivre
<1>3. /\ visto' = [visto EXCEPT ![l] = Word(WordOf(block_id[l])) \cap bitmap]
      /\ UNCHANGED <<bitmap, last_bit_index, i, block_id>>
  BY DEF Le, LeLivre
<1>4. op'[l] = f /\ visto'[l] = Word(WordOf(block_id[l])) \cap bitmap /\ op' \in [Loaders -> Operacoes]
      /\ visto' \in [Loaders -> SUBSET Bits]
  BY <1>1, <1>2, <1>3 DEF Operacoes, Word
<1>5. BuscaInv(l)'
  BY <1>1, <1>2, <1>3, <1>4 DEF BuscaInv, Cheia
<1> QED BY <1>1, <1>2, <1>3, <1>4, <1>5, HoleQuiet

LEMMA MarcaHole ==
  ASSUME NEW l, Chamadores = {l}, HoleInv(l), MarcaBloco(l)
  PROVE  HoleInv(l)' /\ bitmap' = bitmap \cup {block_id[l]}
<1>1. /\ op \in [Loaders -> Operacoes] /\ i \in [Loaders -> Nat] /\ block_id \in [Loaders -> Nat]
      /\ visto \in [Loaders -> SUBSET Bits] /\ l \in Loaders /\ BuscaInv(l) /\ bitmap \subseteq Bits
  BY DEF HoleInv, PmmTipos, Loaders
<1>2. /\ op[l] = "marca" /\ op' = [op EXCEPT ![l] = "guarda"] /\ visto' = [visto EXCEPT ![l] = {}]
      /\ bitmap' = (bitmap \ Word(WordOf(block_id[l]))) \cup visto[l] \cup {block_id[l]}
      /\ UNCHANGED <<last_bit_index, i, block_id>>
  BY DEF MarcaBloco
<1>3. bitmap' = bitmap \cup {block_id[l]} /\ block_id[l] \in Bits
  BY <1>1, <1>2 DEF BuscaInv
<1>4. op'[l] = "guarda" /\ op' \in [Loaders -> Operacoes] /\ visto' \in [Loaders -> SUBSET Bits]
  BY <1>1, <1>2 DEF Operacoes
<1>5. PmmTipos' /\ Sobras'
  BY <1>1, <1>2, <1>3, <1>4 DEF HoleInv, PmmTipos, Sobras
<1>6. BuscaInv(l)'
  BY <1>1, <1>2, <1>3, <1>4 DEF BuscaInv, Cheia
<1>7. NoHoleBelow'
  <2> SUFFICES ASSUME NEW w \in 0..(last_bit_index - 1) PROVE Word(w) \subseteq bitmap'
    BY <1>2 DEF NoHoleBelow, Loaders
  <2> QED BY <1>2, <1>3, HoleParts DEF Cheia
<1> QED BY <1>3, <1>5, <1>6, <1>7 DEF HoleInv

LEMMA GuardaHole ==
  ASSUME NEW l, Chamadores = {l}, HoleInv(l), Guarda(l)
  PROVE  HoleInv(l)'
<1>1. /\ op \in [Loaders -> Operacoes] /\ i \in [Loaders -> Nat] /\ block_id \in [Loaders -> Nat]
      /\ visto \in [Loaders -> SUBSET Bits] /\ l \in Loaders /\ BuscaInv(l) /\ bitmap \subseteq Bits
  BY DEF HoleInv, PmmTipos, Loaders
<1>2. /\ op[l] = "guarda" /\ op' = [op EXCEPT ![l] = "fora"] /\ last_bit_index' = WordOf(block_id[l])
      /\ UNCHANGED <<bitmap, i, block_id, visto>>
  BY DEF Guarda
<1>3. block_id[l] \in Bits /\ \A w \in 0..(WordOf(block_id[l]) - 1) : Cheia(w)
  BY <1>1, <1>2 DEF BuscaInv
<1>4. last_bit_index' \in 0..(BitmapSize - 1)
  BY <1>2, <1>3, WordIn
<1>5. op'[l] = "fora" /\ op' \in [Loaders -> Operacoes]
  BY <1>1, <1>2 DEF Operacoes
<1>6. PmmTipos' /\ Sobras'
  BY <1>1, <1>2, <1>4, <1>5 DEF HoleInv, PmmTipos, Sobras
<1>7. BuscaInv(l)'
  BY <1>5 DEF BuscaInv
<1>8. NoHoleBelow'
  BY <1>2, <1>3 DEF NoHoleBelow, Cheia
<1> QED BY <1>6, <1>7, <1>8 DEF HoleInv

LEMMA LimpaHole ==
  ASSUME NEW l, Chamadores = {l}, HoleInv(l), LimpaBloco(l)
  PROVE  HoleInv(l)' /\ bitmap' = bitmap \ {block_id[l]}
<1>1. /\ op \in [Loaders -> Operacoes] /\ i \in [Loaders -> Nat] /\ block_id \in [Loaders -> Nat]
      /\ visto \in [Loaders -> SUBSET Bits] /\ l \in Loaders /\ BuscaInv(l) /\ bitmap \subseteq Bits
  BY DEF HoleInv, PmmTipos, Loaders
<1>2. /\ op[l] = "limpa" /\ op' = [op EXCEPT ![l] = "recua"] /\ visto' = [visto EXCEPT ![l] = {}]
      /\ bitmap' = (bitmap \ Word(WordOf(block_id[l]))) \cup (visto[l] \ {block_id[l]})
      /\ UNCHANGED <<last_bit_index, i, block_id>>
  BY DEF LimpaBloco
<1>3. visto[l] = Word(WordOf(block_id[l])) \cap bitmap /\ block_id[l] < TotalBlocks
  BY <1>1, <1>2 DEF BuscaInv
<1>4. bitmap' = bitmap \ {block_id[l]}
  <2>1. block_id[l] \in bitmap => block_id[l] \in Word(WordOf(block_id[l]))
    BY <1>1, WordIn
  <2> QED BY <1>2, <1>3, <2>1
<1>5. op'[l] = "recua" /\ op' \in [Loaders -> Operacoes] /\ visto' \in [Loaders -> SUBSET Bits]
  BY <1>1, <1>2 DEF Operacoes
<1>6. PmmTipos' /\ Sobras'
  <2>1. PmmTipos'
    BY <1>1, <1>2, <1>4, <1>5 DEF HoleInv, PmmTipos
  <2>2. Sobras'
    BY <1>1, <1>3, <1>4, SizeIs, BitsAre DEF HoleInv, Sobras
  <2> QED BY <2>1, <2>2
<1>7. BuscaInv(l)'
  BY <1>2, <1>3, <1>5 DEF BuscaInv
<1>8. NoHoleBelow'
  <2> SUFFICES ASSUME NEW w \in 0..(last_bit_index - 1), WordOf(block_id[l]) # w
               PROVE  Word(w) \subseteq bitmap'
    BY <1>2, <1>5 DEF NoHoleBelow, Loaders
  <2>1. Cheia(w)
    BY HoleParts
  <2>2. block_id[l] \notin Word(w)
    BY DEF Word
  <2> QED BY <1>4, <2>1, <2>2 DEF Cheia
<1> QED BY <1>4, <1>6, <1>7, <1>8 DEF HoleInv

LEMMA RecuaHole ==
  ASSUME NEW l, Chamadores = {l}, HoleInv(l), Recua(l)
  PROVE  HoleInv(l)'
<1>1. /\ op \in [Loaders -> Operacoes] /\ i \in [Loaders -> Nat] /\ block_id \in [Loaders -> Nat]
      /\ visto \in [Loaders -> SUBSET Bits] /\ l \in Loaders /\ bitmap \subseteq Bits
      /\ last_bit_index \in 0..(BitmapSize - 1)
  BY DEF HoleInv, PmmTipos, Loaders
<1>2. /\ op[l] = "recua" /\ op' = [op EXCEPT ![l] = "fora"]
      /\ last_bit_index' = IF WordOf(block_id[l]) < last_bit_index
                         THEN WordOf(block_id[l]) ELSE last_bit_index
      /\ UNCHANGED <<bitmap, i, block_id, visto>>
  BY DEF Recua
<1>3. last_bit_index' \in 0..(BitmapSize - 1) /\ last_bit_index' <= last_bit_index
      /\ last_bit_index' <= WordOf(block_id[l]) /\ last_bit_index' \in Nat
  BY <1>1, <1>2, SizeIs, HoleParts
<1>4. op'[l] = "fora" /\ op' \in [Loaders -> Operacoes]
  BY <1>1, <1>2 DEF Operacoes
<1>5. PmmTipos' /\ Sobras'
  BY <1>1, <1>2, <1>3, <1>4 DEF HoleInv, PmmTipos, Sobras
<1>6. BuscaInv(l)'
  BY <1>4 DEF BuscaInv
<1>7. PICK t \in Nat : t = last_bit_index' /\ t <= last_bit_index /\ t <= WordOf(block_id[l])
  BY <1>3
<1>8. last_bit_index \in Nat /\ WordOf(block_id[l]) \in Nat
  <2>1. last_bit_index \in Nat
    BY <1>1, SizeIs
  <2> QED BY <2>1, HoleParts
<1>9. ASSUME NEW w \in 0..(t - 1) PROVE Word(w) \subseteq bitmap
  <2>1. w \in Nat /\ w < t
    OBVIOUS
  <2>2. w < last_bit_index /\ w < WordOf(block_id[l])
    BY <1>7, <1>8, <2>1
  <2>3. w \in 0..(last_bit_index - 1) /\ w # WordOf(block_id[l])
    BY <1>8, <2>1, <2>2
  <2> QED BY <1>2, <2>3, HoleParts DEF Cheia
<1>10. NoHoleBelow'
  BY <1>2, <1>7, <1>9 DEF NoHoleBelow
<1> QED BY <1>5, <1>6, <1>10 DEF HoleInv

-----------------------------------------------------------------------------
(* The steps of elf.c *)

Espacos == [Tables \cup Names -> Nat]

Processos == [espaco : Espacos, dados : SUBSET Nat]

(* What a list of work may hold. *)
Nomes == Tables \cup Names \cup {"arquivo", "bss"}

Elementos(s) == {s[k] : k \in 1..Len(s)}

(* Where the loader waits for the frame it asked pmm.c for. *)
Pedintes == {"pml4", "pdpt", "pd", "pagina", "tabela"}

(* The types of the loader that the proofs need, and where it is while pmm.c works for it. *)
ElfTipos(l) ==
  /\ pc \in [Loaders -> Labels]
  /\ ip \in [Loaders -> 1..Len(TodasPaginas)]
  /\ esp \in [Loaders -> Espacos]
  /\ fila \in [Loaders -> Seq(Nomes)]
  /\ dados \in [Loaders -> SUBSET Nat]
  /\ vivos \in Seq(Processos)
  /\ pc[l] \in {"troca", "copia"} => fila[l] # <<>>
  /\ pc[l] = "desfaz" => Elementos(fila[l]) \subseteq Tables \cup Names
  /\ op[l] \in {"busca", "le", "marca", "guarda"} => pc[l] \in Pedintes
  /\ op[l] \in {"le_livre", "limpa", "recua"} => pc[l] = "desfaz"

(* What a step outside pmm.c does to its variables. *)
PmmMove(l) ==
  \/ UNCHANGED pmmVars
  \/ op[l] = "fora" /\ Aloca(l) /\ UNCHANGED <<bitmap, last_bit_index>>
  \/ op[l] = "fora" /\ (\E b \in Nat : SoltaBloco(l, b)) /\ UNCHANGED <<bitmap, last_bit_index>>

LEMMA HoleMove ==
  ASSUME NEW l, Chamadores = {l}, HoleInv(l), PmmMove(l)
  PROVE  HoleInv(l)'
<1>1. /\ op \in [Loaders -> Operacoes] /\ i \in [Loaders -> Nat] /\ block_id \in [Loaders -> Nat]
      /\ visto \in [Loaders -> SUBSET Bits] /\ l \in Loaders /\ BuscaInv(l)
  BY DEF HoleInv, PmmTipos, Loaders
<1>2. CASE UNCHANGED pmmVars
  <2>1. UNCHANGED <<bitmap, last_bit_index, op, i, block_id, visto>>
    BY <1>2 DEF pmmVars
  <2>2. BuscaInv(l)'
    BY <1>1, <2>1 DEF BuscaInv, Cheia
  <2> QED BY <1>1, <2>1, <2>2, HoleQuiet
<1>3. CASE op[l] = "fora" /\ Aloca(l) /\ UNCHANGED <<bitmap, last_bit_index>>
  <2>1. /\ op' = [op EXCEPT ![l] = "busca"] /\ i' = [i EXCEPT ![l] = 0]
        /\ UNCHANGED <<block_id, visto, bitmap, last_bit_index>>
    BY <1>3 DEF Aloca
  <2>2. /\ op' \in [Loaders -> Operacoes] /\ i' \in [Loaders -> Nat] /\ op'[l] = "busca" /\ i'[l] = 0
    BY <1>1, <2>1 DEF Operacoes
  <2>3. BuscaInv(l)'
    BY <2>1, <2>2, SizeIs DEF BuscaInv
  <2> QED BY <1>1, <1>3, <2>1, <2>2, <2>3, HoleQuiet
<1>4. CASE op[l] = "fora" /\ (\E b \in Nat : SoltaBloco(l, b)) /\ UNCHANGED <<bitmap, last_bit_index>>
  <2>1. PICK b \in Nat :
          /\ op' = [op EXCEPT ![l] = IF b >= TotalBlocks THEN "fora" ELSE "le_livre"]
          /\ block_id' = [block_id EXCEPT ![l] = b]
          /\ UNCHANGED <<i, visto, bitmap, last_bit_index>>
    BY <1>4 DEF SoltaBloco
  <2>2. PICK x \in {"fora", "le_livre"} : x = IF b >= TotalBlocks THEN "fora" ELSE "le_livre"
    OBVIOUS
  <2>3. /\ op' \in [Loaders -> Operacoes] /\ block_id' \in [Loaders -> Nat]
        /\ op'[l] = x /\ block_id'[l] = b
    BY <1>1, <2>1, <2>2 DEF Operacoes
  <2>4. BuscaInv(l)'
    BY <2>2, <2>3, SizeIs DEF BuscaInv
  <2> QED BY <1>1, <1>4, <2>1, <2>3, <2>4, HoleQuiet
<1> QED BY <1>2, <1>3, <1>4 DEF PmmMove

(* A step inside pmm.c. *)
LEMMA HolePmm ==
  ASSUME NEW l, Chamadores = {l}, HoleInv(l), PmmStep(l)
  PROVE  HoleInv(l)'
BY BuscaHole, LeHole, MarcaHole, GuardaHole, LimpaHole, RecuaHole DEF PmmStep

-----------------------------------------------------------------------------
(* The lists of frames to give back *)

LEMMA ElementosConcat ==
  ASSUME NEW S, NEW s \in Seq(S), NEW t \in Seq(S)
  PROVE  s \o t \in Seq(S) /\ Elementos(s \o t) = Elementos(s) \cup Elementos(t)
<1>1. /\ s \o t \in Seq(S) /\ Len(s \o t) = Len(s) + Len(t) /\ Len(s) \in Nat /\ Len(t) \in Nat
      /\ \A k \in 1..(Len(s) + Len(t)) : (s \o t)[k] = IF k <= Len(s) THEN s[k] ELSE t[k - Len(s)]
  BY ConcatProperties
<1>2. ASSUME NEW k \in 1..Len(s) PROVE s[k] \in Elementos(s \o t)
  <2>1. k \in 1..Len(s \o t) /\ (s \o t)[k] = s[k]
    BY <1>1
  <2> QED BY <2>1 DEF Elementos
<1>3. ASSUME NEW k \in 1..Len(t) PROVE t[k] \in Elementos(s \o t)
  <2>1. k + Len(s) \in 1..Len(s \o t) /\ (s \o t)[k + Len(s)] = t[k]
    BY <1>1
  <2> QED BY <2>1 DEF Elementos
<1>4. ASSUME NEW k \in 1..Len(s \o t) PROVE (s \o t)[k] \in Elementos(s) \cup Elementos(t)
  BY <1>1 DEF Elementos
<1> QED BY <1>1, <1>2, <1>3, <1>4 DEF Elementos

LEMMA ElementosHead ==
  ASSUME NEW S, NEW s \in Seq(S), s # <<>>
  PROVE  /\ Head(s) \in Elementos(s) /\ Tail(s) \in Seq(S) /\ Len(Tail(s)) = Len(s) - 1
         /\ Elementos(s) = {Head(s)} \cup Elementos(Tail(s)) /\ Len(s) \in Nat /\ Len(s) > 0
<1>1. /\ Len(s) \in Nat /\ Len(s) > 0 /\ Head(s) = s[1] /\ Tail(s) \in Seq(S)
      /\ Len(Tail(s)) = Len(s) - 1 /\ \A k \in 1..Len(Tail(s)) : Tail(s)[k] = s[k + 1]
  BY HeadTailProperties, LenProperties, EmptySeq
<1>2. ASSUME NEW k \in 1..Len(s) PROVE s[k] \in {Head(s)} \cup Elementos(Tail(s))
  <2>1. CASE k = 1
    BY <1>1, <2>1
  <2>2. CASE k # 1
    <3>1. PICK j \in 1..Len(Tail(s)) : k = j + 1
      BY <1>1, <2>2
    <3> QED BY <1>1, <3>1 DEF Elementos
  <2> QED BY <2>1, <2>2
<1>3. ASSUME NEW k \in 1..Len(Tail(s)) PROVE Tail(s)[k] \in Elementos(s)
  BY <1>1 DEF Elementos
<1> QED BY <1>1, <1>2, <1>3 DEF Elementos

LEMMA SeqOfElementos ==
  ASSUME NEW S, NEW s \in Seq(S)
  PROVE  s \in Seq(Elementos(s))
<1>1. Len(s) \in Nat /\ s \in [1..Len(s) -> S]
  BY LenProperties
<1>2. s \in [1..Len(s) -> Elementos(s)]
  BY <1>1 DEF Elementos
<1> QED BY <1>1, <1>2, SeqDef

LEMMA PagesAre ==
  /\ Segmento \in Seq(Nomes) /\ Pilha \in Seq(Nomes)
  /\ TodasPaginas \in Seq(Nomes) /\ Len(TodasPaginas) \in Nat /\ Len(TodasPaginas) >= 1
  /\ Names = Elementos(Segmento) \cup Elementos(Pilha) /\ Names = Elementos(TodasPaginas)
<1>1. PICK S : Segmento \in Seq(S) /\ Segmento # <<>> /\ Pilha \in Seq(S)
  BY PagesAssumption
<1>2. TodasPaginas \in Seq(S) /\ Elementos(TodasPaginas) = Elementos(Segmento) \cup Elementos(Pilha)
  BY <1>1, ElementosConcat DEF TodasPaginas
<1>3. Len(Segmento) \in Nat /\ Len(Segmento) > 0 /\ Len(Pilha) \in Nat
  BY <1>1, ElementosHead, LenProperties
<1>4. Len(TodasPaginas) = Len(Segmento) + Len(Pilha) /\ DOMAIN TodasPaginas = 1..Len(TodasPaginas)
  BY <1>1, <1>2, ConcatProperties, LenProperties DEF TodasPaginas
<1>5. Names = Elementos(TodasPaginas)
  BY <1>4, Zenon DEF Names, Elementos
<1>6. Elementos(Segmento) \subseteq Nomes /\ Elementos(Pilha) \subseteq Nomes /\ Names \subseteq Nomes
  BY <1>2, <1>5 DEF Nomes
<1>7. Segmento \in Seq(Nomes) /\ Pilha \in Seq(Nomes) /\ TodasPaginas \in Seq(Nomes)
  <2>1. Segmento \in Seq(Elementos(Segmento)) /\ Pilha \in Seq(Elementos(Pilha)) /\ TodasPaginas \in Seq(Elementos(TodasPaginas))
    BY <1>1, <1>2, SeqOfElementos
  <2> QED BY <1>5, <1>6, <2>1, SeqMonotonic
<1> QED BY <1>2, <1>3, <1>4, <1>5, <1>7

LEMMA OrdemIs ==
  OrdemDeSoltura \in Seq(Nomes) /\ Elementos(OrdemDeSoltura) = Tables \cup Names
<1>1. PICK a, b : a = <<"pt">> /\ b = <<"pt_pilha", "pd", "pdpt", "pml4">>
  OBVIOUS
<1>2. /\ a \in Seq(Nomes) /\ Elementos(a) = {"pt"}
      /\ b \in Seq(Nomes) /\ Elementos(b) = {"pt_pilha", "pd", "pdpt", "pml4"}
  <2>1. {"pt", "pt_pilha", "pd", "pdpt", "pml4"} \subseteq Nomes
    BY DEF Nomes, Tables
  <2>2. a \in Seq(Nomes) /\ Len(a) = 1 /\ a[1] = "pt"
    BY <1>1, <2>1
  <2>3. Elementos(a) = {"pt"}
    BY <2>2 DEF Elementos
  <2>4. b \in Seq(Nomes) /\ Len(b) = 4 /\ b[1] = "pt_pilha" /\ b[2] = "pd" /\ b[3] = "pdpt" /\ b[4] = "pml4"
    BY <1>1, <2>1
  <2>5. \A k : k \in 1..4 <=> k \in {1, 2, 3, 4}
    OBVIOUS
  <2>6. Elementos(b) = {"pt_pilha", "pd", "pdpt", "pml4"}
    BY <2>4, <2>5 DEF Elementos
  <2> QED BY <2>2, <2>3, <2>4, <2>6
<1>3. PICK s, t, u : s = Segmento \o a /\ t = s \o Pilha /\ u = t \o b
  OBVIOUS
<1>4. s \in Seq(Nomes) /\ Elementos(s) = Elementos(Segmento) \cup {"pt"}
  BY <1>2, <1>3, PagesAre, ElementosConcat
<1>5. t \in Seq(Nomes) /\ Elementos(t) = Elementos(s) \cup Elementos(Pilha)
  <2>1. Pilha \in Seq(Nomes) /\ s \in Seq(Nomes)
    BY <1>4, PagesAre
  <2>2. s \o Pilha \in Seq(Nomes) /\ Elementos(s \o Pilha) = Elementos(s) \cup Elementos(Pilha)
    BY ONLY <2>1, ElementosConcat
  <2> QED BY <1>3, <2>2
<1>6. u \in Seq(Nomes) /\ Elementos(u) = Elementos(t) \cup Elementos(b)
  <2>1. b \in Seq(Nomes) /\ t \in Seq(Nomes)
    BY <1>2, <1>5
  <2>2. t \o b \in Seq(Nomes) /\ Elementos(t \o b) = Elementos(t) \cup Elementos(b)
    BY ONLY <2>1, ElementosConcat
  <2> QED BY <1>3, <2>2
<1>7. u = OrdemDeSoltura
  BY <1>1, <1>3 DEF OrdemDeSoltura
<1> QED BY <1>2, <1>4, <1>5, <1>6, <1>7, PagesAre DEF Tables

LEMMA CopiaIs ==
  /\ Copia \in Seq(Nomes) /\ Copia # <<>>
  /\ SubSeq(Copia, Partes + 1, 2 * Partes) \in Seq(Nomes)
  /\ SubSeq(Copia, Partes + 1, 2 * Partes) # <<>>
<1>1. Partes \in Nat /\ Partes > 0
  BY PartsAssumption
<1>2. PICK n \in Nat : n = 2 * Partes /\ n > 0 /\ Partes + 1 <= n
  BY <1>1
<1>3. PICK x \in Nomes, y \in Nomes : x = "arquivo" /\ y = "bss"
  BY DEF Nomes
<1>4. Copia = [k \in 1..n |-> IF k <= Partes THEN x ELSE y]
  BY <1>2, <1>3, Zenon DEF Copia
<1>5. Copia \in [1..n -> Nomes]
  BY <1>4
<1>6. Copia \in Seq(Nomes) /\ Len(Copia) = n
  BY <1>2, <1>5, SeqDef, LenProperties
<1>7. PICK z : z = SubSeq(Copia, Partes + 1, n)
  OBVIOUS
<1>8. \A k \in (Partes + 1)..n : Copia[k] \in Nomes
  BY <1>1, <1>5
<1>9. z \in Seq(Nomes) /\ Len(z) = n - Partes
  BY <1>1, <1>2, <1>7, <1>8, SubSeqProperties
<1> QED BY <1>1, <1>2, <1>6, <1>7, <1>9

-----------------------------------------------------------------------------
(* Every step of the loader keeps its types. *)

(* The types after a move of l to label x. *)
LEMMA TypesAfter ==
  ASSUME NEW l, Chamadores = {l}, HoleInv(l), ElfTipos(l), NEW x \in Labels, Goto(l, x),
         ip' \in [Loaders -> 1..Len(TodasPaginas)], esp' \in [Loaders -> Espacos],
         fila' \in [Loaders -> Seq(Nomes)], dados' \in [Loaders -> SUBSET Nat],
         vivos' \in Seq(Processos),
         x \in {"troca", "copia"} => fila'[l] # <<>>,
         x = "desfaz" => Elementos(fila'[l]) \subseteq Tables \cup Names,
         \/ op'[l] = "fora"
         \/ op'[l] = "busca" /\ x \in Pedintes
         \/ op'[l] = "le_livre" /\ x = "desfaz"
  PROVE  ElfTipos(l)'
<1>1. pc' \in [Loaders -> Labels] /\ pc'[l] = x
  BY DEF Goto, ElfTipos, Loaders
<1> QED BY <1>1 DEF ElfTipos

LEMMA PedeIs ==
  ASSUME NEW l, Chamadores = {l}, HoleInv(l), op[l] = "fora", NEW x, Pede(l, x)
  PROVE  /\ PmmMove(l) /\ op'[l] = "busca" /\ Goto(l, x)
         /\ UNCHANGED <<bitmap, last_bit_index, block_id>>
<1>1. op' = [op EXCEPT ![l] = "busca"] /\ UNCHANGED <<bitmap, last_bit_index, block_id>>
  BY DEF Pede, Aloca
<1>2. l \in DOMAIN op
  BY DEF HoleInv, PmmTipos, Loaders
<1> QED BY <1>1, <1>2 DEF PmmMove, Pede

LEMMA FicaIs ==
  ASSUME NEW l, UNCHANGED pmmVars
  PROVE  PmmMove(l) /\ op' = op /\ UNCHANGED <<bitmap, last_bit_index, block_id>>
BY DEF PmmMove, pmmVars

LEMMA NamesAre ==
  /\ \A k \in 1..Len(TodasPaginas) : TodasPaginas[k] \in Names
  /\ \A k : TableOf(k) \in Tables
  /\ None \in Nat /\ Vazio \in Espacos
<1>1. \A k \in 1..Len(TodasPaginas) : TodasPaginas[k] \in Names
  BY PagesAre DEF Elementos
<1>2. \A k : TableOf(k) \in Tables
  BY DEF TableOf, Tables
<1>3. None \in Nat
  BY SizeIs DEF None
<1> QED BY <1>1, <1>2, <1>3 DEF Vazio, Espacos

LEMMA PoeIs ==
  ASSUME NEW l, Chamadores = {l}, ElfTipos(l), NEW n \in Tables \cup Names, NEW f \in Nat, Poe(l, n, f)
  PROVE  /\ esp' \in [Loaders -> Espacos] /\ esp[l] \in Espacos
         /\ esp'[l] = [esp[l] EXCEPT ![n] = f]
<1>1. esp' = [esp EXCEPT ![l] = [esp[l] EXCEPT ![n] = f]] /\ esp \in [Loaders -> Espacos] /\ l \in Loaders
  BY DEF Poe, ElfTipos, Loaders
<1>2. esp[l] \in Espacos
  BY <1>1
<1>3. [esp[l] EXCEPT ![n] = f] \in Espacos
  BY <1>2 DEF Espacos
<1> QED BY <1>1, <1>2, <1>3

LEMMA TypesNow ==
  ASSUME NEW l, Chamadores = {l}, HoleInv(l), ElfTipos(l)
  PROVE  /\ l \in Loaders /\ block_id[l] \in Nat /\ Devolvido(l) \in Nat
         /\ pc \in [Loaders -> Labels] /\ ip \in [Loaders -> 1..Len(TodasPaginas)]
         /\ ip[l] \in 1..Len(TodasPaginas) /\ esp \in [Loaders -> Espacos]
         /\ fila \in [Loaders -> Seq(Nomes)] /\ fila[l] \in Seq(Nomes)
         /\ dados \in [Loaders -> SUBSET Nat] /\ vivos \in Seq(Processos) /\ esp[l] \in Espacos
         /\ TodasPaginas[ip[l]] \in Names /\ TableOf(ip[l]) \in Tables
<1>1. l \in Loaders /\ block_id \in [Loaders -> Nat]
  BY DEF HoleInv, PmmTipos, Loaders
<1> QED BY <1>1, NamesAre DEF ElfTipos, Devolvido

LEMMA TablesTypes ==
  ASSUME NEW l, Chamadores = {l}, HoleInv(l), ElfTipos(l),
         Comeca(l) \/ TemPml4(l) \/ TemPdpt(l) \/ TemPd(l)
  PROVE  ElfTipos(l)' /\ PmmMove(l) /\ op[l] = "fora"
<1>1. op[l] = "fora"
  BY DEF Comeca, TemPml4, TemPdpt, TemPd, At
<1>2. UNCHANGED <<ip, fila, dados, vivos>>
  BY DEF Comeca, TemPml4, TemPdpt, TemPd
<1>3. PICK x \in {"espera", "pml4", "pdpt", "pd", "cabecalho"} :
        /\ Goto(l, x)
        /\ PmmMove(l)
        /\ op'[l] = "fora" \/ (op'[l] = "busca" /\ x \in Pedintes)
  <2>1. CASE Comeca(l)
    <3>1. Pede(l, "pml4")
      BY <2>1 DEF Comeca
    <3> QED BY <1>1, <3>1, PedeIs DEF Pedintes
  <2>2. CASE TemPml4(l)
    <3>1. (Goto(l, "espera") /\ UNCHANGED pmmVars) \/ Pede(l, "pdpt")
      BY <2>2 DEF TemPml4
    <3> QED BY <1>1, <3>1, PedeIs, FicaIs DEF Pedintes
  <2>3. CASE TemPdpt(l)
    <3>1. Pede(l, "pd")
      BY <2>3 DEF TemPdpt
    <3> QED BY <1>1, <3>1, PedeIs DEF Pedintes
  <2>4. CASE TemPd(l)
    <3>1. Goto(l, "cabecalho") /\ UNCHANGED pmmVars
      BY <2>4 DEF TemPd
    <3> QED BY <1>1, <3>1, FicaIs
  <2> QED BY <2>1, <2>2, <2>3, <2>4
<1>4. esp' = esp \/ \E n \in {"pml4", "pdpt", "pd"} : Poe(l, n, Devolvido(l))
  BY DEF Comeca, TemPml4, TemPdpt, TemPd
<1>5. esp' \in [Loaders -> Espacos]
  <2>1. {"pml4", "pdpt", "pd"} \subseteq Tables \cup Names
    BY DEF Tables
  <2> QED BY <1>4, <2>1, TypesNow, PoeIs
<1>6. x \in Labels /\ x \notin {"troca", "copia", "desfaz"}
  BY DEF Labels
<1> QED BY <1>1, <1>2, <1>3, <1>5, <1>6, TypesNow, TypesAfter

LEMMA CabecalhoTypes ==
  ASSUME NEW l, Chamadores = {l}, HoleInv(l), ElfTipos(l), Cabecalho(l)
  PROVE  ElfTipos(l)' /\ PmmMove(l) /\ op[l] = "fora"
<1>1. op[l] = "fora" /\ ip' = [ip EXCEPT ![l] = 1] /\ UNCHANGED <<esp, dados, vivos>>
  BY DEF Cabecalho, At
<1>2. ip' \in [Loaders -> 1..Len(TodasPaginas)]
  BY <1>1, TypesNow, PagesAre
<1>3. CASE Pede(l, "pagina") /\ UNCHANGED fila
  <2>1. "pagina" \in Labels \cap Pedintes
    BY DEF Labels, Pedintes
  <2> QED BY <1>1, <1>2, <1>3, <2>1, PedeIs, TypesNow, TypesAfter
<1>4. CASE /\ Goto(l, "desfaz") /\ fila' = [fila EXCEPT ![l] = OrdemDeSoltura]
           /\ UNCHANGED pmmVars
  <2>1. fila' \in [Loaders -> Seq(Nomes)] /\ fila'[l] = OrdemDeSoltura
    BY <1>4, OrdemIs, TypesNow
  <2>2. "desfaz" \in Labels
    BY DEF Labels
  <2> QED BY <1>1, <1>2, <1>4, <2>1, <2>2, FicaIs, OrdemIs, TypesNow, TypesAfter
<1> QED BY <1>3, <1>4 DEF Cabecalho

(* On to the next page. *)
LEMMA ProximaIs ==
  ASSUME NEW l, Chamadores = {l}, HoleInv(l), ElfTipos(l), op[l] = "fora", ProximaPagina(l)
  PROVE  /\ PmmMove(l) /\ ip' \in [Loaders -> 1..Len(TodasPaginas)] /\ UNCHANGED <<bitmap, block_id>>
         /\ \/ /\ Goto(l, "pagina") /\ op'[l] = "busca"
               /\ ip[l] < Len(TodasPaginas) /\ ip'[l] = ip[l] + 1
            \/ /\ Goto(l, "cli") /\ op'[l] = "fora" /\ ip' = ip
               /\ ip[l] = Len(TodasPaginas)
<1>1. ip[l] \in 1..Len(TodasPaginas) /\ ip \in [Loaders -> 1..Len(TodasPaginas)] /\ Len(TodasPaginas) \in Nat /\ l \in Loaders
  BY TypesNow, PagesAre
<1>2. CASE ip[l] < Len(TodasPaginas)
  <2>1. Pede(l, "pagina") /\ ip' = [ip EXCEPT ![l] = ip[l] + 1]
    BY <1>2 DEF ProximaPagina
  <2>2. ip' \in [Loaders -> 1..Len(TodasPaginas)] /\ ip'[l] = ip[l] + 1
    BY <1>1, <1>2, <2>1
  <2>3. /\ PmmMove(l) /\ op'[l] = "busca" /\ Goto(l, "pagina")
        /\ UNCHANGED <<bitmap, last_bit_index, block_id>>
    BY <2>1, PedeIs
  <2> QED BY <1>2, <2>2, <2>3
<1>3. CASE ~(ip[l] < Len(TodasPaginas))
  <2>1. Goto(l, "cli") /\ UNCHANGED <<ip, pmmVars>>
    BY <1>3 DEF ProximaPagina
  <2>2. ip[l] = Len(TodasPaginas)
    BY <1>1, <1>3
  <2>3. PmmMove(l) /\ op' = op /\ UNCHANGED <<bitmap, last_bit_index, block_id>>
    BY <2>1, FicaIs
  <2> QED BY <1>1, <2>1, <2>2, <2>3
<1> QED BY <1>2, <1>3

LEMMA PageTypes ==
  ASSUME NEW l, Chamadores = {l}, HoleInv(l), ElfTipos(l), TemPagina(l) \/ TemTabela(l)
  PROVE  ElfTipos(l)' /\ PmmMove(l) /\ op[l] = "fora"
<1>1. op[l] = "fora" /\ UNCHANGED <<fila, dados, vivos>>
  BY DEF TemPagina, TemTabela, At
<1>2. ProximaPagina(l) \/ (Pede(l, "tabela") /\ UNCHANGED ip)
  BY DEF TemPagina, TemTabela
<1>3. \E n \in Tables \cup Names, f \in Nat : Poe(l, n, f)
  BY TypesNow, NamesAre DEF TemPagina, TemTabela
<1>4. esp' \in [Loaders -> Espacos]
  BY <1>3, PoeIs
<1>5. PICK x \in {"pagina", "cli", "tabela"} :
        /\ Goto(l, x) /\ PmmMove(l) /\ ip' \in [Loaders -> 1..Len(TodasPaginas)]
        /\ op'[l] = "fora" \/ (op'[l] = "busca" /\ x \in Pedintes)
  BY <1>1, <1>2, ProximaIs, PedeIs, TypesNow DEF Pedintes
<1>6. x \in Labels /\ x \notin {"troca", "copia", "desfaz"}
  BY DEF Labels
<1> QED BY <1>1, <1>4, <1>5, <1>6, TypesNow, TypesAfter

LEMMA CopyTypes ==
  ASSUME NEW l, Chamadores = {l}, HoleInv(l), ElfTipos(l),
         Cli(l) \/ Buffer(l) \/ Troca(l) \/ CopiaParte(l) \/ Volta(l)
  PROVE  ElfTipos(l)' /\ PmmMove(l) /\ op[l] = "fora" /\ op' = op
<1>1. /\ op[l] = "fora" /\ UNCHANGED <<ip, esp, vivos>> /\ UNCHANGED pmmVars
      /\ pc[l] \in {"cli", "buffer", "troca", "copia", "volta"}
  BY DEF Cli, Buffer, Troca, CopiaParte, Volta, At
<1>2. PmmMove(l) /\ op' = op
  BY <1>1, FicaIs
<1>3. CASE Cli(l)
  <2>1. Goto(l, "buffer") /\ UNCHANGED <<fila, dados>> /\ "buffer" \in Labels
    BY <1>3 DEF Cli, Labels
  <2> QED BY <1>1, <1>2, <2>1, TypesNow, TypesAfter
<1>4. CASE Buffer(l)
  <2>1. PICK ok : fila' = [fila EXCEPT ![l] = IF ok THEN Copia ELSE SubSeq(Copia, Partes + 1, 2 * Partes)]
    BY <1>4 DEF Buffer
  <2>2. PICK z \in Seq(Nomes) : z # <<>> /\ fila' = [fila EXCEPT ![l] = z]
    BY <2>1, CopiaIs
  <2>3. fila' \in [Loaders -> Seq(Nomes)] /\ fila'[l] = z
    BY <2>2, TypesNow
  <2>4. Goto(l, "troca") /\ UNCHANGED dados /\ "troca" \in Labels
    BY <1>4 DEF Buffer, Labels
  <2> QED BY <1>1, <1>2, <2>2, <2>3, <2>4, TypesNow, TypesAfter
<1>5. CASE Troca(l)
  <2>1. Goto(l, "copia") /\ UNCHANGED <<fila, dados>> /\ "copia" \in Labels /\ pc[l] = "troca"
    BY <1>5 DEF Troca, Labels, At
  <2>2. fila'[l] # <<>>
    BY <2>1 DEF ElfTipos
  <2> QED BY <1>1, <1>2, <2>1, <2>2, TypesNow, TypesAfter
<1>6. CASE CopiaParte(l)
  <2>1. PICK x : x = IF FimDaCopia(l) THEN "volta" ELSE "copia"
    OBVIOUS
  <2>2. /\ Goto(l, x) /\ x \in Labels /\ x # "troca" /\ x # "desfaz" /\ pc[l] = "copia"
        /\ fila' = [fila EXCEPT ![l] = Tail(fila[l])]
        /\ dados' = [dados EXCEPT ![l] = IF cr3 = l THEN dados[l] \cup {Len(fila[l])} ELSE dados[l]]
    BY <1>6, <2>1 DEF CopiaParte, Labels, At
  <2>3. fila[l] \in Seq(Nomes) /\ fila[l] # <<>>
    BY <2>2, TypesNow DEF ElfTipos
  <2>4. /\ Tail(fila[l]) \in Seq(Nomes) /\ Len(Tail(fila[l])) = Len(fila[l]) - 1
        /\ Len(fila[l]) \in Nat /\ Len(fila[l]) > 0
    BY <2>3, ElementosHead
  <2>5. fila' \in [Loaders -> Seq(Nomes)] /\ fila'[l] = Tail(fila[l])
    BY <2>2, <2>4, TypesNow
  <2>6. dados' \in [Loaders -> SUBSET Nat]
    <3>1. PICK D \in SUBSET Nat : D = IF cr3 = l THEN dados[l] \cup {Len(fila[l])} ELSE dados[l]
      BY <2>4, TypesNow
    <3>2. dados' = [dados EXCEPT ![l] = D]
      BY <2>2, <3>1
    <3> QED BY <3>2, TypesNow
  <2>7. x = "copia" => fila'[l] # <<>>
    <3> SUFFICES ASSUME ~FimDaCopia(l) PROVE fila'[l] # <<>>
      BY <2>1
    <3>1. Len(fila'[l]) # 0
      BY <2>4, <2>5 DEF FimDaCopia
    <3> QED BY <3>1
  <2> QED BY <1>1, <1>2, <2>2, <2>5, <2>6, <2>7, TypesNow, TypesAfter
<1>7. CASE Volta(l)
  <2>1. PICK x : x = IF fila[l] = <<>> THEN "fim" ELSE "troca"
    OBVIOUS
  <2>2. Goto(l, x) /\ x \in Labels /\ UNCHANGED <<fila, dados>> /\ x # "copia" /\ x # "desfaz"
    BY <1>7, <2>1 DEF Volta, Labels
  <2> QED BY <1>1, <1>2, <2>1, <2>2, TypesNow, TypesAfter
<1> QED BY <1>1, <1>2, <1>3, <1>4, <1>5, <1>6, <1>7

LEMMA LimpoIs ==
  ASSUME NEW l, Chamadores = {l}, HoleInv(l), ElfTipos(l), Limpo(l)
  PROVE  /\ esp' \in [Loaders -> Espacos] /\ esp'[l] = Vazio
         /\ dados' \in [Loaders -> SUBSET Nat] /\ Goto(l, "espera")
<1>1. /\ esp' = [esp EXCEPT ![l] = Vazio] /\ dados' = [dados EXCEPT ![l] = {}] /\ Goto(l, "espera")
  BY DEF Limpo
<1>2. PICK v \in Espacos : v = Vazio
  BY NamesAre
<1> QED BY <1>1, <1>2, TypesNow

LEMMA EndTypes ==
  ASSUME NEW l, Chamadores = {l}, HoleInv(l), ElfTipos(l),
         SemEntrada(l) \/ CriaProcesso(l) \/ Desfaz(l) \/ Desfeito(l)
  PROVE  ElfTipos(l)' /\ PmmMove(l) /\ op[l] = "fora"
<1>1. op[l] = "fora" /\ UNCHANGED ip
  BY DEF SemEntrada, CriaProcesso, Desfaz, Desfeito, At
<1>2. CASE SemEntrada(l)
  <2>1. /\ Goto(l, "desfaz") /\ fila' = [fila EXCEPT ![l] = OrdemDeSoltura]
        /\ UNCHANGED <<esp, dados, vivos>> /\ UNCHANGED pmmVars /\ "desfaz" \in Labels
    BY <1>2 DEF SemEntrada, Labels
  <2>2. fila' \in [Loaders -> Seq(Nomes)] /\ fila'[l] = OrdemDeSoltura
    BY <2>1, OrdemIs, TypesNow
  <2> QED BY <1>1, <2>1, <2>2, FicaIs, OrdemIs, TypesNow, TypesAfter
<1>3. CASE CriaProcesso(l)
  <2>1. UNCHANGED pmmVars /\ UNCHANGED fila /\ Limpo(l) /\ "espera" \in Labels
    BY <1>3 DEF CriaProcesso, Labels
  <2>2. PICK p : p = [espaco |-> esp[l], dados |-> dados[l]]
    OBVIOUS
  <2>3. p \in Processos
    BY <2>2, TypesNow DEF Processos
  <2>4. vivos' = vivos \/ vivos' = Append(vivos, p)
    BY <1>3, <2>2 DEF CriaProcesso
  <2>5. vivos' \in Seq(Processos)
    <3>1. vivos \in Seq(Processos)
      BY TypesNow
    <3>2. Append(vivos, p) \in Seq(Processos)
      BY ONLY <2>3, <3>1, AppendProperties
    <3> QED BY <2>4, <3>1, <3>2
  <2> QED BY <1>1, <2>1, <2>5, FicaIs, LimpoIs, TypesNow, TypesAfter
<1>4. CASE Desfaz(l)
  <2>1. pc[l] = "desfaz" /\ fila[l] # <<>> /\ fila' = [fila EXCEPT ![l] = Tail(fila[l])]
        /\ UNCHANGED <<pc, dados, vivos>>
    BY <1>4 DEF Desfaz, At
  <2>2. PICK n : n = Head(fila[l])
    OBVIOUS
  <2>3. /\ Tail(fila[l]) \in Seq(Nomes) /\ Elementos(Tail(fila[l])) \subseteq Tables \cup Names
        /\ n \in Tables \cup Names
    BY <2>1, <2>2, ElementosHead, TypesNow DEF ElfTipos
  <2>4. fila' \in [Loaders -> Seq(Nomes)] /\ fila'[l] = Tail(fila[l])
    BY <2>1, <2>3, TypesNow
  <2>5. \/ UNCHANGED <<pmmVars, esp>>
        \/ SoltaBloco(l, esp[l][n]) /\ Poe(l, n, None) /\ UNCHANGED <<bitmap, last_bit_index>>
    BY <1>4, <2>2 DEF Desfaz
  <2>6. esp' \in [Loaders -> Espacos] /\ esp[l][n] \in Nat
    <3>1. esp[l] \in Espacos /\ esp \in [Loaders -> Espacos]
      BY TypesNow
    <3>2. esp[l][n] \in Nat
      BY <2>3, <3>1 DEF Espacos
    <3>3. CASE esp' = esp
      BY <3>1, <3>2, <3>3
    <3>4. CASE Poe(l, n, None)
      <4>1. PICK f \in Nat : f = None
        BY NamesAre
      <4> QED BY <2>3, <3>2, <3>4, <4>1, PoeIs
    <3> QED BY <2>5, <3>3, <3>4
  <2>7. PmmMove(l)
    BY <1>1, <2>5, <2>6 DEF PmmMove
  <2>8. op'[l] \in {"fora", "le_livre"}
    BY <1>1, <2>5, TypesNow DEF SoltaBloco, pmmVars, HoleInv, PmmTipos
  <2>9. Goto(l, "desfaz") /\ "desfaz" \in Labels
    BY <2>1, TypesNow DEF Goto, Labels
  <2> QED BY <1>1, <2>1, <2>3, <2>4, <2>6, <2>7, <2>8, <2>9, TypesNow, TypesAfter
<1>5. CASE Desfeito(l)
  <2>1. UNCHANGED pmmVars /\ UNCHANGED <<fila, vivos>> /\ Limpo(l) /\ "espera" \in Labels
    BY <1>5 DEF Desfeito, Labels
  <2> QED BY <1>1, <2>1, FicaIs, LimpoIs, TypesNow, TypesAfter
<1> QED BY <1>1, <1>2, <1>3, <1>4, <1>5

(* While pmm.c works, its caller waits. *)
LEMMA AllocatorTypes ==
  ASSUME NEW l, Chamadores = {l}, HoleInv(l), ElfTipos(l), PmmStep(l),
         UNCHANGED <<pc, ip, esp, fila, dados, vivos>>
  PROVE  ElfTipos(l)'
<1>1. op \in [Loaders -> Operacoes] /\ l \in Loaders
  BY DEF HoleInv, PmmTipos, Loaders
<1>2. \/ op[l] \in {"busca", "le", "marca", "guarda"} /\ op'[l] \in {"busca", "le", "marca", "guarda", "fora"}
      \/ op[l] \in {"le_livre", "limpa", "recua"} /\ op'[l] \in {"le_livre", "limpa", "recua", "fora"}
  BY <1>1 DEF PmmStep, Busca, Le, MarcaBloco, Guarda, LeLivre, LimpaBloco, Recua
<1> QED BY <1>2 DEF ElfTipos

LEMMA ElfInit ==
  ASSUME NEW l, Chamadores = {l}, Init
  PROVE  HoleInv(l) /\ ElfTipos(l)
<1>1. HoleInv(l)
  BY HoleInit DEF Init
<1>2. /\ pc = [x \in Loaders |-> "espera"] /\ ip = [x \in Loaders |-> 1]
      /\ esp = [x \in Loaders |-> Vazio] /\ fila = [x \in Loaders |-> <<>>]
      /\ dados = [x \in Loaders |-> {}] /\ vivos = <<>> /\ op = [x \in Loaders |-> "fora"]
  BY DEF Init, PmmInit, Loaders
<1>3. PICK e \in Seq(Nomes), v \in Espacos : e = <<>> /\ v = Vazio
  BY NamesAre, EmptySeq
<1>4. pc \in [Loaders -> Labels] /\ esp \in [Loaders -> Espacos] /\ fila \in [Loaders -> Seq(Nomes)]
  BY <1>2, <1>3 DEF Labels
<1>5. ip \in [Loaders -> 1..Len(TodasPaginas)] /\ dados \in [Loaders -> SUBSET Nat]
  BY <1>2, PagesAre
<1>6. vivos \in Seq(Processos)
  BY <1>2, EmptySeq
<1>7. pc[l] = "espera" /\ op[l] = "fora"
  BY <1>2 DEF Loaders
<1> QED BY <1>1, <1>4, <1>5, <1>6, <1>7 DEF ElfTipos

LEMMA ElfStep ==
  ASSUME NEW l, Chamadores = {l}, HoleInv(l), ElfTipos(l), [Next]_vars
  PROVE  HoleInv(l)' /\ ElfTipos(l)'
<1>1. CASE Aloca1(l)
  <2>1. PmmStep(l) /\ UNCHANGED <<pc, ip, esp, fila, dados, vivos>>
    BY <1>1 DEF Aloca1, elfLocals
  <2> QED BY <2>1, HolePmm, AllocatorTypes
<1>2. CASE \/ Comeca(l) \/ TemPml4(l) \/ TemPdpt(l) \/ TemPd(l) \/ Cabecalho(l) \/ TemPagina(l) \/ TemTabela(l)
           \/ Cli(l) \/ Buffer(l) \/ Troca(l) \/ CopiaParte(l) \/ Volta(l)
           \/ SemEntrada(l) \/ CriaProcesso(l) \/ Desfaz(l) \/ Desfeito(l)
  <2>1. ElfTipos(l)' /\ PmmMove(l)
    BY <1>2, TablesTypes, CabecalhoTypes, PageTypes, CopyTypes, EndTypes
  <2> QED BY <2>1, HoleMove
<1>3. CASE Tick \/ UNCHANGED vars
  <2>1. UNCHANGED pmmVars /\ UNCHANGED <<pc, ip, esp, fila, dados, vivos>>
    BY <1>3 DEF Tick, vars, elfLocals
  <2>2. PmmMove(l) /\ op' = op
    BY <2>1, FicaIs
  <2>3. ElfTipos(l)'
    BY <2>1, <2>2 DEF ElfTipos
  <2> QED BY <2>2, <2>3, HoleMove
<1> QED BY <1>1, <1>2, <1>3 DEF Next, Step, Loaders

(* While a single task calls the allocator, no hole lies below the word its search      *)
(* starts at, other than the one being freed, however large the memory is and whatever   *)
(* is loaded (pmm.c:43-46).                                                              *)
THEOREM HolesAreFound == (\E l : Chamadores = {l}) => (Spec => []NoHoleBelow)
<1> SUFFICES ASSUME NEW l, Chamadores = {l} PROVE Spec => []NoHoleBelow
  OBVIOUS
<1>1. Init => HoleInv(l) /\ ElfTipos(l)
  BY ElfInit
<1>2. HoleInv(l) /\ ElfTipos(l) /\ [Next]_vars => HoleInv(l)' /\ ElfTipos(l)'
  BY ElfStep
<1>3. HoleInv(l) => NoHoleBelow
  BY DEF HoleInv
<1> QED BY <1>1, <1>2, <1>3, PTL DEF Spec

-----------------------------------------------------------------------------
(* The frames *)

(* The frames of the processes that were created. *)
DosVivos == UNION {Quadros(vivos[k].espaco) : k \in DOMAIN vivos}

(* No frame is in a space twice. *)
Distintos(e) == \A m, n \in Tables \cup Names : e[m] = e[n] /\ e[m] # None => m = n

(* Each frame in use has one place: it is reserved, a process's, in the space the *)
(* loader builds, or on its way there or back.                                    *)
Partilha(l) ==
  /\ bitmap = Reserved \cup DosVivos \cup Quadros(esp[l]) \cup EmTransito(l)
  /\ DosVivos \subseteq Usable /\ Quadros(esp[l]) \subseteq Usable /\ EmTransito(l) \subseteq Usable
  /\ DosVivos \cap Quadros(esp[l]) = {} /\ DosVivos \cap EmTransito(l) = {}
  /\ Quadros(esp[l]) \cap EmTransito(l) = {}
  /\ Distintos(esp[l])

(* The names of the space that have no frame yet. *)
Vagos(l) ==
  CASE pc[l] \in {"espera", "pml4"} -> Tables \cup Names
    [] pc[l] = "pdpt"      -> (Tables \cup Names) \ {"pml4"}
    [] pc[l] = "pd"        -> (Tables \cup Names) \ {"pml4", "pdpt"}
    [] pc[l] = "cabecalho" -> Names
    [] pc[l] = "pagina"    -> {TodasPaginas[k] : k \in ip[l]..Len(TodasPaginas)}
    [] pc[l] = "tabela"    -> {TodasPaginas[k] : k \in (ip[l] + 1)..Len(TodasPaginas)} \cup {TableOf(ip[l])}
    [] pc[l] = "desfaz"    -> (Tables \cup Names) \ Elementos(fila[l])
    [] OTHER               -> {}

(* The inductive invariant of AllOrNothing: besides the shares, a loader that asked for *)
(* a frame has it, and takes it to a place that is vacant.                              *)
FrameInv(l) ==
  /\ Partilha(l)
  /\ \A n \in Vagos(l) : esp[l][n] = None
  /\ op[l] = "fora" /\ pc[l] \in Pedintes => block_id[l] \in Usable

LEMMA UsableIs ==
  /\ Usable \subseteq Nat /\ 0 \notin Usable /\ None \notin Usable
  /\ \A f \in Usable : f < TotalBlocks
  /\ \A f \in Bits : f \notin Reserved => f \in Usable
  /\ Usable \cap Reserved = {}
BY UsableAssumption, SizeIs DEF None, Reserved

LEMMA QuadrosIs ==
  ASSUME NEW e \in Espacos
  PROVE  /\ \A f : f \in Quadros(e) => f # None /\ \E n \in Tables \cup Names : e[n] = f
         /\ \A n \in Tables \cup Names : e[n] # None => e[n] \in Quadros(e)
<1>1. DOMAIN e = Tables \cup Names
  BY DEF Espacos
<1> QED BY <1>1 DEF Quadros

(* A frame goes to a vacant place. *)
LEMMA QuadrosPoe ==
  ASSUME NEW e \in Espacos, Distintos(e), NEW n \in Tables \cup Names, e[n] = None,
         NEW f \in Nat, f # None, f \notin Quadros(e), NEW g, g = [e EXCEPT ![n] = f]
  PROVE  g \in Espacos /\ Quadros(g) = Quadros(e) \cup {f} /\ Distintos(g)
<1>1. g \in Espacos /\ g[n] = f /\ \A m \in Tables \cup Names : m # n => g[m] = e[m]
  BY DEF Espacos
<1>2. /\ \A x : x \in Quadros(g) => x # None /\ \E m \in Tables \cup Names : g[m] = x
      /\ \A m \in Tables \cup Names : g[m] # None => g[m] \in Quadros(g)
  BY ONLY <1>1, QuadrosIs
<1>3. /\ \A x : x \in Quadros(e) => x # None /\ \E m \in Tables \cup Names : e[m] = x
      /\ \A m \in Tables \cup Names : e[m] # None => e[m] \in Quadros(e)
  BY QuadrosIs
<1>4. ASSUME NEW x \in Quadros(g) PROVE x \in Quadros(e) \cup {f}
  <2>1. PICK m \in Tables \cup Names : g[m] = x /\ x # None
    BY <1>2
  <2> QED BY <1>1, <1>3, <2>1
<1>5. ASSUME NEW x \in Quadros(e) PROVE x \in Quadros(g)
  <2>1. PICK m \in Tables \cup Names : e[m] = x /\ x # None
    BY <1>3
  <2> QED BY <1>1, <1>2, <2>1
<1>6. f \in Quadros(g)
  BY <1>1, <1>2
<1>7. Distintos(g)
  <2> SUFFICES ASSUME NEW a \in Tables \cup Names, NEW b \in Tables \cup Names, g[a] = g[b], g[a] # None, a # b
               PROVE  FALSE
    BY DEF Distintos
  <2>1. CASE a # n /\ b # n
    BY <1>1, <2>1 DEF Distintos
  <2>2. CASE a = n
    BY <1>1, <1>3, <2>2
  <2>3. CASE b = n
    BY <1>1, <1>3, <2>3
  <2> QED BY <2>1, <2>2, <2>3
<1> QED BY <1>1, <1>4, <1>5, <1>6, <1>7

(* A frame leaves its place. *)
LEMMA QuadrosTira ==
  ASSUME NEW e \in Espacos, Distintos(e), NEW n \in Tables \cup Names, e[n] # None,
         NEW g, g = [e EXCEPT ![n] = None]
  PROVE  /\ g \in Espacos /\ Quadros(g) = Quadros(e) \ {e[n]} /\ Distintos(g) /\ e[n] \in Quadros(e)
<1>0. PICK v \in Nat : v = None
  BY NamesAre
<1>1. g \in Espacos /\ g[n] = None /\ \A m \in Tables \cup Names : m # n => g[m] = e[m]
  BY <1>0 DEF Espacos
<1>2. /\ \A x : x \in Quadros(g) => x # None /\ \E m \in Tables \cup Names : g[m] = x
      /\ \A m \in Tables \cup Names : g[m] # None => g[m] \in Quadros(g)
  BY ONLY <1>1, QuadrosIs
<1>3. /\ \A x : x \in Quadros(e) => x # None /\ \E m \in Tables \cup Names : e[m] = x
      /\ \A m \in Tables \cup Names : e[m] # None => e[m] \in Quadros(e)
  BY QuadrosIs
<1>4. ASSUME NEW x \in Quadros(g) PROVE x \in Quadros(e) /\ x # e[n]
  <2>1. PICK m \in Tables \cup Names : g[m] = x /\ x # None
    BY <1>2
  <2>2. m # n /\ e[m] = x
    BY <1>1, <2>1
  <2> QED BY <1>3, <2>1, <2>2 DEF Distintos
<1>5. ASSUME NEW x \in Quadros(e), x # e[n] PROVE x \in Quadros(g)
  <2>1. PICK m \in Tables \cup Names : e[m] = x /\ x # None
    BY <1>3
  <2>2. m # n /\ g[m] = x
    BY <1>1, <1>5, <2>1
  <2> QED BY <1>2, <2>1, <2>2
<1>6. Distintos(g)
  <2> SUFFICES ASSUME NEW a \in Tables \cup Names, NEW b \in Tables \cup Names, g[a] = g[b], g[a] # None, a # b
               PROVE  FALSE
    BY DEF Distintos
  <2> QED BY <1>1 DEF Distintos
<1> QED BY <1>1, <1>3, <1>4, <1>5, <1>6

LEMMA VazioIs ==
  /\ Vazio \in Espacos /\ Distintos(Vazio) /\ Quadros(Vazio) = {}
  /\ \A n \in Tables \cup Names : Vazio[n] = None
<1>1. Vazio \in Espacos /\ \A n \in Tables \cup Names : Vazio[n] = None
  BY NamesAre DEF Vazio
<1> QED BY <1>1, QuadrosIs DEF Distintos

LEMMA ShareAll ==
  ASSUME NEW l, Chamadores = {l}, FrameInv(l)
  PROVE  AllOrNothing
<1>1. PICK q : q = Quadros(esp[l]) \cup EmTransito(l)
  OBVIOUS
<1>2. UNION {Quadros(esp[x]) \cup EmTransito(x) : x \in Loaders} = q
  BY <1>1 DEF Loaders
<1>3. bitmap = Reserved \cup DosVivos \cup q
  BY <1>1 DEF FrameInv, Partilha
<1> QED BY <1>2, <1>3 DEF DosVivos, AllOrNothing

LEMMA FrameInit ==
  ASSUME NEW l, Chamadores = {l}, Init
  PROVE  FrameInv(l)
<1>1. /\ bitmap = Reserved /\ vivos = <<>> /\ esp = [x \in Loaders |-> Vazio] /\ l \in Loaders
      /\ op[l] = "fora" /\ pc[l] = "espera"
  BY DEF Init, PmmInit, Loaders
<1>2. esp[l] = Vazio
  BY <1>1
<1>3. EmTransito(l) = {} /\ DosVivos = {}
  BY <1>1 DEF EmTransito, DosVivos
<1>4. Partilha(l)
  BY <1>1, <1>2, <1>3, VazioIs DEF Partilha
<1> QED BY <1>1, <1>2, <1>4, VazioIs DEF FrameInv, Vagos, Pedintes

(* The search fails only when no frame is free. *)
LEMMA SearchEnds ==
  ASSUME NEW l, Chamadores = {l}, HoleInv(l), Busca(l), op'[l] = "fora"
  PROVE  Esgotada
<1>1. /\ bitmap \subseteq Bits /\ last_bit_index \in 0..(BitmapSize - 1)
      /\ i[l] \in Nat /\ op[l] = "busca" /\ i[l] < BitmapSize
      /\ \A k \in 0..(i[l] - 1) : Cheia((last_bit_index + k) % BitmapSize)
      /\ op \in [Loaders -> Operacoes] /\ l \in Loaders /\ Sobras
  BY HoleParts DEF Busca, HoleInv, BuscaInv, PmmTipos, Loaders
<1>2. BitmapSize \in Nat /\ BitmapSize >= 1
  BY SizeIs
<1>3. PICK index : index = (last_bit_index + i[l]) % BitmapSize
  OBVIOUS
<1>4. PICK achados : achados = {b \in Word(index) : LowestClear(index, b) /\ b < TotalBlocks}
  OBVIOUS
<1>5. op' = [op EXCEPT ![l] = IF achados # {} THEN "le"
                              ELSE IF i[l] + 1 < BitmapSize THEN "busca" ELSE "fora"]
  BY <1>3, <1>4 DEF Busca
<1>6. achados = {} /\ ~(i[l] + 1 < BitmapSize)
  BY <1>1, <1>5
<1>7. Cheia(index)
  BY <1>1, <1>4, <1>6, NoneMeansFull
<1>8. ASSUME NEW k \in 0..(BitmapSize - 1) PROVE Cheia((last_bit_index + k) % BitmapSize)
  <2>1. CASE k = i[l]
    BY <1>3, <1>7, <2>1
  <2>2. CASE k # i[l]
    <3>1. i[l] \in Nat /\ BitmapSize \in Nat /\ ~(i[l] + 1 < BitmapSize)
      BY <1>1, <1>2, <1>6
    <3>2. k \in 0..(i[l] - 1)
      BY <2>2, <3>1
    <3> QED BY <1>1, <3>2, Zenon
  <2> QED BY <2>1, <2>2
<1>9. ASSUME NEW w \in 0..(BitmapSize - 1) PROVE Cheia(w)
  <2>1. PICK k \in 0..(BitmapSize - 1) :
          w = IF last_bit_index + k < BitmapSize THEN last_bit_index + k ELSE last_bit_index + k - BitmapSize
    <3>1. CASE w >= last_bit_index
      <4>1. PICK k \in 0..(BitmapSize - 1) : k = w - last_bit_index
        BY <1>1, <1>2, <3>1
      <4>2. w = last_bit_index + k /\ last_bit_index + k < BitmapSize
        BY <1>1, <1>2, <4>1
      <4> QED BY <4>1, <4>2
    <3>2. CASE w < last_bit_index
      <4>1. PICK k \in 0..(BitmapSize - 1) : k = w - last_bit_index + BitmapSize
        BY <1>1, <1>2, <3>2
      <4>2. w = last_bit_index + k - BitmapSize /\ ~(last_bit_index + k < BitmapSize)
        BY <1>1, <1>2, <4>1
      <4> QED BY <4>1, <4>2
    <3> QED BY <1>1, <1>2, <3>1, <3>2
  <2>2. (last_bit_index + k) % BitmapSize = w
    BY <1>1, <2>1, ModIs
  <2> QED BY <1>8, <2>2
<1>10. ASSUME NEW b \in Bits PROVE b \in bitmap
  BY <1>9, WordIn DEF Cheia
<1> QED BY <1>1, <1>10 DEF Esgotada

-----------------------------------------------------------------------------
(* How a step changes the shares *)

LEMMA QuietShare ==
  ASSUME NEW l, Partilha(l), bitmap' = bitmap, esp'[l] = esp[l], vivos' = vivos,
         EmTransito(l)' = EmTransito(l)
  PROVE  Partilha(l)'
BY DEF Partilha, DosVivos

(* The frame on its way takes its place. *)
LEMMA PoeShare ==
  ASSUME NEW l, Chamadores = {l}, ElfTipos(l), Partilha(l), bitmap' = bitmap, vivos' = vivos,
         NEW n \in Tables \cup Names, NEW f \in Usable, Poe(l, n, f), esp[l][n] = None,
         EmTransito(l) = {f}, EmTransito(l)' = {}
  PROVE  Partilha(l)' /\ \A m \in Tables \cup Names : m # n => esp'[l][m] = esp[l][m]
<1>1. f \in Nat /\ f # None
  BY UsableIs
<1>2. PICK e, g : e = esp[l] /\ g = esp'[l]
  OBVIOUS
<1>3. e \in Espacos /\ g = [e EXCEPT ![n] = f]
  BY <1>1, <1>2, PoeIs
<1>4. f \notin Quadros(e) /\ Distintos(e) /\ e[n] = None
  BY <1>2 DEF Partilha
<1>5. g \in Espacos /\ Quadros(g) = Quadros(e) \cup {f} /\ Distintos(g)
  BY <1>1, <1>3, <1>4, QuadrosPoe
<1>6. DosVivos' = DosVivos
  BY DEF DosVivos
<1>7. Partilha(l)'
  BY <1>2, <1>5, <1>6 DEF Partilha
<1>8. \A m \in Tables \cup Names : m # n => g[m] = e[m]
  BY <1>3 DEF Espacos
<1> QED BY <1>2, <1>7, <1>8

(* A frame leaves its place, to be freed. *)
LEMMA TiraShare ==
  ASSUME NEW l, Chamadores = {l}, ElfTipos(l), Partilha(l), bitmap' = bitmap, vivos' = vivos,
         NEW n \in Tables \cup Names, Poe(l, n, None), esp[l][n] # None,
         EmTransito(l) = {}, EmTransito(l)' = {esp[l][n]}
  PROVE  /\ Partilha(l)' /\ esp'[l][n] = None
         /\ \A m \in Tables \cup Names : m # n => esp'[l][m] = esp[l][m]
<1>1. None \in Nat
  BY NamesAre
<1>2. PICK e, g : e = esp[l] /\ g = esp'[l]
  OBVIOUS
<1>3. e \in Espacos /\ g = [e EXCEPT ![n] = None]
  BY <1>1, <1>2, PoeIs
<1>4. Distintos(e) /\ e[n] # None
  BY <1>2 DEF Partilha
<1>5. g \in Espacos /\ Quadros(g) = Quadros(e) \ {e[n]} /\ Distintos(g) /\ e[n] \in Quadros(e)
  BY <1>3, <1>4, QuadrosTira
<1>6. DosVivos' = DosVivos
  BY DEF DosVivos
<1>7. Partilha(l)'
  BY <1>2, <1>5, <1>6 DEF Partilha
<1>8. g[n] = None /\ \A m \in Tables \cup Names : m # n => g[m] = e[m]
  BY <1>3 DEF Espacos
<1> QED BY <1>2, <1>7, <1>8

(* The space becomes a process's. *)
LEMMA CriaShare ==
  ASSUME NEW l, Chamadores = {l}, ElfTipos(l), Partilha(l), bitmap' = bitmap,
         NEW p, p.espaco = esp[l], p \in Processos, vivos' = Append(vivos, p), esp'[l] = Vazio,
         EmTransito(l) = {}, EmTransito(l)' = {}
  PROVE  Partilha(l)'
<1>1. vivos \in Seq(Processos)
  BY DEF ElfTipos
<1>2. /\ Len(vivos) \in Nat /\ DOMAIN vivos = 1..Len(vivos)
      /\ DOMAIN vivos' = 1..(Len(vivos) + 1)
      /\ \A k \in 1..Len(vivos) : vivos'[k] = vivos[k]
      /\ vivos'[Len(vivos) + 1] = p
  BY <1>1, AppendProperties, LenProperties
<1>3. PICK n \in Nat : n = Len(vivos)
  BY <1>2
<1>4. ASSUME NEW x \in DosVivos' PROVE x \in DosVivos \cup Quadros(p.espaco)
  <2>1. PICK k \in 1..(n + 1) : x \in Quadros(vivos'[k].espaco)
    BY <1>2, <1>3 DEF DosVivos, Quadros
  <2>2. CASE k = n + 1
    BY <1>2, <1>3, <2>1, <2>2
  <2>3. CASE k # n + 1
    <3>1. k \in 1..n /\ vivos'[k] = vivos[k]
      BY <1>2, <1>3, <2>3
    <3> QED BY <1>2, <1>3, <2>1, <3>1 DEF DosVivos
  <2> QED BY <2>2, <2>3
<1>5. ASSUME NEW x \in DosVivos PROVE x \in DosVivos'
  <2>1. PICK k \in 1..n : x \in Quadros(vivos[k].espaco)
    BY <1>2, <1>3 DEF DosVivos
  <2>2. k \in DOMAIN vivos' /\ vivos'[k] = vivos[k]
    BY <1>2, <1>3
  <2> QED BY <2>1, <2>2 DEF DosVivos, Quadros
<1>6. ASSUME NEW x \in Quadros(p.espaco) PROVE x \in DosVivos'
  <2>1. n + 1 \in DOMAIN vivos' /\ vivos'[n + 1] = p
    BY <1>2, <1>3
  <2> QED BY <2>1 DEF DosVivos, Quadros
<1>7. DosVivos' = DosVivos \cup Quadros(esp[l])
  BY <1>4, <1>5, <1>6
<1> QED BY <1>7, VazioIs DEF Partilha

(* pmm.c marks the frame it hands out, and clears the one it takes back. *)
LEMMA FramePmm ==
  ASSUME NEW l, Chamadores = {l}, HoleInv(l), ElfTipos(l), FrameInv(l), ~Esgotada, PmmStep(l),
         UNCHANGED <<pc, ip, esp, fila, vivos>>
  PROVE  FrameInv(l)'
<1>1. /\ op \in [Loaders -> Operacoes] /\ block_id \in [Loaders -> Nat] /\ l \in Loaders
      /\ Partilha(l) /\ BuscaInv(l)
  BY DEF HoleInv, PmmTipos, Loaders, FrameInv
<1>2. \A n \in Vagos(l)' : esp'[l][n] = None
  BY DEF FrameInv, Vagos
<1>3. op[l] \in {"busca", "le", "marca", "guarda"} => pc[l] \in Pedintes
  BY DEF ElfTipos
<1>4. op[l] \in {"le_livre", "limpa", "recua"} => pc[l] \notin Pedintes
  BY DEF ElfTipos, Pedintes
<1>5. CASE Busca(l)
  <2>1. op[l] = "busca" /\ op'[l] \in {"busca", "le", "fora"} /\ bitmap' = bitmap
    BY <1>1, <1>5 DEF Busca
  <2>2. op'[l] # "fora"
    BY <1>5, SearchEnds
  <2>3. EmTransito(l) = {} /\ EmTransito(l)' = {}
    BY <2>1, <2>2 DEF EmTransito
  <2>4. Partilha(l)'
    BY <1>1, <2>1, <2>3, QuietShare
  <2> QED BY <1>2, <2>2, <2>4 DEF FrameInv
<1>6. CASE Le(l)
  <2>1. op[l] = "le" /\ op'[l] = "marca" /\ bitmap' = bitmap
    BY <1>1, <1>6 DEF Le
  <2>2. EmTransito(l) = {} /\ EmTransito(l)' = {}
    BY <2>1 DEF EmTransito
  <2>3. Partilha(l)'
    BY <1>1, <2>1, <2>2, QuietShare
  <2> QED BY <1>2, <2>1, <2>3 DEF FrameInv
<1>7. CASE MarcaBloco(l)
  <2>1. op[l] = "marca" /\ op'[l] = "guarda" /\ block_id' = block_id
    BY <1>1, <1>7 DEF MarcaBloco
  <2>2. bitmap' = bitmap \cup {block_id[l]}
    BY <1>7, MarcaHole
  <2>3. EmTransito(l) = {} /\ EmTransito(l)' = {block_id[l]}
    BY <2>1 DEF EmTransito
  <2>4. block_id[l] \in Bits /\ block_id[l] \notin bitmap
    BY <1>1, <2>1 DEF BuscaInv
  <2>5. block_id[l] \in Usable
    BY <1>1, <2>4, UsableIs DEF Partilha
  <2>6. DosVivos' = DosVivos
    BY DEF DosVivos
  <2>7. Partilha(l)'
    BY <1>1, <2>2, <2>3, <2>4, <2>5, <2>6 DEF Partilha
  <2> QED BY <1>2, <2>1, <2>7 DEF FrameInv
<1>8. CASE Guarda(l)
  <2>1. op[l] = "guarda" /\ op'[l] = "fora" /\ UNCHANGED <<bitmap, block_id>> /\ pc[l] \in Pedintes
    BY <1>1, <1>3, <1>8 DEF Guarda
  <2>2. EmTransito(l) = {block_id[l]}
    BY <2>1 DEF EmTransito
  <2>3. block_id[l] \in Usable
    BY <1>1, <2>2 DEF Partilha
  <2>4. EmTransito(l)' = {block_id[l]}
    BY <2>1, <2>3, UsableIs DEF EmTransito, Pedintes
  <2>5. Partilha(l)'
    BY <1>1, <2>1, <2>2, <2>4, QuietShare
  <2> QED BY <1>2, <2>1, <2>3, <2>5 DEF FrameInv
<1>9. CASE LeLivre(l)
  <2>1. op[l] = "le_livre" /\ op'[l] = "limpa" /\ UNCHANGED <<bitmap, block_id>>
    BY <1>1, <1>9 DEF LeLivre
  <2>2. EmTransito(l) = {block_id[l]} /\ EmTransito(l)' = {block_id[l]}
    BY <2>1 DEF EmTransito
  <2>3. Partilha(l)'
    BY <1>1, <2>1, <2>2, QuietShare
  <2> QED BY <1>2, <2>1, <2>3 DEF FrameInv
<1>10. CASE LimpaBloco(l)
  <2>1. op[l] = "limpa" /\ op'[l] = "recua" /\ block_id' = block_id
    BY <1>1, <1>10 DEF LimpaBloco
  <2>2. bitmap' = bitmap \ {block_id[l]}
    BY <1>10, LimpaHole
  <2>3. EmTransito(l) = {block_id[l]} /\ EmTransito(l)' = {}
    BY <2>1 DEF EmTransito
  <2>4. DosVivos' = DosVivos
    BY DEF DosVivos
  <2>5. Partilha(l)'
    BY <1>1, <2>2, <2>3, <2>4, UsableIs DEF Partilha
  <2> QED BY <1>2, <2>1, <2>5 DEF FrameInv
<1>11. CASE Recua(l)
  <2>1. op[l] = "recua" /\ op'[l] = "fora" /\ bitmap' = bitmap /\ pc[l] \notin Pedintes
    BY <1>1, <1>4, <1>11 DEF Recua
  <2>2. EmTransito(l) = {} /\ EmTransito(l)' = {}
    BY <2>1 DEF EmTransito, Pedintes
  <2>3. Partilha(l)'
    BY <1>1, <2>1, <2>2, QuietShare
  <2> QED BY <1>2, <2>1, <2>3 DEF FrameInv
<1> QED BY <1>5, <1>6, <1>7, <1>8, <1>9, <1>10, <1>11 DEF PmmStep

-----------------------------------------------------------------------------
(* The invariant at a step outside pmm.c *)

(* A loader that asks for a frame, or is past asking, carries none. *)
LEMMA NothingCarried ==
  ASSUME NEW l, Chamadores = {l}, HoleInv(l), ElfTipos(l), NEW x \in Labels, Goto(l, x),
         op'[l] = "busca" \/ (op'[l] = "fora" /\ x \notin Pedintes)
  PROVE  /\ EmTransito(l)' = {} /\ pc'[l] = x
         /\ ~(op'[l] = "fora" /\ pc'[l] \in Pedintes)
<1>1. pc'[l] = x
  BY DEF Goto, ElfTipos, Loaders
<1> QED BY <1>1 DEF EmTransito, Pedintes

(* What a loader that got its frame carries. *)
LEMMA FrameCarried ==
  ASSUME NEW l, FrameInv(l), op[l] = "fora", pc[l] \in Pedintes
  PROVE  /\ Devolvido(l) = block_id[l] /\ block_id[l] \in Usable /\ block_id[l] # 0
         /\ EmTransito(l) = {block_id[l]} /\ Partilha(l)
<1>1. block_id[l] \in Usable /\ block_id[l] # 0
  BY UsableIs DEF FrameInv
<1> QED BY <1>1 DEF EmTransito, Pedintes, FrameInv, Devolvido

(* A loader in any other place carries none. *)
LEMMA FrameNone ==
  ASSUME NEW l, FrameInv(l), op[l] = "fora", pc[l] \notin Pedintes
  PROVE  EmTransito(l) = {} /\ Partilha(l)
BY DEF EmTransito, Pedintes, FrameInv

(* A step that changes no frame's place. *)
LEMMA FrameQuiet ==
  ASSUME NEW l, Chamadores = {l}, HoleInv(l), ElfTipos(l), FrameInv(l), op[l] = "fora", pc[l] \notin Pedintes,
         NEW x \in Labels, Goto(l, x), op'[l] = "busca" \/ (op'[l] = "fora" /\ x \notin Pedintes),
         bitmap' = bitmap, vivos' = vivos, esp' = esp,
         \A n \in Vagos(l)' : esp[l][n] = None
  PROVE  FrameInv(l)'
<1>1. Partilha(l)'
  BY FrameNone, NothingCarried, QuietShare
<1> QED BY <1>1, NothingCarried DEF FrameInv

(* A step that puts the loader's frame in its place. *)
LEMMA FramePut ==
  ASSUME NEW l, Chamadores = {l}, HoleInv(l), ElfTipos(l), FrameInv(l), op[l] = "fora", pc[l] \in Pedintes,
         NEW x \in Labels, Goto(l, x), op'[l] = "busca" \/ (op'[l] = "fora" /\ x \notin Pedintes),
         bitmap' = bitmap, vivos' = vivos,
         NEW n \in Tables \cup Names, esp[l][n] = None, Poe(l, n, Devolvido(l)),
         Vagos(l)' \subseteq Tables \cup Names, n \notin Vagos(l)',
         \A m \in Vagos(l)' : esp[l][m] = None
  PROVE  FrameInv(l)'
<1>1. PICK f \in Usable : f = Devolvido(l) /\ EmTransito(l) = {f}
  BY FrameCarried
<1>2. Partilha(l) /\ EmTransito(l)' = {} /\ Poe(l, n, f)
  BY <1>1, FrameCarried, NothingCarried
<1>3. Partilha(l)' /\ \A m \in Tables \cup Names : m # n => esp'[l][m] = esp[l][m]
  BY <1>1, <1>2, PoeShare
<1>4. \A m \in Vagos(l)' : esp'[l][m] = None
  BY <1>3
<1> QED BY <1>3, <1>4, NothingCarried DEF FrameInv

LEMMA FrameTables ==
  ASSUME NEW l, Chamadores = {l}, HoleInv(l), ElfTipos(l), FrameInv(l),
         Comeca(l) \/ TemPml4(l) \/ TemPdpt(l) \/ TemPd(l)
  PROVE  FrameInv(l)'
<1>1. op[l] = "fora" /\ vivos' = vivos
  BY DEF Comeca, TemPml4, TemPdpt, TemPd, At
<1>2. {"pml4", "pdpt", "pd", "cabecalho"} \subseteq Labels /\ Names \cap Tables = {}
      /\ {"pml4", "pdpt", "pd"} \subseteq Tables
  BY NamesAssumption DEF Labels, Tables
<1>3. CASE Comeca(l)
  <2>1. pc[l] = "espera" /\ Pede(l, "pml4") /\ esp' = esp
    BY <1>3 DEF Comeca, At
  <2>2. Goto(l, "pml4") /\ op'[l] = "busca" /\ bitmap' = bitmap
    BY <1>1, <2>1, PedeIs
  <2>3. pc'[l] = "pml4"
    BY <1>2, <2>2, NothingCarried
  <2>4. \A n \in Vagos(l)' : esp[l][n] = None
    BY <2>1, <2>3 DEF Vagos, FrameInv
  <2> QED BY <1>1, <1>2, <2>1, <2>2, <2>4, FrameQuiet DEF Pedintes
<1>4. CASE TemPml4(l)
  <2>1. pc[l] = "pml4" /\ pc[l] \in Pedintes
    BY <1>4 DEF TemPml4, At, Pedintes
  <2>2. Poe(l, "pml4", Devolvido(l)) /\ Pede(l, "pdpt")
    BY <1>1, <1>4, <2>1, FrameCarried DEF TemPml4
  <2>3. Goto(l, "pdpt") /\ op'[l] = "busca" /\ bitmap' = bitmap
    BY <1>1, <2>2, PedeIs
  <2>4. pc'[l] = "pdpt"
    BY <1>2, <2>3, NothingCarried
  <2>5. /\ Vagos(l)' \subseteq Tables \cup Names /\ "pml4" \notin Vagos(l)'
        /\ esp[l]["pml4"] = None /\ \A m \in Vagos(l)' : esp[l][m] = None
    BY <1>2, <2>1, <2>4 DEF Vagos, FrameInv
  <2> QED BY <1>1, <1>2, <2>1, <2>2, <2>3, <2>5, FramePut
<1>5. CASE TemPdpt(l)
  <2>1. pc[l] = "pdpt" /\ pc[l] \in Pedintes
    BY <1>5 DEF TemPdpt, At, Pedintes
  <2>2. Poe(l, "pdpt", Devolvido(l)) /\ Pede(l, "pd")
    BY <1>5 DEF TemPdpt
  <2>3. Goto(l, "pd") /\ op'[l] = "busca" /\ bitmap' = bitmap
    BY <1>1, <2>2, PedeIs
  <2>4. pc'[l] = "pd"
    BY <1>2, <2>3, NothingCarried
  <2>5. /\ Vagos(l)' \subseteq Tables \cup Names /\ "pdpt" \notin Vagos(l)'
        /\ esp[l]["pdpt"] = None /\ \A m \in Vagos(l)' : esp[l][m] = None
    BY <1>2, <2>1, <2>4 DEF Vagos, FrameInv
  <2> QED BY <1>1, <1>2, <2>1, <2>2, <2>3, <2>5, FramePut
<1>6. CASE TemPd(l)
  <2>1. pc[l] = "pd" /\ pc[l] \in Pedintes
    BY <1>6 DEF TemPd, At, Pedintes
  <2>2. Poe(l, "pd", Devolvido(l)) /\ Goto(l, "cabecalho") /\ UNCHANGED pmmVars
    BY <1>6 DEF TemPd
  <2>3. op'[l] = "fora" /\ bitmap' = bitmap
    BY <1>1, <2>2, FicaIs
  <2>4. pc'[l] = "cabecalho"
    BY <1>2, <2>2, <2>3, NothingCarried DEF Pedintes
  <2>5. /\ Vagos(l)' \subseteq Tables \cup Names /\ "pd" \notin Vagos(l)'
        /\ esp[l]["pd"] = None /\ \A m \in Vagos(l)' : esp[l][m] = None
    BY <1>2, <2>1, <2>4 DEF Vagos, FrameInv
  <2> QED BY <1>1, <1>2, <2>1, <2>2, <2>3, <2>5, FramePut DEF Pedintes
<1> QED BY <1>3, <1>4, <1>5, <1>6

(* The headers are read, or the space is to be taken apart. *)
LEMMA FrameHeader ==
  ASSUME NEW l, Chamadores = {l}, HoleInv(l), ElfTipos(l), FrameInv(l), Cabecalho(l) \/ SemEntrada(l)
  PROVE  FrameInv(l)'
<1>1. /\ op[l] = "fora" /\ vivos' = vivos /\ esp' = esp /\ pc[l] \in {"cabecalho", "fim"}
      /\ pc[l] \notin Pedintes
  BY DEF Cabecalho, SemEntrada, At, Pedintes
<1>2. {"pagina", "desfaz"} \subseteq Labels /\ "desfaz" \notin Pedintes
  BY DEF Labels, Pedintes
<1>3. CASE Cabecalho(l) /\ Pede(l, "pagina")
  <2>1. pc[l] = "cabecalho" /\ ip' = [ip EXCEPT ![l] = 1]
    BY <1>3 DEF Cabecalho, At
  <2>2. Goto(l, "pagina") /\ op'[l] = "busca" /\ bitmap' = bitmap
    BY <1>1, <1>3, PedeIs
  <2>3. pc'[l] = "pagina" /\ ip'[l] = 1
    BY <1>2, <2>1, <2>2, NothingCarried, TypesNow
  <2>4. Vagos(l)' \subseteq Names
    BY <2>3, NamesAre DEF Vagos
  <2>5. \A n \in Names : esp[l][n] = None
    BY <2>1 DEF Vagos, FrameInv
  <2> QED BY <1>1, <1>2, <2>2, <2>4, <2>5, FrameQuiet
<1>4. CASE Goto(l, "desfaz") /\ fila' = [fila EXCEPT ![l] = OrdemDeSoltura] /\ UNCHANGED pmmVars
  <2>1. op'[l] = "fora" /\ bitmap' = bitmap
    BY <1>1, <1>4, FicaIs
  <2>2. pc'[l] = "desfaz" /\ fila'[l] = OrdemDeSoltura
    BY <1>2, <1>4, <2>1, NothingCarried, TypesNow
  <2>3. Vagos(l)' = {}
    BY <2>2, OrdemIs DEF Vagos
  <2> QED BY <1>1, <1>2, <1>4, <2>1, <2>3, FrameQuiet
<1> QED BY <1>3, <1>4 DEF Cabecalho, SemEntrada

(* While the program is copied every frame stays where it is. *)
LEMMA FrameCopies ==
  ASSUME NEW l, Chamadores = {l}, HoleInv(l), ElfTipos(l), FrameInv(l),
         Cli(l) \/ Buffer(l) \/ Troca(l) \/ CopiaParte(l) \/ Volta(l)
  PROVE  FrameInv(l)'
<1>1. /\ op[l] = "fora" /\ UNCHANGED <<esp, vivos>> /\ UNCHANGED pmmVars /\ pc[l] \notin Pedintes
  BY DEF Cli, Buffer, Troca, CopiaParte, Volta, At, Pedintes
<1>2. op'[l] = "fora" /\ bitmap' = bitmap
  BY <1>1, FicaIs
<1>3. PICK x \in {"buffer", "troca", "copia", "volta", "fim"} : Goto(l, x)
  <2>1. Cli(l) => Goto(l, "buffer")
    BY DEF Cli
  <2>2. Buffer(l) => Goto(l, "troca")
    BY DEF Buffer
  <2>3. Troca(l) => Goto(l, "copia")
    BY DEF Troca
  <2>4. CopiaParte(l) => Goto(l, "volta") \/ Goto(l, "copia")
    BY DEF CopiaParte
  <2>5. Volta(l) => Goto(l, "fim") \/ Goto(l, "troca")
    BY DEF Volta
  <2> QED BY <2>1, <2>2, <2>3, <2>4, <2>5
<1>4. x \in Labels /\ x \notin Pedintes
  BY DEF Labels, Pedintes
<1>5. pc'[l] = x
  BY <1>2, <1>3, <1>4, NothingCarried
<1>6. Vagos(l)' = {}
  BY <1>3, <1>5 DEF Vagos
<1> QED BY <1>1, <1>2, <1>3, <1>4, <1>6, FrameQuiet

(* The places that are vacant when the loader is at page k. *)
LEMMA VacantPages ==
  ASSUME NEW k \in 1..Len(TodasPaginas), NEW V, V = {TodasPaginas[j] : j \in (k + 1)..Len(TodasPaginas)}
  PROVE  /\ V \subseteq Names /\ TodasPaginas[k] \notin V /\ TodasPaginas[k] \in Names
         /\ {TodasPaginas[j] : j \in k..Len(TodasPaginas)} = V \cup {TodasPaginas[k]}
<1>1. Len(TodasPaginas) \in Nat /\ DOMAIN TodasPaginas = 1..Len(TodasPaginas)
  BY PagesAre, LenProperties
<1>2. PICK len \in Nat : len = Len(TodasPaginas)
  BY <1>1
<1>3. V \subseteq Names /\ TodasPaginas[k] \in Names
  <2>1. \A j \in (k + 1)..len : j \in 1..len
    BY <1>2
  <2> QED BY <1>2, <2>1, NamesAre
<1>4. TodasPaginas[k] \notin V
  <2> SUFFICES ASSUME NEW j \in (k + 1)..len, TodasPaginas[j] = TodasPaginas[k] PROVE FALSE
    BY <1>2
  <2>1. j \in 1..len /\ j # k
    BY <1>2
  <2> QED BY <1>1, <1>2, <2>1, NamesAssumption
<1>5. {TodasPaginas[j] : j \in k..Len(TodasPaginas)} = V \cup {TodasPaginas[k]}
  <2>1. \A j : j \in k..len <=> j \in (k + 1)..len \/ j = k
    BY <1>2
  <2> QED BY <1>2, <2>1
<1> QED BY <1>3, <1>4, <1>5

LEMMA FramePages ==
  ASSUME NEW l, Chamadores = {l}, HoleInv(l), ElfTipos(l), FrameInv(l), TemPagina(l) \/ TemTabela(l)
  PROVE  FrameInv(l)'
<1>1. op[l] = "fora" /\ vivos' = vivos /\ pc[l] \in {"pagina", "tabela"} /\ pc[l] \in Pedintes
  BY DEF TemPagina, TemTabela, At, Pedintes
<1>2. {"pagina", "cli", "tabela"} \subseteq Labels /\ "cli" \notin Pedintes /\ Names \cap Tables = {}
  BY NamesAssumption DEF Labels, Pedintes
<1>3. PICK k \in 1..Len(TodasPaginas), t \in Tables : k = ip[l] /\ t = TableOf(ip[l])
  BY TypesNow
<1>4. PICK V : V = {TodasPaginas[j] : j \in (k + 1)..Len(TodasPaginas)}
  OBVIOUS
<1>5. V \subseteq Names /\ TodasPaginas[k] \notin V /\ TodasPaginas[k] \in Names
  BY <1>4, VacantPages
<1>6. \A n \in V : esp[l][n] = None
  <2>1. CASE pc[l] = "pagina"
    <3>1. Vagos(l) = {TodasPaginas[j] : j \in k..Len(TodasPaginas)}
      BY <1>3, <2>1 DEF Vagos
    <3>2. V \subseteq Vagos(l)
      BY <1>4, <3>1, VacantPages
    <3> QED BY <3>2 DEF FrameInv
  <2>2. CASE pc[l] = "tabela"
    <3>1. V \subseteq Vagos(l)
      BY <1>3, <1>4, <2>2 DEF Vagos
    <3> QED BY <3>1 DEF FrameInv
  <2> QED BY <1>1, <2>1, <2>2
<1>7. ASSUME ProximaPagina(l)
      PROVE  \E x \in {"pagina", "cli"} :
               /\ Goto(l, x) /\ bitmap' = bitmap /\ Vagos(l)' \subseteq V
               /\ op'[l] = "busca" \/ (op'[l] = "fora" /\ x \notin Pedintes)
  <2>1. CASE Goto(l, "pagina") /\ op'[l] = "busca" /\ ip'[l] = ip[l] + 1
    <3>1. pc'[l] = "pagina" /\ ip'[l] = k + 1
      BY <1>2, <1>3, <2>1, NothingCarried
    <3>2. Vagos(l)' = V
      BY <1>4, <3>1 DEF Vagos
    <3> QED BY <1>1, <1>7, <2>1, <3>2, ProximaIs
  <2>2. CASE Goto(l, "cli") /\ op'[l] = "fora"
    <3>1. pc'[l] = "cli"
      BY <1>2, <2>2, NothingCarried
    <3>2. Vagos(l)' = {}
      BY <3>1 DEF Vagos
    <3> QED BY <1>1, <1>2, <1>7, <2>2, <3>2, ProximaIs
  <2> QED BY <1>1, <1>7, <2>1, <2>2, ProximaIs
<1>8. CASE TemPagina(l)
  <2>1. pc[l] = "pagina" /\ Poe(l, TodasPaginas[k], Devolvido(l))
    BY <1>3, <1>8 DEF TemPagina, At
  <2>2. esp[l][TodasPaginas[k]] = None
    <3>1. Vagos(l) = {TodasPaginas[j] : j \in k..Len(TodasPaginas)}
      BY <1>3, <2>1 DEF Vagos
    <3>2. TodasPaginas[k] \in Vagos(l)
      BY <1>4, <3>1, VacantPages
    <3> QED BY <3>2 DEF FrameInv
  <2>3. PICK n \in Tables \cup Names : n = TodasPaginas[k]
    BY <1>5
  <2>4. CASE ProximaPagina(l)
    <3>1. PICK x \in {"pagina", "cli"} :
               /\ Goto(l, x) /\ bitmap' = bitmap /\ Vagos(l)' \subseteq V
               /\ op'[l] = "busca" \/ (op'[l] = "fora" /\ x \notin Pedintes)
      BY <1>7, <2>4
    <3>2. Vagos(l)' \subseteq Tables \cup Names /\ n \notin Vagos(l)' /\ \A m \in Vagos(l)' : esp[l][m] = None
      BY <1>5, <1>6, <2>3, <3>1
    <3> QED BY <1>1, <1>2, <2>1, <2>2, <2>3, <3>1, <3>2, FramePut
  <2>5. CASE esp[l][t] = None /\ Pede(l, "tabela") /\ UNCHANGED ip
    <3>1. Goto(l, "tabela") /\ op'[l] = "busca" /\ bitmap' = bitmap
      BY <1>1, <2>5, PedeIs
    <3>2. pc'[l] = "tabela" /\ ip'[l] = k
      BY <1>2, <1>3, <2>5, <3>1, NothingCarried
    <3>3. TableOf(k) = t
      BY <1>3
    <3>4. Vagos(l)' = V \cup {t}
      BY <1>4, <3>2, <3>3 DEF Vagos
    <3>5. Vagos(l)' \subseteq Tables \cup Names /\ n \notin Vagos(l)' /\ \A m \in Vagos(l)' : esp[l][m] = None
      BY <1>2, <1>5, <1>6, <2>3, <2>5, <3>4
    <3> QED BY <1>1, <1>2, <2>1, <2>2, <2>3, <3>1, <3>5, FramePut
  <2> QED BY <1>3, <1>8, <2>4, <2>5 DEF TemPagina
<1>9. CASE TemTabela(l)
  <2>1. pc[l] = "tabela" /\ Devolvido(l) # 0
    BY <1>1, <1>9, FrameCarried DEF TemTabela, At
  <2>2. Poe(l, t, Devolvido(l)) /\ ProximaPagina(l)
    BY <1>3, <1>9, <2>1 DEF TemTabela
  <2>3. esp[l][t] = None
    <3>1. t \in Vagos(l)
      BY <1>3, <2>1 DEF Vagos
    <3> QED BY <3>1 DEF FrameInv
  <2>4. PICK x \in {"pagina", "cli"} :
               /\ Goto(l, x) /\ bitmap' = bitmap /\ Vagos(l)' \subseteq V
               /\ op'[l] = "busca" \/ (op'[l] = "fora" /\ x \notin Pedintes)
    BY <1>7, <2>2
  <2>5. PICK n \in Tables \cup Names : n = t
    OBVIOUS
  <2>6. Vagos(l)' \subseteq Tables \cup Names /\ n \notin Vagos(l)' /\ \A m \in Vagos(l)' : esp[l][m] = None
    BY <1>2, <1>5, <1>6, <2>4, <2>5
  <2> QED BY <1>1, <1>2, <2>2, <2>3, <2>4, <2>5, <2>6, FramePut
<1> QED BY <1>8, <1>9

(* The process is created, or the space is taken apart. *)
LEMMA FrameEnd ==
  ASSUME NEW l, Chamadores = {l}, HoleInv(l), ElfTipos(l), FrameInv(l), ~Esgotada,
         CriaProcesso(l) \/ Desfaz(l) \/ Desfeito(l)
  PROVE  FrameInv(l)'
<1>1. op[l] = "fora" /\ pc[l] \in {"fim", "desfaz"} /\ pc[l] \notin Pedintes
  BY DEF CriaProcesso, Desfaz, Desfeito, At, Pedintes
<1>2. {"espera", "desfaz"} \subseteq Labels /\ "espera" \notin Pedintes /\ "desfaz" \notin Pedintes
  BY DEF Labels, Pedintes
<1>3. EmTransito(l) = {} /\ Partilha(l)
  BY <1>1, FrameNone
<1>4. CASE CriaProcesso(l) \/ Desfeito(l)
  <2>1. UNCHANGED pmmVars /\ Limpo(l)
    BY <1>4 DEF CriaProcesso, Desfeito
  <2>2. esp'[l] = Vazio /\ Goto(l, "espera") /\ op'[l] = "fora" /\ bitmap' = bitmap
    BY <1>1, <2>1, LimpoIs, FicaIs
  <2>3. EmTransito(l)' = {} /\ pc'[l] = "espera"
    BY <1>2, <2>2, NothingCarried
  <2>4. \A n \in Vagos(l)' : esp'[l][n] = None
    BY <2>2, <2>3, VazioIs DEF Vagos
  <2>5. CASE CriaProcesso(l)
    <3>1. PICK p : p = [espaco |-> esp[l], dados |-> dados[l]]
      OBVIOUS
    <3>2. p.espaco = esp[l] /\ p \in Processos
      BY <3>1, TypesNow DEF Processos
    <3>3. vivos' = Append(vivos, p)
      BY <2>5, <3>1 DEF CriaProcesso
    <3>4. Partilha(l)'
      BY <1>3, <2>2, <2>3, <3>2, <3>3, CriaShare
    <3> QED BY <1>2, <2>3, <2>4, <3>4 DEF FrameInv
  <2>6. CASE Desfeito(l)
    <3>1. pc[l] = "desfaz" /\ fila[l] = <<>> /\ vivos' = vivos
      BY <2>6 DEF Desfeito, At
    <3>2. Elementos(fila[l]) = {}
      BY <3>1 DEF Elementos
    <3>3. \A n \in Tables \cup Names : esp[l][n] = None
      BY <3>1, <3>2 DEF Vagos, FrameInv
    <3>4. Quadros(esp[l]) = {}
      BY <3>3, TypesNow, QuadrosIs
    <3>5. DosVivos' = DosVivos
      BY <3>1 DEF DosVivos
    <3>6. Partilha(l)'
      BY <1>3, <2>2, <2>3, <3>4, <3>5, VazioIs DEF Partilha
    <3> QED BY <1>2, <2>3, <2>4, <3>6 DEF FrameInv
  <2> QED BY <1>4, <2>5, <2>6
<1>5. CASE Desfaz(l)
  <2>1. /\ pc[l] = "desfaz" /\ fila[l] # <<>> /\ fila' = [fila EXCEPT ![l] = Tail(fila[l])]
        /\ UNCHANGED <<pc, vivos>>
    BY <1>5 DEF Desfaz, At
  <2>2. PICK n : n = Head(fila[l])
    OBVIOUS
  <2>3. /\ n \in Tables \cup Names
        /\ Elementos(fila[l]) = {n} \cup Elementos(Tail(fila[l]))
        /\ fila'[l] = Tail(fila[l])
    BY <2>1, <2>2, ElementosHead, TypesNow DEF ElfTipos
  <2>4. /\ Vagos(l) = (Tables \cup Names) \ Elementos(fila[l])
        /\ Vagos(l)' = (Tables \cup Names) \ Elementos(fila'[l])
    BY <2>1 DEF Vagos
  <2>5. \A m \in Vagos(l)' : m # n => esp[l][m] = None
    BY <2>3, <2>4 DEF FrameInv
  <2>6. CASE Pula(l, n)
    <3>1. UNCHANGED pmmVars /\ esp' = esp
      BY <1>5, <2>2, <2>6 DEF Desfaz
    <3>2. op'[l] = "fora" /\ bitmap' = bitmap /\ pc'[l] = "desfaz"
      BY <1>1, <2>1, <3>1, FicaIs
    <3>3. EmTransito(l)' = {}
      BY <3>2 DEF EmTransito
    <3>4. esp[l][n] = None
      <4>1. SUFFICES ASSUME esp[l][n] = 0, esp[l][n] # None PROVE FALSE
        BY <2>6 DEF Pula
      <4>2. 0 \in Quadros(esp[l])
        BY <2>3, <4>1, TypesNow, QuadrosIs
      <4> QED BY <1>3, <4>2, UsableIs DEF Partilha
    <3>5. \A m \in Vagos(l)' : esp'[l][m] = None
      BY <2>5, <3>1, <3>4
    <3>6. Partilha(l)'
      BY <1>3, <2>1, <3>1, <3>2, <3>3, QuietShare
    <3> QED BY <1>2, <3>2, <3>5, <3>6 DEF FrameInv
  <2>7. CASE ~Pula(l, n)
    <3>1. PICK b : b = esp[l][n]
      OBVIOUS
    <3>2. b # None /\ b \in Quadros(esp[l])
      BY <2>3, <2>7, <3>1, TypesNow, QuadrosIs DEF Pula
    <3>3. b \in Usable /\ b < TotalBlocks
      BY <1>3, <3>2, UsableIs DEF Partilha
    <3>4. SoltaBloco(l, b) /\ Poe(l, n, None) /\ bitmap' = bitmap
      BY <1>5, <2>2, <2>7, <3>1 DEF Desfaz
    <3>5. /\ op' = [op EXCEPT ![l] = IF b >= TotalBlocks THEN "fora" ELSE "le_livre"]
          /\ block_id' = [block_id EXCEPT ![l] = b]
          /\ l \in DOMAIN op /\ l \in DOMAIN block_id
      BY <3>4 DEF SoltaBloco, HoleInv, PmmTipos, Loaders
    <3>6. op'[l] = "le_livre" /\ block_id'[l] = b
      <4>1. ~(b >= TotalBlocks)
        BY <3>3, SizeIs, UsableIs
      <4> QED BY <3>5, <4>1
    <3>7. EmTransito(l)' = {b}
      BY <3>6 DEF EmTransito
    <3>8. /\ Partilha(l)' /\ esp'[l][n] = None
          /\ \A m \in Tables \cup Names : m # n => esp'[l][m] = esp[l][m]
      BY <1>3, <2>1, <2>3, <3>1, <3>2, <3>4, <3>7, TiraShare
    <3>9. \A m \in Vagos(l)' : esp'[l][m] = None
      BY <2>4, <2>5, <3>8
    <3> QED BY <3>6, <3>8, <3>9 DEF FrameInv
  <2> QED BY <2>6, <2>7
<1> QED BY <1>4, <1>5

LEMMA FrameStep ==
  ASSUME NEW l, Chamadores = {l}, HoleInv(l), ElfTipos(l), FrameInv(l), ~Esgotada, [Next]_vars
  PROVE  FrameInv(l)'
<1>1. CASE Aloca1(l)
  <2>1. PmmStep(l) /\ UNCHANGED <<pc, ip, esp, fila, vivos>>
    BY <1>1 DEF Aloca1, elfLocals
  <2> QED BY <2>1, FramePmm
<1>2. CASE \/ Comeca(l) \/ TemPml4(l) \/ TemPdpt(l) \/ TemPd(l) \/ Cabecalho(l) \/ TemPagina(l) \/ TemTabela(l)
           \/ Cli(l) \/ Buffer(l) \/ Troca(l) \/ CopiaParte(l) \/ Volta(l)
           \/ SemEntrada(l) \/ CriaProcesso(l) \/ Desfaz(l) \/ Desfeito(l)
  BY <1>2, FrameTables, FrameHeader, FramePages, FrameCopies, FrameEnd
<1>3. CASE Tick \/ UNCHANGED vars
  <2>1. UNCHANGED pmmVars /\ UNCHANGED <<pc, ip, esp, fila, vivos>>
    BY <1>3 DEF Tick, vars, elfLocals
  <2>2. UNCHANGED <<bitmap, op, block_id>>
    BY <2>1 DEF pmmVars
  <2>3. EmTransito(l)' = EmTransito(l) /\ Vagos(l)' = Vagos(l)
    BY <2>1, <2>2 DEF EmTransito, Vagos
  <2>4. Partilha(l)'
    BY <2>1, <2>2, <2>3, QuietShare DEF FrameInv
  <2> QED BY <2>1, <2>2, <2>3, <2>4 DEF FrameInv
<1> QED BY <1>1, <1>2, <1>3 DEF Next, Step, Loaders

(* While memory lasts, and a single task loads programs, the frames in use are exactly *)
(* those of the processes created and of the load under way: however a load fails, it  *)
(* gives everything back (elf.c:14-62).                                                *)
THEOREM LoadsAreAllOrNothing == (\E l : Chamadores = {l}) => (Spec /\ []~Esgotada => []AllOrNothing)
<1> SUFFICES ASSUME NEW l, Chamadores = {l} PROVE Spec /\ []~Esgotada => []AllOrNothing
  OBVIOUS
<1> DEFINE IInv == HoleInv(l) /\ ElfTipos(l) /\ FrameInv(l)
<1>1. Init => IInv
  BY ElfInit, FrameInit
<1>2. IInv /\ ~Esgotada /\ [Next]_vars => IInv'
  BY ElfStep, FrameStep
<1>3. IInv => AllOrNothing
  BY ShareAll
<1> QED BY <1>1, <1>2, <1>3, PTL DEF Spec
=============================================================================
