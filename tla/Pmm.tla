-------------------------------- MODULE Pmm --------------------------------
(***************************************************************************)
(* The physical memory manager, mem/pmm.c: one bit per 4 KB frame, a       *)
(* circular search that starts at the word it last stopped at.             *)
(*                                                                         *)
(* Kernel tasks call it with interrupts enabled, so each access to the     *)
(* bitmap and to last_bit_index is a step of its own; `|=' and `&=' are a  *)
(* load and a store in the unoptimised build.  A module that uses this one *)
(* calls Aloca or SoltaBloco and goes on when the caller is at "fora" again.    *)
(***************************************************************************)
EXTENDS Naturals, FiniteSets

CONSTANTS
  Chamadores,   \* the tasks that call the allocator
  TotalBlocks,  \* total_blocks: frames of physical memory
  WordBits,     \* the 32 bits of a word of the bitmap
  Usable        \* the frames detect_memory_from_e820 frees

ASSUME MemoryAssumption == TotalBlocks \in Nat \ {0} /\ WordBits \in Nat \ {0}
ASSUME UsableAssumption == Usable \subseteq 1..(TotalBlocks - 1)

VARIABLES
  bitmap,          \* the frames whose bit is 1
  last_bit_index,
  op,              \* where each caller is inside pmm.c
  i,               \* loop counter of the search
  block_id,        \* the frame being given out or taken back
  visto            \* the word a caller has loaded and not yet stored

pmmLocals == <<op, i, block_id, visto>>
pmmVars   == <<bitmap, last_bit_index, op, i, block_id, visto>>

BitmapSize == (TotalBlocks + WordBits - 1) \div WordBits
Bits       == 0..(BitmapSize * WordBits - 1)
WordOf(b)  == b \div WordBits
Word(w)    == {b \in Bits : WordOf(b) = w}
Reserved   == Bits \ Usable

(* pmm_init marks every frame; detect_memory_from_e820 frees the usable ones,
   which leaves last_bit_index at 0. *)
PmmInit ==
  /\ bitmap = Reserved
  /\ last_bit_index = 0
  /\ op = [c \in Chamadores |-> "fora"]
  /\ i = [c \in Chamadores |-> 0]
  /\ block_id = [c \in Chamadores |-> 0]
  /\ visto = [c \in Chamadores |-> {}]

(* Entering pmm_alloc_block and pmm_free_block. *)
Aloca(c) ==
  /\ op' = [op EXCEPT ![c] = "busca"]
  /\ i' = [i EXCEPT ![c] = 0]
  /\ UNCHANGED <<block_id, visto>>

SoltaBloco(c, b) ==
  /\ op' = [op EXCEPT ![c] = IF b >= TotalBlocks THEN "fora" ELSE "le_livre"]
  /\ block_id' = [block_id EXCEPT ![c] = b]
  /\ UNCHANGED <<i, visto>>

(* What pmm_alloc_block returned: frame 0 is NULL. *)
Devolvido(c) == block_id[c]

-----------------------------------------------------------------------------
(* pmm_alloc_block *)

(* bsf finds the lowest clear bit of the word. *)
LowestClear(w, b) == b \in Word(w) \ bitmap /\ \A x \in Word(w) \ bitmap : b <= x

(* One word of the circular search. *)
Busca(c) ==
  /\ op[c] = "busca"
  /\ LET index == (last_bit_index + i[c]) % BitmapSize
         achados == {b \in Word(index) : LowestClear(index, b) /\ b < TotalBlocks}
     IN \E b \in (IF achados = {} THEN {0} ELSE achados) :
          /\ op' = [op EXCEPT ![c] = IF achados # {} THEN "le"
                                     ELSE IF i[c] + 1 < BitmapSize THEN "busca" ELSE "fora"]
          /\ block_id' = [block_id EXCEPT ![c] = b]
          /\ i' = [i EXCEPT ![c] = IF achados # {} THEN @ ELSE @ + 1]
  /\ UNCHANGED <<bitmap, last_bit_index, visto>>

(* bitmap[index] |= bit: the load, *)
Le(c) ==
  /\ op[c] = "le"
  /\ visto' = [visto EXCEPT ![c] = Word(WordOf(block_id[c])) \cap bitmap]
  /\ op' = [op EXCEPT ![c] = "marca"]
  /\ UNCHANGED <<bitmap, last_bit_index, i, block_id>>

(* ... and the store of the word with the bit set. *)
MarcaBloco(c) ==
  /\ op[c] = "marca"
  /\ bitmap' = (bitmap \ Word(WordOf(block_id[c]))) \cup visto[c] \cup {block_id[c]}
  /\ visto' = [visto EXCEPT ![c] = {}]
  /\ op' = [op EXCEPT ![c] = "guarda"]
  /\ UNCHANGED <<last_bit_index, i, block_id>>

Guarda(c) ==
  /\ op[c] = "guarda"
  /\ last_bit_index' = WordOf(block_id[c])
  /\ op' = [op EXCEPT ![c] = "fora"]
  /\ UNCHANGED <<bitmap, i, block_id, visto>>

-----------------------------------------------------------------------------
(* pmm_free_block *)

LeLivre(c) ==
  /\ op[c] = "le_livre"
  /\ visto' = [visto EXCEPT ![c] = Word(WordOf(block_id[c])) \cap bitmap]
  /\ op' = [op EXCEPT ![c] = "limpa"]
  /\ UNCHANGED <<bitmap, last_bit_index, i, block_id>>

LimpaBloco(c) ==
  /\ op[c] = "limpa"
  /\ bitmap' = (bitmap \ Word(WordOf(block_id[c]))) \cup (visto[c] \ {block_id[c]})
  /\ visto' = [visto EXCEPT ![c] = {}]
  /\ op' = [op EXCEPT ![c] = "recua"]
  /\ UNCHANGED <<last_bit_index, i, block_id>>

(* Mutant of Recua: the search start never moves back. *)
RecuaNunca(c) ==
  /\ op[c] = "recua"
  /\ op' = [op EXCEPT ![c] = "fora"]
  /\ UNCHANGED <<bitmap, last_bit_index, i, block_id, visto>>

(* A hole below the search start moves it back. *)
Recua(c) ==
  /\ op[c] = "recua"
  /\ last_bit_index' = IF WordOf(block_id[c]) < last_bit_index
                         THEN WordOf(block_id[c]) ELSE last_bit_index
  /\ op' = [op EXCEPT ![c] = "fora"]
  /\ UNCHANGED <<bitmap, i, block_id, visto>>

PmmStep(c) ==
  Busca(c) \/ Le(c) \/ MarcaBloco(c) \/ Guarda(c) \/ LeLivre(c) \/ LimpaBloco(c) \/ Recua(c)
-----------------------------------------------------------------------------
(* Every variable of the allocator keeps its type. *)
PmmTypeOK ==
  /\ bitmap \subseteq Bits
  /\ last_bit_index \in 0..(BitmapSize - 1)
  /\ op \in [Chamadores -> {"fora", "busca", "le", "marca", "guarda", "le_livre", "limpa", "recua"}]
  /\ i \in [Chamadores -> 0..BitmapSize]
  /\ block_id \in [Chamadores -> Bits]
  /\ visto \in [Chamadores -> SUBSET Bits]
=============================================================================
