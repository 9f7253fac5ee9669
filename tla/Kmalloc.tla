------------------------------ MODULE Kmalloc ------------------------------
(***************************************************************************)
(* The kernel heap, mem/kmalloc.c: one doubly linked list of blocks, first *)
(* fit, splitting, coalescing on kfree, and growth by mapping pages.       *)
(*                                                                         *)
(* Every function here runs between trava_adquirir() and trava_liberar(),  *)
(* with interrupts disabled on the only CPU, so a call is one step.        *)
(*                                                                         *)
(* Addresses and lengths count units of 16 bytes, the alignment kmalloc    *)
(* gives every block; a header takes two of them.  A heap h is a record of *)
(* the headers' fields by address, with the two ends of the list.  An      *)
(* address holds no header while its tamanho is 0: a header that is merged *)
(* into another block is forgotten, so that a use of it would show.        *)
(***************************************************************************)
EXTENDS Naturals, FiniteSets

CONSTANTS
  HEAP_START_SAFE,  \* first address of the heap
  PAGE_SIZE,        \* units in a page
  MaxPages,         \* bound: physical pages the heap can be given
  Requests          \* sizes, in bytes, that callers ask kmalloc for

HEADER == 2   \* sizeof(cabecalho_bloco_t)
MINIMO == 1   \* the smallest remainder kmalloc splits off
NULL   == 0

ASSUME StartAssumption == HEAP_START_SAFE \in Nat \ {0}
ASSUME PageAssumption == PAGE_SIZE \in Nat /\ PAGE_SIZE > HEADER
ASSUME HeapPagesAssumption == MaxPages \in Nat
ASSUME RequestsAssumption == Requests \subseteq Nat

VARIABLES
  heap,              \* the blocks, and lista_livre_inicio and lista_livre_fim
  heap_atual,        \* where the next new block goes
  heap_mapeado_fim,  \* first address that is not mapped
  iniciado           \* heap_init() has run

kmVars == <<heap, heap_atual, heap_mapeado_fim, iniciado>>

Limite == HEAP_START_SAFE + MaxPages * PAGE_SIZE
Addr   == 0..Limite

Blocos(h) == {a \in Addr : h.tamanho[a] > 0}
Fim(h, a) == a + HEADER + h.tamanho[a]

HeapVazio ==
  [tamanho  |-> [a \in Addr |-> 0],
   livre    |-> [a \in Addr |-> FALSE],
   proximo  |-> [a \in Addr |-> NULL],
   anterior |-> [a \in Addr |-> NULL],
   inicio   |-> NULL,
   fim      |-> NULL]

KmInit ==
  /\ heap = HeapVazio
  /\ heap_atual = HEAP_START_SAFE
  /\ heap_mapeado_fim = HEAP_START_SAFE
  /\ iniciado = FALSE

-----------------------------------------------------------------------------
(* Units a request of so many bytes takes: it is rounded up to 16 bytes. *)
Alinhar(bytes) == (bytes + 15) \div 16

(* expandir_heap(necessario) maps pages until the address heap_atual + necessario
   is mapped too, or physical memory runs out: fim is the new heap_mapeado_fim. *)
Basta(necessario, fim) == heap_atual + necessario < fim

Paginas(fim) ==
  /\ fim <= Limite
  /\ \E n \in 0..MaxPages : fim = heap_mapeado_fim + n * PAGE_SIZE

Expande(necessario, fim) ==
  /\ Paginas(fim)
  /\ Basta(necessario, fim)
  /\ fim = heap_mapeado_fim \/ ~Basta(necessario, fim - PAGE_SIZE)

NaoExpande(necessario, fim) == Paginas(fim) /\ ~Basta(necessario, fim)

(* A new block of n units at a, behind the last one. *)
Acrescenta(h, a, n, livre) ==
  [tamanho  |-> [h.tamanho EXCEPT ![a] = n],
   livre    |-> [h.livre EXCEPT ![a] = livre],
   proximo  |-> IF h.fim = NULL THEN [h.proximo EXCEPT ![a] = NULL]
                                ELSE [h.proximo EXCEPT ![a] = NULL, ![h.fim] = a],
   anterior |-> [h.anterior EXCEPT ![a] = h.fim],
   inicio   |-> IF h.fim = NULL THEN a ELSE h.inicio,
   fim      |-> a]

(* Mutant of Resto: the remainder's header is not counted. *)
RestoSemCabecalho(h, a, n) == h.tamanho[a] - n

(* What is left of block a behind its first n units and a new header. *)
Resto(h, a, n) == h.tamanho[a] - n - HEADER

(* Block a keeps n units, no longer free; the rest becomes a free block behind it. *)
Divide(h, a, n) ==
  LET novo == a + HEADER + n
      prox == h.proximo[a]
  IN [tamanho  |-> [h.tamanho EXCEPT ![novo] = Resto(h, a, n), ![a] = n],
      livre    |-> [h.livre EXCEPT ![novo] = TRUE, ![a] = FALSE],
      proximo  |-> [h.proximo EXCEPT ![novo] = prox, ![a] = novo],
      anterior |-> IF prox = NULL THEN [h.anterior EXCEPT ![novo] = a]
                                  ELSE [h.anterior EXCEPT ![novo] = a, ![prox] = novo],
      inicio   |-> h.inicio,
      fim      |-> IF prox = NULL THEN novo ELSE h.fim]

(* Block a changes between free and in use. *)
Rotula(h, a, livre) ==
  [tamanho |-> h.tamanho, livre |-> [h.livre EXCEPT ![a] = livre], proximo |-> h.proximo,
   anterior |-> h.anterior, inicio |-> h.inicio, fim |-> h.fim]

(* Mutant of Religa: the block behind the pair keeps its old anterior. *)
ReligaNada(h, a, b, depois) == [h.anterior EXCEPT ![b] = NULL]

(* anterior once a has absorbed b: the block behind b now follows a. *)
Religa(h, a, b, depois) ==
  IF depois = NULL THEN [h.anterior EXCEPT ![b] = NULL]
                   ELSE [h.anterior EXCEPT ![b] = NULL, ![depois] = a]

(* Block a absorbs the block b behind it. *)
Absorve(h, a, b) ==
  [tamanho  |-> [h.tamanho EXCEPT ![a] = h.tamanho[a] + HEADER + h.tamanho[b], ![b] = 0],
   livre    |-> [h.livre EXCEPT ![b] = FALSE],
   proximo  |-> [h.proximo EXCEPT ![a] = h.proximo[b], ![b] = NULL],
   anterior |-> Religa(h, a, b, h.proximo[b]),
   inicio   |-> h.inicio,
   fim      |-> IF h.proximo[b] = NULL THEN a ELSE h.fim]

(* Mutant of Junta: whether the block behind is free is not asked. *)
JuntaSemTeste(h, a) ==
  IF a # NULL /\ h.proximo[a] # NULL /\ h.livre[a] /\ Fim(h, a) = h.proximo[a]
  THEN Absorve(h, a, h.proximo[a])
  ELSE h

(* kfree merges a block, if it is free, with a free block that begins where it ends. *)
Junta(h, a) ==
  IF /\ a # NULL
     /\ h.proximo[a] # NULL
     /\ h.livre[a] /\ h.livre[h.proximo[a]]
     /\ Fim(h, a) = h.proximo[a]
  THEN Absorve(h, a, h.proximo[a])
  ELSE h

-----------------------------------------------------------------------------
(* heap_init(): the first page is one free block; without it the list is empty. *)
HeapInit ==
  /\ ~iniciado
  /\ iniciado' = TRUE
  /\ \E fim \in Addr :
       /\ heap_mapeado_fim' = fim
       /\ \/ /\ Expande(PAGE_SIZE, fim)
             /\ heap' = Acrescenta(HeapVazio, HEAP_START_SAFE, PAGE_SIZE - HEADER, TRUE)
             /\ heap_atual' = HEAP_START_SAFE + PAGE_SIZE
          \/ /\ NaoExpande(PAGE_SIZE, fim)
             /\ UNCHANGED <<heap, heap_atual>>

Cabe(a, n) == heap.livre[a] /\ heap.tamanho[a] >= n

(* The walk from lista_livre_inicio stops at a; the list is in address order. *)
PrimeiroQueCabe(a, n) == Cabe(a, n) /\ \A c \in Blocos(heap) : Cabe(c, n) => a <= c

(* kmalloc(): the first free block that is large enough, split if the rest can
   hold a header and 16 bytes ... *)
KmallocEncontra(bytes) ==
  /\ iniciado
  /\ bytes > 0
  /\ \E a \in Blocos(heap) :
       /\ PrimeiroQueCabe(a, Alinhar(bytes))
       /\ heap' = IF heap.tamanho[a] >= Alinhar(bytes) + HEADER + MINIMO
                  THEN Divide(heap, a, Alinhar(bytes))
                  ELSE Rotula(heap, a, FALSE)
  /\ UNCHANGED <<heap_atual, heap_mapeado_fim, iniciado>>

(* ... or a new block at the end of the heap ... *)
KmallocExpande(bytes) ==
  /\ iniciado
  /\ bytes > 0
  /\ \A c \in Blocos(heap) : ~Cabe(c, Alinhar(bytes))
  /\ \E fim \in Addr :
       /\ Expande(HEADER + Alinhar(bytes), fim)
       /\ heap_mapeado_fim' = fim
  /\ heap' = Acrescenta(heap, heap_atual, Alinhar(bytes), FALSE)
  /\ heap_atual' = heap_atual + HEADER + Alinhar(bytes)
  /\ UNCHANGED iniciado

(* ... or NULL; the pages mapped until then stay mapped. *)
KmallocFalha(bytes) ==
  /\ iniciado
  /\ bytes > 0
  /\ \A c \in Blocos(heap) : ~Cabe(c, Alinhar(bytes))
  /\ \E fim \in Addr :
       /\ NaoExpande(HEADER + Alinhar(bytes), fim)
       /\ heap_mapeado_fim' = fim
  /\ UNCHANGED <<heap, heap_atual, iniciado>>

(* Mutant of LiberaBloco: only the block behind is merged. *)
LiberaSoAdiante(h, a) == Junta(Rotula(h, a, TRUE), a)

(* The block is free, and merged with the block behind it and the one before it. *)
LiberaBloco(h, a) ==
  LET adiante == Junta(Rotula(h, a, TRUE), a)
  IN Junta(adiante, adiante.anterior[a])

(* kfree() of a pointer kmalloc returned and that is still in use. *)
Kfree(a) ==
  /\ a \in Blocos(heap)
  /\ ~heap.livre[a]
  /\ heap' = LiberaBloco(heap, a)
  /\ UNCHANGED <<heap_atual, heap_mapeado_fim, iniciado>>

KmNext ==
  \/ HeapInit
  \/ \E bytes \in Requests :
       KmallocEncontra(bytes) \/ KmallocExpande(bytes) \/ KmallocFalha(bytes)
  \/ \E a \in Addr : Kfree(a)

KmSpec == KmInit /\ [][KmNext]_kmVars

-----------------------------------------------------------------------------
(* kmalloc_stats() walks the list: what it adds up, peso[a] at block a ... *)
Anda(h, peso) ==
  LET soma[a \in Blocos(h) \cup {NULL}] == IF a = NULL THEN 0 ELSE peso[a] + soma[h.proximo[a]]
  IN soma[h.inicio]

(* ... for its two results, in units. *)
Usado(h) == Anda(h, [a \in Blocos(h) |-> IF h.livre[a] THEN 0 ELSE HEADER + h.tamanho[a]])

(* Mutant of Livre: what is mapped beyond heap_atual is not counted. *)
LivreSemResto(h) == Anda(h, [a \in Blocos(h) |-> IF h.livre[a] THEN h.tamanho[a] ELSE 0])

Livre(h) ==
  Anda(h, [a \in Blocos(h) |-> IF h.livre[a] THEN h.tamanho[a] ELSE 0])
    + (IF heap_mapeado_fim > heap_atual THEN heap_mapeado_fim - heap_atual ELSE 0)

-----------------------------------------------------------------------------
(* Properties *)

Heaps ==
  [tamanho  : [Addr -> Nat],
   livre    : [Addr -> BOOLEAN],
   proximo  : [Addr -> Addr],
   anterior : [Addr -> Addr],
   inicio   : Addr,
   fim      : Addr]

KmTypeOK ==
  /\ heap \in Heaps
  /\ heap_atual \in Addr
  /\ heap_mapeado_fim \in Addr
  /\ iniciado \in BOOLEAN

(* Following proximo and then anterior comes back to the block, and only the two
   ends have no neighbour. *)
Linked(h) ==
  \A a \in Blocos(h) :
    /\ IF a = h.fim
       THEN h.proximo[a] = NULL
       ELSE h.proximo[a] \in Blocos(h) /\ h.anterior[h.proximo[a]] = a
    /\ IF a = h.inicio
       THEN h.anterior[a] = NULL
       ELSE h.anterior[a] \in Blocos(h) /\ h.proximo[h.anterior[a]] = a

(* The list stays doubly linked (kmalloc.c:78-85, 102-109, 127-141). *)
DoublyLinked == Linked(heap)

(* The blocks tile the addresses from HEAP_START_SAFE to topo: the first is at the
   start, each ends where the next begins, the last ends at topo. *)
Tiles(h, topo) ==
  /\ \A a, b \in Blocos(h) : a < b => Fim(h, a) <= b
  /\ \A a \in Blocos(h) :
       IF a = h.fim THEN Fim(h, a) = topo ELSE h.proximo[a] = Fim(h, a)
  /\ IF Blocos(h) = {}
     THEN h.inicio = NULL /\ h.fim = NULL /\ topo = HEAP_START_SAFE
     ELSE h.inicio = HEAP_START_SAFE /\ h.inicio \in Blocos(h) /\ h.fim \in Blocos(h)

(* No memory is lost and no block overlaps another, whatever was split and merged
   before (kmalloc.c:74-86, 124-143). *)
Tiled == Tiles(heap, heap_atual)

(* a and the block behind it are free and were not merged. *)
Fragmented(h, a) == h.livre[a] /\ h.proximo[a] # NULL /\ h.livre[h.proximo[a]]

(* kfree leaves no two free blocks side by side (kmalloc.c:123, "to avoid
   fragmentation"). *)
Coalesced == \A a \in Blocos(heap) : ~Fragmented(heap, a)

(* The regions that callers hold. *)
InUse(h) == {<<a + HEADER, h.tamanho[a]>> : a \in {b \in Blocos(h) : ~h.livre[b]}}

EmUso == InUse(heap)

(* What kmalloc returns is at least as long as what was asked for (kmalloc.c:67). *)
LargeEnough ==
  [][\A bytes \in Requests :
       KmallocEncontra(bytes) \/ KmallocExpande(bytes)
         => \E r \in EmUso' \ EmUso : 16 * r[2] >= bytes]_kmVars

(* kmalloc_stats() accounts for all mapped memory but the headers of free blocks
   (kmalloc.c:147-160). *)
StatsAddUp ==
  Usado(heap) + Livre(heap) + HEADER * Cardinality({a \in Blocos(heap) : heap.livre[a]})
    = heap_mapeado_fim - HEAP_START_SAFE

(* The heap keeps its promise: blocks in use do not overlap, lie in mapped memory
   and change only when they are allocated or freed. *)
Promise == INSTANCE HeapSpec WITH em_uso <- EmUso, mapeado <- heap_mapeado_fim

KeepsPromise == Promise!Spec
=============================================================================
