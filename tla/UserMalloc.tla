----------------------------- MODULE UserMalloc -----------------------------
(***************************************************************************)
(* The heap of an application, system/malloc.c over SYS_SBRK: a doubly     *)
(* linked list of blocks in the application's own memory, first fit,       *)
(* splitting, coalescing, and realloc in place or by a copy.  One thread   *)
(* calls it: a call is one step.                                           *)
(*                                                                         *)
(* Addresses and lengths count units of 16 bytes; the heap starts at       *)
(* address CHUNK.  mem says whose data each unit holds: an allocation's,   *)
(* by its name, or nobody's, "lixo": headers, zeroed pages, freed data.    *)
(***************************************************************************)
EXTENDS Naturals, FiniteSets

CONSTANTS
  CHUNK,        \* CHUNK_SIZE, which is also the size of a page
  MaxPaginas,   \* bound: pages of the heap
  Pedidos,      \* lengths the application asks for
  Ids           \* names of its allocations

HEADER    == 2   \* HEADER_SIZE
MIN_SPLIT == 2

ASSUME ChunkAssumption   == CHUNK \in Nat /\ CHUNK > HEADER + MIN_SPLIT
ASSUME PedidosAssumption == Pedidos \subseteq Nat \ {0} /\ MaxPaginas \in Nat /\ "lixo" \notin Ids

VARIABLES
  h,            \* the list: b, the header at each address; heap_start, heap_end
  brk,          \* proc->heap_end
  mapeadas,     \* pages of the heap that are mapped
  mem,          \* per unit of memory: whose data it holds
  regioes       \* what the application holds: [id, ptr, tam, cheio]

umVars == <<h, brk, mapeadas, mem, regioes>>

Limite == CHUNK * (MaxPaginas + 1)
Unidades == CHUNK..(Limite - 1)
Zero == [size |-> 0, is_free |-> FALSE, next |-> 0, prev |-> 0]

UmTypeOK ==
  /\ \A a \in Unidades : h.b[a].next \in {0} \cup Unidades /\ h.b[a].prev \in {0} \cup Unidades
  /\ {h.heap_start, h.heap_end} \subseteq {0} \cup Unidades
  /\ brk \in CHUNK..Limite /\ mapeadas \subseteq 1..MaxPaginas
  /\ \A r \in regioes : r.id \in Ids /\ r.ptr \in Unidades /\ r.cheio <= r.tam

UmInit ==
  /\ h = [b |-> [a \in Unidades |-> Zero], heap_start |-> 0, heap_end |-> 0]
  /\ brk = CHUNK /\ mapeadas = {}
  /\ mem = [a \in Unidades |-> "lixo"]
  /\ regioes = {}

-----------------------------------------------------------------------------
(* The list *)

(* The headers of list g: one that is absorbed is forgotten. *)
Blocos(g) == {a \in Unidades : g.b[a].size > 0}

(* Block p comes before x, the end of the list when x is NULL. *)
Atras(g, x, p) == IF x = 0 THEN [g EXCEPT !.heap_end = p] ELSE [g EXCEPT !.b[x].prev = p]

Resto(size, n) == size - n - HEADER

(* split_block *)
Divide(g, a, n) ==
  LET novo == a + HEADER + n
  IN  IF g.b[a].size < n + HEADER + MIN_SPLIT THEN g
      ELSE [Atras(g, g.b[a].next, novo) EXCEPT
              !.b[novo] = [size |-> Resto(g.b[a].size, n), is_free |-> TRUE,
                           next |-> g.b[a].next, prev |-> a],
              !.b[a].size = n, !.b[a].next = novo]

(* Block a takes in its neighbour x. *)
Absorve(g, a, x) ==
  [Atras(g, g.b[x].next, a) EXCEPT !.b[a].size = @ + HEADER + g.b[x].size,
                                   !.b[a].next = g.b[x].next, !.b[x] = Zero]

LivreEm(g, x) == x # 0 /\ g.b[x].is_free

(* coalesce: with the next block, then with the one before. *)
Junta(g, a) ==
  LET g1 == IF LivreEm(g, g.b[a].next) THEN Absorve(g, a, g.b[a].next) ELSE g
  IN  IF LivreEm(g1, g1.b[a].prev) THEN Absorve(g1, g1.b[a].prev, a) ELSE g1

Solta(g, ptr) == Junta([g EXCEPT !.b[ptr - HEADER].is_free = TRUE], ptr - HEADER)

(* First fit: the first free block of n units, or 0.  The list is in the order *)
(* of the addresses: HeapTiles.                                                *)
Cabe(g, n) ==
  LET as == {a \in Blocos(g) : g.b[a].is_free /\ g.b[a].size >= n}
  IN  IF as = {} THEN 0 ELSE CHOOSE a \in as : \A x \in as : a <= x

(* Units by which malloc moves the break for a request of n. *)
Aumento(n) == IF n + HEADER > CHUNK THEN n + HEADER ELSE CHUNK

(* The block behind the last one, before it is split. *)
Ancora(g, a, size) ==
  LET novo == [size |-> size, is_free |-> FALSE, next |-> 0, prev |-> g.heap_end]
  IN  IF g.heap_start = 0
      THEN [g EXCEPT !.b[a] = [novo EXCEPT !.prev = 0], !.heap_start = a, !.heap_end = a]
      ELSE [g EXCEPT !.b[a] = novo, !.b[g.heap_end].next = a, !.heap_end = a]

-----------------------------------------------------------------------------
(* Data of id at ptr. *)
Preenche(m, ptr, n, id) == [u \in Unidades |-> IF u \in ptr..(ptr + n - 1) THEN id ELSE m[u]]

(* Memory after a call: the headers of list g are written, pages nps zeroed. *)
Escrita(m, g, nps) ==
  LET cab == UNION {a..(a + HEADER - 1) : a \in Blocos(g)}
  IN  [u \in Unidades |-> IF u \in cab \/ (u \div CHUNK) \in nps THEN "lixo" ELSE m[u]]

Paginas(de, ate) == {p \in 1..MaxPaginas : p * CHUNK >= de /\ p * CHUNK < ate}

(* Mutant of NovasPaginas: the first page is found by rounding down. *)
NovasPaginasAbaixo(antigo, novo) ==
  {p \in 1..MaxPaginas : (p + 1) * CHUNK > antigo /\ p * CHUNK < novo}

(* Pages SYS_SBRK maps when the break moves. *)
NovasPaginas(antigo, novo) == Paginas(antigo, novo)

(* What malloc(n) may do: the pointer, 0 when there is no memory, and the heap. *)
(* SYS_SBRK maps pages from the first one on; when a frame is missing those     *)
(* mapped stay, zeroed, and the break does not move.                            *)
Obtem(n) ==
  LET a == Cabe(h, n)
      novo == brk + Aumento(n)
      ps == NovasPaginas(brk, novo)
      h1 == [Divide(h, a, n) EXCEPT !.b[a].is_free = FALSE]
      h2 == Divide(Ancora(h, brk, Aumento(n) - HEADER), brk, n)
      Fica(ptr, g, zeradas) == [ptr |-> ptr, h |-> g, mem |-> Escrita(mem, g, zeradas), brk |-> brk,
                                mapeadas |-> mapeadas \cup zeradas]
  IN  IF a # 0
      THEN {Fica(a + HEADER, h1, {})}
      ELSE {Fica(0, h, {p \in ps : p < q}) : q \in ps}
           \cup IF novo <= Limite THEN {[Fica(brk + HEADER, h2, ps) EXCEPT !.brk = novo]}
                ELSE {Fica(0, h, ps)}

Malloc ==
  \E n \in Pedidos, id \in Ids \ {r.id : r \in regioes} :
    \E o \in Obtem(n) :
      /\ h' = o.h /\ brk' = o.brk /\ mapeadas' = o.mapeadas
      /\ mem' = IF o.ptr = 0 THEN o.mem ELSE Preenche(o.mem, o.ptr, n, id)
      /\ regioes' = IF o.ptr = 0 THEN regioes
                    ELSE regioes \cup {[id |-> id, ptr |-> o.ptr, tam |-> n, cheio |-> n]}

(* free, and realloc to 0. *)
Free(r) ==
  /\ h' = Solta(h, r.ptr)
  /\ mem' = Escrita(Preenche(mem, r.ptr, r.cheio, "lixo"), h', {})
  /\ regioes' = regioes \ {r}
  /\ UNCHANGED <<brk, mapeadas>>

(* What becomes of r: it is n units long at ptr, and the old data is there. *)
Muda(r, ptr, n) ==
  regioes' = (regioes \ {r}) \cup
    {[r EXCEPT !.ptr = ptr, !.tam = n, !.cheio = IF r.cheio < n THEN r.cheio ELSE n]}

(* realloc may grow a block over the free one behind it. *)
Expande(g, a, n) ==
  LivreEm(g, g.b[a].next) /\ g.b[a].size + HEADER + g.b[g.b[a].next].size >= n

(* realloc to n units: in the block, over the next one, or elsewhere. *)
Realloc(r) ==
  \E n \in Pedidos :
    LET a == r.ptr - HEADER
        g1 == IF h.b[a].size >= n THEN h ELSE Absorve(h, a, h.b[a].next)
    IN  IF h.b[a].size >= n \/ Expande(h, a, n)
        THEN /\ h' = Divide(g1, a, n)
             /\ mem' = Escrita([u \in Unidades |-> IF u \in (r.ptr + n)..(r.ptr + r.cheio - 1)
                                               THEN "lixo" ELSE mem[u]], h', {})
             /\ Muda(r, r.ptr, n)
             /\ UNCHANGED <<brk, mapeadas>>
        ELSE \E o \in Obtem(n) :
               /\ brk' = o.brk /\ mapeadas' = o.mapeadas
               /\ IF o.ptr = 0 THEN h' = o.h /\ mem' = o.mem /\ UNCHANGED regioes
                  ELSE LET copia == [u \in Unidades |->
                             IF u \in o.ptr..(o.ptr + h.b[a].size - 1) THEN mem[r.ptr + u - o.ptr]
                             ELSE o.mem[u]]
                       IN  /\ h' = Solta(o.h, r.ptr)
                           /\ mem' = Escrita(Preenche(copia, r.ptr, r.cheio, "lixo"), h', {})
                           /\ Muda(r, o.ptr, n)

(* The application fills what realloc added. *)
Completa(r) ==
  /\ r.cheio < r.tam
  /\ mem' = Preenche(mem, r.ptr, r.tam, r.id)
  /\ regioes' = (regioes \ {r}) \cup {[r EXCEPT !.cheio = r.tam]}
  /\ UNCHANGED <<h, brk, mapeadas>>

UmNext ==
  \/ Malloc
  \/ \E r \in regioes : Free(r) \/ Realloc(r) \/ Completa(r)

UmSpec == UmInit /\ [][UmNext]_umVars

-----------------------------------------------------------------------------
(* What the application wrote to an allocation is there until it frees it:    *)
(* no header, no other allocation, no page zeroed by SYS_SBRK and no realloc  *)
(* destroys it, whether memory ran out half-way or not.                       *)
DataKept ==
  \A r \in regioes : \A k \in 0..(r.cheio - 1) : mem[r.ptr + k] = r.id

(* The list covers the heap: each block ends where the next one begins, both  *)
(* pointers and both ends agree, the last one ends at the break, and all of it *)
(* is mapped.  A call to SYS_SBRK that failed half-way leaves no trace in it.  *)
HeapTiles ==
  /\ Paginas(CHUNK, brk) \subseteq mapeadas
  /\ h.heap_start = IF Blocos(h) = {} THEN 0 ELSE CHUNK
  /\ \A a \in Blocos(h) :
       LET fim == a + HEADER + h.b[a].size
       IN  \/ h.b[a].next = fim /\ fim \in Blocos(h) /\ h.b[fim].prev = a
           \/ h.b[a].next = 0 /\ h.heap_end = a /\ fim = brk

(* The heap of an application is whole, and so is what it holds (malloc.c:13-170).     *)
HeapSound == HeapTiles /\ DataKept
=============================================================================
