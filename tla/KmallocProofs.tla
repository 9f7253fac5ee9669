--------------------------- MODULE KmallocProofs ---------------------------
(***************************************************************************)
(* Proofs about module Kmalloc, for every page size, every amount of       *)
(* physical memory and every set of request sizes.                         *)
(***************************************************************************)
EXTENDS Kmalloc, FiniteSetTheorems, WellFoundedInduction, TLAPS

USE StartAssumption, PageAssumption, HeapPagesAssumption, RequestsAssumption DEF HEADER, MINIMO, NULL

(* Every block lies between the start of the heap and topo. *)
Bounded(h, topo) ==
  \A a \in Blocos(h) : HEAP_START_SAFE <= a /\ Fim(h, a) <= topo

(* What every function of kmalloc.c expects of the list and leaves behind. *)
WellFormed(h, topo) ==
  /\ h \in Heaps
  /\ Bounded(h, topo)
  /\ Linked(h)
  /\ Tiles(h, topo)

LEMMA LimiteIsNat == Limite \in Nat /\ HEAP_START_SAFE <= Limite
BY DEF Limite


LEMMA HeapTypes ==
  ASSUME NEW h \in Heaps
  PROVE  /\ h.tamanho \in [Addr -> Nat] /\ h.livre \in [Addr -> BOOLEAN]
         /\ h.proximo \in [Addr -> Addr] /\ h.anterior \in [Addr -> Addr]
         /\ h.inicio \in Addr /\ h.fim \in Addr
BY DEF Heaps

LEMMA BlockTypes ==
  ASSUME NEW h \in Heaps, NEW a \in Blocos(h)
  PROVE  /\ a \in Addr /\ a \in Nat
         /\ h.tamanho[a] \in Nat /\ h.tamanho[a] > 0
         /\ Fim(h, a) = a + 2 + h.tamanho[a] /\ Fim(h, a) \in Nat
<1>1. a \in Addr /\ h.tamanho[a] > 0
  BY DEF Blocos
<1>2. a \in Nat /\ h.tamanho[a] \in Nat
  BY <1>1, LimiteIsNat, HeapTypes DEF Addr
<1> QED BY <1>1, <1>2 DEF Fim

(* The block behind a block. *)
LEMMA Successor ==
  ASSUME NEW h, NEW topo \in Addr, WellFormed(h, topo),
         NEW a \in Blocos(h), NEW b, b = h.proximo[a], b # NULL
  PROVE  /\ b \in Blocos(h) /\ b = Fim(h, a) /\ a < b
         /\ h.anterior[b] = a
         /\ a # h.fim /\ b # h.inicio /\ a # NULL
<1>1. h \in Heaps /\ Bounded(h, topo) /\ Linked(h) /\ Tiles(h, topo)
  BY DEF WellFormed
<1>2. a # h.fim /\ b \in Blocos(h) /\ h.anterior[b] = a
  BY <1>1 DEF Linked
<1>3. b = Fim(h, a)
  BY <1>1, <1>2 DEF Tiles
<1>4. a < b /\ a # NULL
  BY <1>1, <1>3, BlockTypes DEF Bounded
<1>5. b # h.inicio
  BY <1>1, <1>2, <1>4 DEF Linked
<1> QED BY <1>2, <1>3, <1>4, <1>5

(* Absorbing the next block keeps the list well formed. *)
LEMMA AbsorveKeeps ==
  ASSUME NEW h, NEW topo \in Addr, WellFormed(h, topo),
         NEW a \in Blocos(h), NEW b, b = h.proximo[a], b # NULL
  PROVE  /\ WellFormed(Absorve(h, a, b), topo)
         /\ Blocos(Absorve(h, a, b)) = Blocos(h) \ {b}
<1> DEFINE g == Absorve(h, a, b)
           d == h.proximo[b]
<1>0. h \in Heaps /\ Bounded(h, topo) /\ Linked(h) /\ Tiles(h, topo)
  BY DEF WellFormed
<1>1. /\ a \in Addr /\ b \in Blocos(h) /\ b \in Addr /\ b = Fim(h, a) /\ a < b
      /\ h.anterior[b] = a /\ a # h.fim /\ b # h.inicio /\ a # NULL
  BY <1>0, Successor, BlockTypes
<1>2. /\ d \in Addr
      /\ d = NULL <=> b = h.fim
      /\ d # NULL => d \in Blocos(h) /\ h.anterior[d] = b /\ d = Fim(h, b) /\ b < d /\ d # h.inicio
  <2>1. d \in Addr
    BY <1>0, <1>1, HeapTypes
  <2>2. b = h.fim => d = NULL
    BY <1>0, <1>1 DEF Linked
  <2>3. d = NULL => b = h.fim
    BY <1>0, <1>1 DEF Linked, Bounded
  <2>4. ASSUME d # NULL
        PROVE  d \in Blocos(h) /\ h.anterior[d] = b /\ d = Fim(h, b) /\ b < d /\ d # h.inicio
    BY <1>1, <2>4, Successor
  <2> QED BY <2>1, <2>2, <2>3, <2>4
<1>3. /\ g.tamanho = [h.tamanho EXCEPT ![a] = h.tamanho[a] + HEADER + h.tamanho[b], ![b] = 0]
      /\ g.livre = [h.livre EXCEPT ![b] = FALSE]
      /\ g.proximo = [h.proximo EXCEPT ![a] = d, ![b] = NULL]
      /\ g.anterior = IF d = NULL THEN [h.anterior EXCEPT ![b] = NULL]
                                  ELSE [h.anterior EXCEPT ![b] = NULL, ![d] = a]
      /\ g.inicio = h.inicio
      /\ g.fim = IF d = NULL THEN a ELSE h.fim
  BY DEF Absorve, Religa
<1>4. g \in Heaps
  <2>0. NULL \in Addr
    BY LimiteIsNat DEF Addr
  <2>1. g.tamanho \in [Addr -> Nat]
    BY <1>0, <1>1, <1>3, HeapTypes, BlockTypes
  <2>2. g.livre \in [Addr -> BOOLEAN]
    BY <1>0, <1>1, <1>3, HeapTypes
  <2>3. g.proximo \in [Addr -> Addr] /\ g.anterior \in [Addr -> Addr]
    BY <1>0, <1>1, <1>2, <1>3, <2>0, HeapTypes
  <2>4. g.inicio \in Addr /\ g.fim \in Addr
    BY <1>0, <1>1, <1>3, HeapTypes
  <2> QED BY <2>1, <2>2, <2>3, <2>4 DEF Absorve, Heaps
<1>5. /\ \A x \in Addr : x # a /\ x # b => g.tamanho[x] = h.tamanho[x]
      /\ g.tamanho[b] = 0 /\ g.tamanho[a] = h.tamanho[a] + 2 + h.tamanho[b]
  BY <1>0, <1>1, <1>3, HeapTypes
<1>6. Blocos(g) = Blocos(h) \ {b}
  <2> HIDE DEF g
  <2>1. g.tamanho[a] > 0
    BY <1>0, <1>1, <1>5, BlockTypes
  <2> QED BY <1>1, <1>5, <2>1 DEF Blocos
<1>7. /\ Fim(g, a) = Fim(h, b)
      /\ \A x \in Blocos(g) : x # a => Fim(g, x) = Fim(h, x)
  <2> HIDE DEF g
  <2>1. Fim(g, a) = Fim(h, b)
    BY <1>0, <1>1, <1>5, BlockTypes DEF Fim
  <2>2. \A x \in Blocos(g) : x # a => Fim(g, x) = Fim(h, x)
    BY <1>0, <1>5, <1>6, BlockTypes DEF Fim
  <2> QED BY <2>1, <2>2
<1> HIDE DEF g
<1>8. Bounded(g, topo)
  BY <1>0, <1>1, <1>6, <1>7 DEF Bounded
<1>9. Linked(g)
  <2> SUFFICES ASSUME NEW x \in Blocos(g)
               PROVE  /\ IF x = g.fim THEN g.proximo[x] = NULL
                         ELSE g.proximo[x] \in Blocos(g) /\ g.anterior[g.proximo[x]] = x
                      /\ IF x = g.inicio THEN g.anterior[x] = NULL
                         ELSE g.anterior[x] \in Blocos(g) /\ g.proximo[g.anterior[x]] = x
    BY DEF Linked
  <2>1. x \in Blocos(h) /\ x # b /\ x \in Addr /\ a \in Blocos(g)
    BY <1>0, <1>1, <1>6, BlockTypes
  <2>2. /\ IF x = h.fim THEN h.proximo[x] = NULL
           ELSE h.proximo[x] \in Blocos(h) /\ h.anterior[h.proximo[x]] = x
        /\ IF x = h.inicio THEN h.anterior[x] = NULL
           ELSE h.anterior[x] \in Blocos(h) /\ h.proximo[h.anterior[x]] = x
    BY <1>0, <2>1 DEF Linked
  <2>3. /\ g.proximo[x] = IF x = a THEN d ELSE h.proximo[x]
        /\ g.anterior[x] = IF x = d THEN a ELSE h.anterior[x]
    <3>1. g.proximo[x] = IF x = a THEN d ELSE h.proximo[x]
      BY <1>0, <1>1, <1>3, <2>1, HeapTypes
    <3>2. g.anterior[x] = IF x = d THEN a ELSE h.anterior[x]
      <4>1. x # NULL
        BY <1>0, <2>1 DEF Bounded
      <4> QED BY <1>0, <1>1, <1>2, <1>3, <2>1, <4>1, HeapTypes
    <3> QED BY <3>1, <3>2
  <2>4. CASE x = a
    <3>1. d # NULL => g.anterior[d] = a /\ d \in Blocos(g)
      BY <1>0, <1>1, <1>2, <1>3, <1>6, HeapTypes
    <3>2. h.anterior[a] # b
      BY <1>0, <1>1, <2>2, <2>4, Successor, BlockTypes, <1>2
    <3>3. IF a = g.fim THEN g.proximo[a] = NULL
          ELSE g.proximo[a] \in Blocos(g) /\ g.anterior[g.proximo[a]] = a
      BY <1>1, <1>2, <1>3, <2>3, <2>4, <3>1
    <3>4. a # d
      BY <1>0, <1>1, <1>2, BlockTypes
    <3>5. IF a = g.inicio THEN g.anterior[a] = NULL
          ELSE g.anterior[a] \in Blocos(g) /\ g.proximo[g.anterior[a]] = a
      <4>1. CASE a = h.inicio
        BY <1>3, <2>2, <2>3, <2>4, <3>4, <4>1
      <4>2. CASE a # h.inicio
        <5>1. h.anterior[a] \in Blocos(g) /\ h.proximo[h.anterior[a]] = a
          BY <1>6, <2>2, <2>4, <3>2, <4>2
        <5>2. h.anterior[a] # a /\ h.anterior[a] \in Addr
          BY <1>0, <1>1, <1>6, <5>1, BlockTypes
        <5>3. g.proximo[h.anterior[a]] = a
          BY <1>0, <1>1, <1>3, <1>6, <5>1, <5>2, <3>2, HeapTypes
        <5> QED BY <1>3, <2>3, <2>4, <3>4, <4>2, <5>1, <5>3
      <4> QED BY <4>1, <4>2
    <3> QED BY <2>4, <3>3, <3>5
  <2>5. CASE x # a
    <3>1. h.proximo[x] # b
      BY <1>1, <2>1, <2>2, <2>5
    <3>2. g.fim = IF d = NULL THEN a ELSE h.fim
      BY <1>3
    <3>3. IF x = g.fim THEN g.proximo[x] = NULL
          ELSE g.proximo[x] \in Blocos(g) /\ g.anterior[g.proximo[x]] = x
      <4>1. x = h.fim => d # NULL
        BY <1>2, <2>1
      <4>2. x = g.fim <=> x = h.fim
        BY <1>2, <2>1, <2>5, <3>2, <4>1
      <4>3. CASE x = h.fim
        BY <2>2, <2>3, <2>5, <4>2, <4>3
      <4>4. CASE x # h.fim
        <5>1. h.proximo[x] \in Blocos(g) /\ h.anterior[h.proximo[x]] = x
          BY <1>6, <2>2, <3>1, <4>4
        <5>2. h.proximo[x] # d /\ h.proximo[x] # b /\ h.proximo[x] \in Addr /\ h.proximo[x] # NULL
          BY <1>0, <1>2, <1>6, <2>1, <2>5, <5>1, BlockTypes DEF Bounded
        <5>3. g.anterior[h.proximo[x]] = x
          BY <1>0, <1>1, <1>2, <1>3, <5>1, <5>2, HeapTypes
        <5> QED BY <2>3, <2>5, <4>2, <4>4, <5>1, <5>3
      <4> QED BY <4>3, <4>4
    <3>4. IF x = g.inicio THEN g.anterior[x] = NULL
          ELSE g.anterior[x] \in Blocos(g) /\ g.proximo[g.anterior[x]] = x
      <4>1. CASE x = h.inicio
        BY <1>2, <1>3, <2>1, <2>2, <2>3, <4>1
      <4>2. CASE x # h.inicio /\ x = d
        BY <1>3, <2>1, <2>3, <4>2, <1>0, <1>1, HeapTypes
      <4>3. CASE x # h.inicio /\ x # d
        <5>1. h.anterior[x] \in Blocos(h) /\ h.proximo[h.anterior[x]] = x
          BY <2>2, <4>3
        <5>2. h.anterior[x] # a /\ h.anterior[x] # b /\ h.anterior[x] \in Addr
          BY <1>0, <1>1, <2>1, <4>3, <5>1, BlockTypes
        <5>3. g.proximo[h.anterior[x]] = x
          BY <1>0, <1>1, <1>3, <5>1, <5>2, HeapTypes
        <5> QED BY <1>3, <1>6, <2>3, <4>3, <5>1, <5>2, <5>3
      <4> QED BY <4>1, <4>2, <4>3
    <3> QED BY <3>3, <3>4
  <2> QED BY <2>4, <2>5
<1>10. Tiles(g, topo)
  <2>1. ASSUME NEW x \in Blocos(g), NEW y \in Blocos(g), x < y PROVE Fim(g, x) <= y
    BY <1>0, <1>1, <1>2, <1>6, <1>7, <2>1, BlockTypes DEF Tiles
  <2>2. ASSUME NEW x \in Blocos(g)
        PROVE IF x = g.fim THEN Fim(g, x) = topo ELSE g.proximo[x] = Fim(g, x)
    BY <1>0, <1>1, <1>2, <1>3, <1>6, <1>7, HeapTypes, BlockTypes DEF Tiles
  <2>3. g.inicio = HEAP_START_SAFE /\ g.inicio \in Blocos(g) /\ g.fim \in Blocos(g)
    BY <1>0, <1>1, <1>2, <1>3, <1>6 DEF Tiles
  <2> QED BY <2>1, <2>2, <2>3 DEF Tiles
<1> QED BY <1>4, <1>6, <1>8, <1>9, <1>10 DEF WellFormed, g

(* Splitting a block keeps the list well formed. *)
LEMMA DivideKeeps ==
  ASSUME NEW h, NEW topo \in Addr, WellFormed(h, topo),
         NEW a \in Blocos(h), NEW n \in Nat, n > 0, h.tamanho[a] >= n + HEADER + MINIMO,
         NEW novo, novo = a + HEADER + n
  PROVE  /\ WellFormed(Divide(h, a, n), topo)
         /\ Blocos(Divide(h, a, n)) = Blocos(h) \union {novo}
         /\ novo \notin Blocos(h) /\ novo \in Addr
<1> DEFINE g == Divide(h, a, n)
           d == h.proximo[a]
<1>0. h \in Heaps /\ Bounded(h, topo) /\ Linked(h) /\ Tiles(h, topo)
  BY DEF WellFormed
<1>1. /\ a \in Addr /\ a \in Nat /\ h.tamanho[a] \in Nat /\ Fim(h, a) = a + 2 + h.tamanho[a]
      /\ a # NULL /\ a >= HEAP_START_SAFE /\ Fim(h, a) <= topo
  BY <1>0, BlockTypes DEF Bounded
<1>2. novo \in Addr /\ a < novo /\ novo < Fim(h, a) /\ novo # NULL
  BY <1>1, LimiteIsNat DEF Addr
<1>3. novo \notin Blocos(h)
  BY <1>0, <1>1, <1>2 DEF Tiles
<1>4. /\ d \in Addr
      /\ d = NULL <=> a = h.fim
      /\ d # NULL => d \in Blocos(h) /\ h.anterior[d] = a /\ d = Fim(h, a) /\ d # h.inicio
      /\ d # novo /\ d # a
  <2>1. d \in Addr
    BY <1>0, <1>1, HeapTypes
  <2>2. a = h.fim => d = NULL
    BY <1>0 DEF Linked
  <2>3. d = NULL => a = h.fim
    BY <1>0 DEF Linked, Bounded
  <2>4. ASSUME d # NULL
        PROVE  d \in Blocos(h) /\ h.anterior[d] = a /\ d = Fim(h, a) /\ d # h.inicio
    BY <2>4, Successor
  <2> QED BY <1>1, <1>2, <2>1, <2>2, <2>3, <2>4
<1>5. /\ g.tamanho = [h.tamanho EXCEPT ![novo] = h.tamanho[a] - n - HEADER, ![a] = n]
      /\ g.livre = [h.livre EXCEPT ![novo] = TRUE, ![a] = FALSE]
      /\ g.proximo = [h.proximo EXCEPT ![novo] = d, ![a] = novo]
      /\ g.anterior = IF d = NULL THEN [h.anterior EXCEPT ![novo] = a]
                                  ELSE [h.anterior EXCEPT ![novo] = a, ![d] = novo]
      /\ g.inicio = h.inicio
      /\ g.fim = IF d = NULL THEN novo ELSE h.fim
  BY DEF Divide, Resto
<1>6. g \in Heaps
  <2>1. g.tamanho \in [Addr -> Nat]
    BY <1>0, <1>1, <1>2, <1>5, HeapTypes
  <2>2. g.livre \in [Addr -> BOOLEAN]
    <3>1. h.livre \in [Addr -> BOOLEAN]
      BY <1>0, HeapTypes
    <3>2. [h.livre EXCEPT ![novo] = TRUE] \in [Addr -> BOOLEAN]
      BY <3>1, Zenon
    <3>3. g.livre = [[h.livre EXCEPT ![novo] = TRUE] EXCEPT ![a] = FALSE]
      BY <1>5, Zenon
    <3> QED BY <3>2, <3>3, Zenon
  <2>3. g.proximo \in [Addr -> Addr] /\ g.anterior \in [Addr -> Addr]
    BY <1>0, <1>1, <1>2, <1>4, <1>5, HeapTypes
  <2>4. g.inicio \in Addr /\ g.fim \in Addr
    BY <1>0, <1>2, <1>5, HeapTypes
  <2> QED BY <2>1, <2>2, <2>3, <2>4 DEF Divide, Heaps
<1>7. /\ \A x \in Addr : x # a /\ x # novo => g.tamanho[x] = h.tamanho[x]
      /\ g.tamanho[a] = n /\ g.tamanho[novo] = h.tamanho[a] - n - 2
  BY <1>0, <1>1, <1>2, <1>5, HeapTypes
<1>8. Blocos(g) = Blocos(h) \union {novo}
  <2> HIDE DEF g
  <2>1. g.tamanho[a] > 0 /\ g.tamanho[novo] > 0
    BY <1>1, <1>7
  <2> QED BY <1>1, <1>2, <1>7, <2>1 DEF Blocos
<1>9. /\ Fim(g, a) = novo
      /\ Fim(g, novo) = Fim(h, a)
      /\ \A x \in Blocos(h) : x # a => Fim(g, x) = Fim(h, x)
  <2> HIDE DEF g
  <2>1. Fim(g, a) = novo /\ Fim(g, novo) = Fim(h, a)
    BY <1>1, <1>7 DEF Fim
  <2>2. \A x \in Blocos(h) : x # a => Fim(g, x) = Fim(h, x)
    BY <1>0, <1>3, <1>7, BlockTypes DEF Fim
  <2> QED BY <2>1, <2>2
<1> HIDE DEF g
<1>10. Bounded(g, topo)
  <2>1. ASSUME NEW x \in Blocos(g) PROVE HEAP_START_SAFE <= x /\ Fim(g, x) <= topo
    <3>1. CASE x = a
      BY <1>1, <1>2, <1>9, <3>1, LimiteIsNat DEF Addr
    <3>2. CASE x = novo
      BY <1>1, <1>2, <1>9, <3>2, LimiteIsNat DEF Addr
    <3>3. CASE x # a /\ x # novo
      BY <1>0, <1>8, <1>9, <3>3 DEF Bounded
    <3> QED BY <3>1, <3>2, <3>3
  <2> QED BY <2>1 DEF Bounded
<1>11. Linked(g)
  <2> SUFFICES ASSUME NEW x \in Blocos(g)
               PROVE  /\ IF x = g.fim THEN g.proximo[x] = NULL
                         ELSE g.proximo[x] \in Blocos(g) /\ g.anterior[g.proximo[x]] = x
                      /\ IF x = g.inicio THEN g.anterior[x] = NULL
                         ELSE g.anterior[x] \in Blocos(g) /\ g.proximo[g.anterior[x]] = x
    BY DEF Linked
  <2>1. a \in Blocos(g) /\ novo \in Blocos(g)
    BY <1>8
  <2>2. /\ g.proximo[a] = novo /\ g.proximo[novo] = d /\ g.anterior[novo] = a
        /\ d # NULL => g.anterior[d] = novo
    BY <1>0, <1>1, <1>2, <1>4, <1>5, HeapTypes
  <2>3. CASE x = novo
    <3>1. novo # h.inicio
      BY <1>0, <1>3 DEF Tiles
    <3>2. novo # h.fim
      BY <1>0, <1>3 DEF Tiles
    <3> QED BY <1>4, <1>5, <1>8, <2>1, <2>2, <2>3, <3>1, <3>2
  <2>4. CASE x = a
    <3>1. a # g.fim
      BY <1>2, <1>4, <1>5
    <3>2. a = g.inicio <=> a = h.inicio
      BY <1>5
    <3>3. g.anterior[a] = h.anterior[a]
      BY <1>0, <1>1, <1>2, <1>4, <1>5, HeapTypes
    <3>4. CASE a = h.inicio
      BY <1>0, <2>1, <2>2, <2>4, <3>1, <3>2, <3>3, <3>4 DEF Linked
    <3>5. CASE a # h.inicio
      <4>1. h.anterior[a] \in Blocos(h) /\ h.proximo[h.anterior[a]] = a
        BY <1>0, <3>5 DEF Linked
      <4>2. h.anterior[a] # a /\ h.anterior[a] # novo /\ h.anterior[a] \in Addr
        BY <1>0, <1>3, <1>4, <4>1, BlockTypes
      <4>3. g.proximo[h.anterior[a]] = a
        BY <1>0, <1>1, <1>2, <1>5, <4>1, <4>2, HeapTypes
      <4> QED BY <1>8, <2>1, <2>2, <2>4, <3>1, <3>2, <3>3, <3>5, <4>1, <4>3
    <3> QED BY <3>4, <3>5
  <2>5. CASE x # a /\ x # novo
    <3>1. x \in Blocos(h) /\ x \in Addr /\ x # NULL
      BY <1>0, <1>8, <2>5, BlockTypes DEF Bounded
    <3>2. /\ IF x = h.fim THEN h.proximo[x] = NULL
             ELSE h.proximo[x] \in Blocos(h) /\ h.anterior[h.proximo[x]] = x
          /\ IF x = h.inicio THEN h.anterior[x] = NULL
             ELSE h.anterior[x] \in Blocos(h) /\ h.proximo[h.anterior[x]] = x
      BY <1>0, <3>1 DEF Linked
    <3>3. g.proximo[x] = h.proximo[x]
      BY <1>0, <1>1, <1>2, <1>5, <2>5, <3>1, HeapTypes
    <3>4. x = g.fim <=> x = h.fim
      BY <1>4, <1>5, <2>5
    <3>5. IF x = g.fim THEN g.proximo[x] = NULL
          ELSE g.proximo[x] \in Blocos(g) /\ g.anterior[g.proximo[x]] = x
      <4>1. CASE x = h.fim
        BY <3>2, <3>3, <3>4, <4>1
      <4>2. CASE x # h.fim
        <5>1. h.proximo[x] \in Blocos(h) /\ h.anterior[h.proximo[x]] = x
          BY <3>2, <4>2
        <5>2. h.proximo[x] # d /\ h.proximo[x] # novo /\ h.proximo[x] \in Addr
          BY <1>0, <1>3, <1>4, <2>5, <5>1, BlockTypes DEF Bounded
        <5>3. g.anterior[h.proximo[x]] = x
          BY <1>0, <1>2, <1>4, <1>5, <5>1, <5>2, HeapTypes
        <5> QED BY <1>8, <3>3, <3>4, <4>2, <5>1, <5>3
      <4> QED BY <4>1, <4>2
    <3>6. IF x = g.inicio THEN g.anterior[x] = NULL
          ELSE g.anterior[x] \in Blocos(g) /\ g.proximo[g.anterior[x]] = x
      <4>1. CASE x = d
        BY <1>4, <1>5, <2>1, <2>2, <3>1, <4>1
      <4>2. CASE x # d
        <5>1. g.anterior[x] = h.anterior[x]
          BY <1>0, <1>2, <1>4, <1>5, <2>5, <3>1, <4>2, HeapTypes
        <5>2. ASSUME x # h.inicio PROVE g.proximo[h.anterior[x]] = x /\ h.anterior[x] \in Blocos(g)
          <6>1. h.anterior[x] \in Blocos(h) /\ h.proximo[h.anterior[x]] = x
            BY <3>2, <5>2
          <6>2. h.anterior[x] # a /\ h.anterior[x] # novo /\ h.anterior[x] \in Addr
            BY <1>0, <1>3, <4>2, <6>1, BlockTypes
          <6> QED BY <1>0, <1>1, <1>2, <1>5, <1>8, <6>1, <6>2, HeapTypes
        <5> QED BY <1>5, <3>2, <5>1, <5>2
      <4> QED BY <4>1, <4>2
    <3> QED BY <3>5, <3>6
  <2> QED BY <2>3, <2>4, <2>5
<1>12. Tiles(g, topo)
  <2>1. ASSUME NEW x \in Blocos(g), NEW y \in Blocos(g), x < y PROVE Fim(g, x) <= y
    <3>1. \A z \in Blocos(h) : z \in Nat /\ Fim(h, z) \in Nat /\ (z < a => Fim(h, z) <= a) /\ (a < z => Fim(h, a) <= z)
      BY <1>0, BlockTypes DEF Tiles
    <3>2. CASE x = novo
      BY <1>1, <1>2, <1>8, <1>9, <2>1, <3>1, <3>2
    <3>3. CASE y = novo /\ x # novo
      BY <1>1, <1>2, <1>8, <1>9, <2>1, <3>1, <3>3
    <3>4. CASE x # novo /\ y # novo
      BY <1>0, <1>1, <1>2, <1>8, <1>9, <2>1, <3>1, <3>4 DEF Tiles
    <3> QED BY <3>2, <3>3, <3>4
  <2>2. ASSUME NEW x \in Blocos(g)
        PROVE IF x = g.fim THEN Fim(g, x) = topo ELSE g.proximo[x] = Fim(g, x)
    <3>1. /\ g.proximo[a] = novo /\ g.proximo[novo] = d
          /\ \A z \in Blocos(h) : z # a => g.proximo[z] = h.proximo[z]
      BY <1>0, <1>1, <1>2, <1>3, <1>5, HeapTypes, BlockTypes
    <3>2. CASE x = novo
      BY <1>0, <1>2, <1>3, <1>4, <1>5, <1>9, <3>1, <3>2 DEF Tiles
    <3>3. CASE x = a
      BY <1>2, <1>4, <1>5, <1>9, <3>1, <3>3
    <3>4. CASE x # a /\ x # novo
      BY <1>0, <1>4, <1>5, <1>8, <1>9, <3>1, <3>4 DEF Tiles
    <3> QED BY <3>2, <3>3, <3>4
  <2>3. g.inicio = HEAP_START_SAFE /\ g.inicio \in Blocos(g) /\ g.fim \in Blocos(g)
    BY <1>0, <1>4, <1>5, <1>8 DEF Tiles
  <2> QED BY <2>1, <2>2, <2>3 DEF Tiles
<1> QED BY <1>2, <1>3, <1>6, <1>8, <1>10, <1>11, <1>12 DEF WellFormed, g

(* A new block at the top of the heap keeps the list well formed. *)
LEMMA AcrescentaKeeps ==
  ASSUME NEW h, NEW topo \in Addr, WellFormed(h, topo), topo >= HEAP_START_SAFE,
         NEW n \in Nat, n > 0, topo + HEADER + n \in Addr, NEW livre \in BOOLEAN
  PROVE  /\ WellFormed(Acrescenta(h, topo, n, livre), topo + HEADER + n)
         /\ Blocos(Acrescenta(h, topo, n, livre)) = Blocos(h) \union {topo}
         /\ topo \notin Blocos(h)
<1> DEFINE g == Acrescenta(h, topo, n, livre)
           z == h.fim
<1>0. h \in Heaps /\ Bounded(h, topo) /\ Linked(h) /\ Tiles(h, topo)
  BY DEF WellFormed
<1>1. topo \in Nat /\ topo # NULL /\ NULL \in Addr
  BY LimiteIsNat DEF Addr
<1>2. topo \notin Blocos(h)
  BY <1>0, <1>1, BlockTypes DEF Bounded
<1>3. /\ z \in Addr /\ z # topo
      /\ z # NULL => z \in Blocos(h) /\ h.inicio = HEAP_START_SAFE /\ h.inicio \in Blocos(h)
                    /\ Fim(h, z) = topo /\ z < topo
      /\ z = NULL => Blocos(h) = {} /\ topo = HEAP_START_SAFE
  <2>1. z \in Addr
    BY <1>0, HeapTypes
  <2>2. Blocos(h) = {} => z = NULL /\ topo = HEAP_START_SAFE
    BY <1>0 DEF Tiles
  <2>3. ASSUME Blocos(h) # {}
        PROVE  z # NULL /\ z \in Blocos(h) /\ h.inicio = HEAP_START_SAFE /\ h.inicio \in Blocos(h)
               /\ Fim(h, z) = topo /\ z < topo
    <3>1. z \in Blocos(h) /\ h.inicio = HEAP_START_SAFE /\ h.inicio \in Blocos(h)
      BY <1>0, <2>3 DEF Tiles
    <3>2. Fim(h, z) = topo
      BY <1>0, <3>1 DEF Tiles
    <3>3. z < topo /\ z # NULL
      BY <1>0, <3>1, <3>2, BlockTypes DEF Bounded
    <3> QED BY <3>1, <3>2, <3>3
  <2> QED BY <1>1, <2>1, <2>2, <2>3
<1>4. /\ g.tamanho = [h.tamanho EXCEPT ![topo] = n]
      /\ g.livre = [h.livre EXCEPT ![topo] = livre]
      /\ g.proximo = IF z = NULL THEN [h.proximo EXCEPT ![topo] = NULL]
                                 ELSE [h.proximo EXCEPT ![topo] = NULL, ![z] = topo]
      /\ g.anterior = [h.anterior EXCEPT ![topo] = z]
      /\ g.inicio = IF z = NULL THEN topo ELSE h.inicio
      /\ g.fim = topo
  BY DEF Acrescenta
<1>5. g \in Heaps
  <2>1. g.tamanho \in [Addr -> Nat]
    BY <1>0, <1>4, HeapTypes
  <2>2. g.livre \in [Addr -> BOOLEAN]
    <3>1. h.livre \in [Addr -> BOOLEAN]
      BY <1>0, HeapTypes
    <3> QED BY <1>4, <3>1, Zenon
  <2>3. g.proximo \in [Addr -> Addr] /\ g.anterior \in [Addr -> Addr]
    BY <1>0, <1>1, <1>3, <1>4, HeapTypes
  <2>4. g.inicio \in Addr /\ g.fim \in Addr
    BY <1>0, <1>4, HeapTypes
  <2> QED BY <2>1, <2>2, <2>3, <2>4 DEF Acrescenta, Heaps
<1>6. /\ \A x \in Addr : x # topo => g.tamanho[x] = h.tamanho[x] /\ g.anterior[x] = h.anterior[x]
      /\ g.tamanho[topo] = n /\ g.anterior[topo] = z
      /\ \A x \in Addr : x # topo /\ x # z => g.proximo[x] = h.proximo[x]
      /\ z # NULL => g.proximo[z] = topo
      /\ g.proximo[topo] = NULL
  BY <1>0, <1>3, <1>4, HeapTypes
<1>7. Blocos(g) = Blocos(h) \union {topo}
  <2> HIDE DEF g
  <2> QED BY <1>6 DEF Blocos
<1> HIDE DEF g
<1>8. /\ Fim(g, topo) = topo + HEADER + n
      /\ \A x \in Blocos(h) : Fim(g, x) = Fim(h, x)
  BY <1>0, <1>2, <1>6, BlockTypes DEF Fim
<1>9. Bounded(g, topo + HEADER + n)
  <2>1. ASSUME NEW x \in Blocos(g)
        PROVE  HEAP_START_SAFE <= x /\ Fim(g, x) <= topo + HEADER + n
    <3>1. CASE x = topo
      BY <1>1, <1>8, <3>1
    <3>2. CASE x # topo
      <4>1. x \in Blocos(h) /\ Fim(g, x) = Fim(h, x)
        BY <1>7, <1>8, <3>2
      <4>2. HEAP_START_SAFE <= x /\ Fim(h, x) <= topo /\ Fim(h, x) \in Nat
        BY <1>0, <4>1, BlockTypes DEF Bounded
      <4> QED BY <1>1, <4>1, <4>2
    <3> QED BY <3>1, <3>2
  <2> QED BY <2>1 DEF Bounded
<1>10. Linked(g)
  <2> SUFFICES ASSUME NEW x \in Blocos(g)
               PROVE  /\ IF x = g.fim THEN g.proximo[x] = NULL
                         ELSE g.proximo[x] \in Blocos(g) /\ g.anterior[g.proximo[x]] = x
                      /\ IF x = g.inicio THEN g.anterior[x] = NULL
                         ELSE g.anterior[x] \in Blocos(g) /\ g.proximo[g.anterior[x]] = x
    BY DEF Linked
  <2>1. CASE x = topo
    <3>1. x = g.fim /\ g.proximo[x] = NULL /\ g.anterior[x] = z
      BY <1>4, <1>6, <2>1
    <3>2. CASE z = NULL
      BY <1>4, <2>1, <3>1, <3>2
    <3>3. CASE z # NULL
      BY <1>2, <1>3, <1>4, <1>6, <1>7, <2>1, <3>1, <3>3
    <3> QED BY <3>2, <3>3
  <2>2. CASE x # topo
    <3>1. x \in Blocos(h) /\ x \in Addr /\ z # NULL /\ x # g.fim
      BY <1>0, <1>3, <1>4, <1>7, <2>2, BlockTypes
    <3>2. /\ IF x = z THEN h.proximo[x] = NULL
             ELSE h.proximo[x] \in Blocos(h) /\ h.anterior[h.proximo[x]] = x
          /\ IF x = h.inicio THEN h.anterior[x] = NULL
             ELSE h.anterior[x] \in Blocos(h) /\ h.proximo[h.anterior[x]] = x
      BY <1>0, <3>1 DEF Linked
    <3>3. g.proximo[x] \in Blocos(g) /\ g.anterior[g.proximo[x]] = x
      <4>1. CASE x = z
        BY <1>6, <1>7, <3>1, <4>1
      <4>2. CASE x # z
        <5>1. h.proximo[x] \in Blocos(h) /\ h.proximo[x] # topo /\ h.proximo[x] \in Addr
          BY <1>0, <1>2, <3>2, <4>2, BlockTypes
        <5> QED BY <1>6, <1>7, <2>2, <3>1, <3>2, <4>2, <5>1
      <4> QED BY <4>1, <4>2
    <3>4. IF x = g.inicio THEN g.anterior[x] = NULL
          ELSE g.anterior[x] \in Blocos(g) /\ g.proximo[g.anterior[x]] = x
      <4>1. g.inicio = h.inicio /\ g.anterior[x] = h.anterior[x]
        BY <1>4, <1>6, <2>2, <3>1
      <4>2. ASSUME x # h.inicio PROVE h.anterior[x] \in Blocos(g) /\ g.proximo[h.anterior[x]] = x
        <5>1. h.anterior[x] \in Blocos(h) /\ h.proximo[h.anterior[x]] = x
          BY <3>2, <4>2
        <5>2. h.anterior[x] # topo /\ h.anterior[x] \in Addr
          BY <1>0, <1>2, <5>1, BlockTypes
        <5>3. h.anterior[x] # z
          <6>1. h.proximo[z] = NULL
            BY <1>0, <1>3, <3>1 DEF Linked
          <6>2. x # NULL
            BY <1>0, <3>1 DEF Bounded
          <6> QED BY <5>1, <6>1, <6>2
        <5> QED BY <1>6, <1>7, <5>1, <5>2, <5>3
      <4> QED BY <3>2, <4>1, <4>2
    <3> QED BY <3>1, <3>3, <3>4
  <2> QED BY <2>1, <2>2
<1>11. Tiles(g, topo + HEADER + n)
  <2>1. ASSUME NEW x \in Blocos(g), NEW y \in Blocos(g), x < y PROVE Fim(g, x) <= y
    <3>1. CASE x = topo
      <4>1. y \in Blocos(h)
        BY <1>1, <1>7, <2>1, <3>1
      <4>2. y < topo /\ y \in Nat
        BY <1>0, <1>1, <4>1, BlockTypes DEF Bounded
      <4> QED BY <1>1, <2>1, <3>1, <4>2
    <3>2. CASE x # topo /\ y = topo
      BY <1>0, <1>7, <1>8, <3>2 DEF Bounded
    <3>3. CASE x # topo /\ y # topo
      BY <1>0, <1>7, <1>8, <2>1, <3>3 DEF Tiles
    <3> QED BY <3>1, <3>2, <3>3
  <2>2. ASSUME NEW x \in Blocos(g)
        PROVE IF x = g.fim THEN Fim(g, x) = topo + HEADER + n ELSE g.proximo[x] = Fim(g, x)
    <3>1. CASE x = topo
      BY <1>4, <1>8, <3>1
    <3>2. CASE x # topo /\ x = z
      BY <1>3, <1>4, <1>6, <1>7, <1>8, <3>2
    <3>3. CASE x # topo /\ x # z
      <4>1. x \in Blocos(h) /\ x \in Addr
        BY <1>0, <1>7, <3>3, BlockTypes
      <4> QED BY <1>0, <1>4, <1>6, <1>8, <3>3, <4>1 DEF Tiles
    <3> QED BY <3>1, <3>2, <3>3
  <2>3. g.inicio = HEAP_START_SAFE /\ g.inicio \in Blocos(g) /\ g.fim \in Blocos(g)
    BY <1>3, <1>4, <1>7
  <2> QED BY <1>7, <2>1, <2>2, <2>3 DEF Tiles
<1> QED BY <1>2, <1>5, <1>7, <1>9, <1>10, <1>11 DEF WellFormed, g

(* Marking a block free or in use does not touch the list. *)
LEMMA MarcaKeeps ==
  ASSUME NEW h, NEW topo \in Addr, WellFormed(h, topo),
         NEW a \in Blocos(h), NEW livre \in BOOLEAN
  PROVE  /\ WellFormed(Rotula(h, a, livre), topo)
         /\ Blocos(Rotula(h, a, livre)) = Blocos(h)
<1> DEFINE g == Rotula(h, a, livre)
<1>0. h \in Heaps /\ Bounded(h, topo) /\ Linked(h) /\ Tiles(h, topo)
  BY DEF WellFormed
<1>1. /\ g.tamanho = h.tamanho /\ g.proximo = h.proximo /\ g.anterior = h.anterior
      /\ g.inicio = h.inicio /\ g.fim = h.fim /\ g.livre = [h.livre EXCEPT ![a] = livre]
  BY DEF Rotula
<1>2. g \in Heaps
  <2>1. h.livre \in [Addr -> BOOLEAN]
    BY <1>0, HeapTypes
  <2>2. g.livre \in [Addr -> BOOLEAN]
    BY <1>1, <2>1, Zenon
  <2> QED BY <1>0, <2>2, HeapTypes DEF Rotula, Heaps
<1> HIDE DEF g
<1>3. Blocos(g) = Blocos(h) /\ \A x \in Blocos(h) : Fim(g, x) = Fim(h, x)
  BY <1>1 DEF Blocos, Fim
<1>4. Bounded(g, topo)
  BY <1>0, <1>3 DEF Bounded
<1>5. Linked(g)
  BY <1>0, <1>1, <1>3 DEF Linked
<1>6. Tiles(g, topo)
  BY <1>0, <1>1, <1>3 DEF Tiles
<1> QED BY <1>2, <1>3, <1>4, <1>5, <1>6 DEF WellFormed, g

(* kfree's two merges keep the list well formed. *)
LEMMA JuntaKeeps ==
  ASSUME NEW h, NEW topo \in Addr, WellFormed(h, topo),
         NEW a \in Blocos(h) \union {NULL}
  PROVE  WellFormed(Junta(h, a), topo)
<1>1. CASE Junta(h, a) = h
  BY <1>1
<1>2. CASE Junta(h, a) # h
  <2>1. a \in Blocos(h) /\ h.proximo[a] # NULL /\ Junta(h, a) = Absorve(h, a, h.proximo[a])
    BY <1>2 DEF Junta
  <2> QED BY <2>1, AbsorveKeeps
<1> QED BY <1>1, <1>2
-----------------------------------------------------------------------------
(* Coalescing and the regions in use *)

(* A merge leaves no unmerged pair at a, and makes none elsewhere. *)
LEMMA JuntaCoalesces ==
  ASSUME NEW h, NEW topo \in Addr, WellFormed(h, topo),
         NEW a \in Blocos(h) \union {NULL}, NEW S,
         a # NULL => h.proximo[a] \notin S,
         \A x \in Blocos(h) : Fragmented(h, x) => x \in S \union {a}
  PROVE  \A x \in Blocos(Junta(h, a)) : Fragmented(Junta(h, a), x) => x \in S
<1> DEFINE b == h.proximo[a]
           d == h.proximo[b]
           g == Junta(h, a)
<1>0. h \in Heaps /\ Bounded(h, topo) /\ Linked(h) /\ Tiles(h, topo)
  BY DEF WellFormed
<1>1. CASE a = NULL
  <2>1. g = h
    BY <1>1 DEF Junta
  <2>2. a \notin Blocos(h)
    BY <1>0, <1>1 DEF Bounded
  <2> QED BY <2>1, <2>2
<1>2. CASE a # NULL /\ ~Fragmented(h, a)
  <2>1. g = h
    BY <1>2 DEF Junta, Fragmented
  <2> QED BY <1>2, <2>1
<1>3. CASE a # NULL /\ Fragmented(h, a)
  <2>1. /\ a \in Blocos(h) /\ b # NULL /\ h.livre[a] /\ h.livre[b]
    BY <1>3 DEF Fragmented
  <2>2. /\ b \in Blocos(h) /\ b = Fim(h, a) /\ a # b /\ h.anterior[b] = a /\ a \in Addr /\ b \in Addr
    BY <1>0, <2>1, Successor, BlockTypes
  <2>3. g = Absorve(h, a, b) /\ Blocos(g) = Blocos(h) \ {b}
    BY <1>3, <2>1, <2>2, AbsorveKeeps DEF Junta
  <2>4. g.proximo = [h.proximo EXCEPT ![a] = d, ![b] = NULL] /\ g.livre = [h.livre EXCEPT ![b] = FALSE]
    BY <2>3 DEF Absorve
  <2>5. ~Fragmented(h, b)
    BY <1>3, <2>2
  <2> HIDE DEF g
  <2> SUFFICES ASSUME NEW x \in Blocos(g), Fragmented(g, x) PROVE x \in S
    BY DEF g
  <2>6. x \in Blocos(h) /\ x # b /\ x \in Addr
    BY <1>0, <2>3, BlockTypes
  <2>7. h.proximo \in [Addr -> Addr] /\ h.livre \in [Addr -> BOOLEAN]
    BY <1>0, HeapTypes
  <2>8. x # a
    <3>1. SUFFICES ASSUME x = a PROVE FALSE
      OBVIOUS
    <3>2. g.proximo[a] = d
      BY <2>2, <2>4, <2>7
    <3>3. d # NULL /\ g.livre[d]
      BY <3>1, <3>2 DEF Fragmented
    <3>4. d \in Addr
      BY <2>2, <2>7
    <3>5. d # b /\ h.livre[d]
      BY <2>2, <2>4, <2>7, <3>3, <3>4
    <3> QED BY <2>1, <2>5, <3>3, <3>5 DEF Fragmented
  <2>9. g.proximo[x] = h.proximo[x] /\ h.proximo[x] \in Addr
    BY <2>2, <2>4, <2>6, <2>7, <2>8
  <2>10. h.livre[x] /\ h.livre[h.proximo[x]]
    BY <2>2, <2>4, <2>6, <2>7, <2>9 DEF Fragmented
  <2> QED BY <2>6, <2>8, <2>9, <2>10 DEF Fragmented
<1> QED BY <1>1, <1>2, <1>3

(* A merge changes neither the regions in use nor the predecessor of a. *)
LEMMA JuntaInUse ==
  ASSUME NEW h, NEW topo \in Addr, WellFormed(h, topo),
         NEW a \in Blocos(h) \union {NULL}
  PROVE  /\ InUse(Junta(h, a)) = InUse(h)
         /\ a # NULL => a \in Blocos(Junta(h, a)) /\ Junta(h, a).anterior[a] = h.anterior[a]
<1> DEFINE b == h.proximo[a]
           d == h.proximo[b]
           g == Junta(h, a)
<1>0. h \in Heaps /\ Bounded(h, topo) /\ Linked(h) /\ Tiles(h, topo)
  BY DEF WellFormed
<1>1. CASE g = h
  BY <1>1
<1>2. CASE g # h
  <2>1. a \in Blocos(h) /\ b # NULL /\ h.livre[a] /\ h.livre[b] /\ g = Absorve(h, a, b)
    BY <1>2 DEF Junta
  <2>2. /\ b \in Blocos(h) /\ a # b /\ a < b /\ a \in Addr /\ b \in Addr /\ b = Fim(h, a)
    BY <1>0, <2>1, Successor, BlockTypes
  <2>3. Blocos(g) = Blocos(h) \ {b}
    BY <2>1, AbsorveKeeps
  <2>4. /\ g.tamanho = [h.tamanho EXCEPT ![a] = h.tamanho[a] + HEADER + h.tamanho[b], ![b] = 0]
        /\ g.livre = [h.livre EXCEPT ![b] = FALSE]
        /\ g.anterior = IF d = NULL THEN [h.anterior EXCEPT ![b] = NULL]
                                    ELSE [h.anterior EXCEPT ![b] = NULL, ![d] = a]
    BY <2>1 DEF Absorve, Religa
  <2> HIDE DEF g
  <2>5. {x \in Blocos(g) : ~g.livre[x]} = {x \in Blocos(h) : ~h.livre[x]}
    <3>1. \A x \in Blocos(h) : x # b => g.livre[x] = h.livre[x]
      BY <1>0, <2>2, <2>4, HeapTypes, BlockTypes
    <3> QED BY <2>1, <2>3, <3>1
  <2>6. \A x \in Blocos(h) : ~h.livre[x] => g.tamanho[x] = h.tamanho[x]
    BY <1>0, <2>1, <2>2, <2>4, HeapTypes, BlockTypes
  <2>7. InUse(g) = InUse(h)
    BY <2>5, <2>6 DEF InUse
  <2>8. d # a
    <3>1. ASSUME d # NULL PROVE b < d
      BY <2>2, <3>1, Successor
    <3>2. a # NULL
      BY <1>0, <2>1 DEF Bounded
    <3> QED BY <1>0, <2>2, <3>1, <3>2, HeapTypes, BlockTypes
  <2>9. g.anterior[a] = h.anterior[a]
    BY <1>0, <2>2, <2>4, <2>8, HeapTypes
  <2> QED BY <2>1, <2>2, <2>3, <2>7, <2>9 DEF g
<1> QED BY <1>1, <1>2

(* kfree puts one region back and merges whatever it can. *)
LEMMA LiberaKeeps ==
  ASSUME NEW h, NEW topo \in Addr, WellFormed(h, topo),
         \A x \in Blocos(h) : ~Fragmented(h, x),
         NEW a \in Blocos(h), ~h.livre[a]
  PROVE  /\ WellFormed(LiberaBloco(h, a), topo)
         /\ \A x \in Blocos(LiberaBloco(h, a)) : ~Fragmented(LiberaBloco(h, a), x)
         /\ InUse(LiberaBloco(h, a)) = InUse(h) \ {<<a + HEADER, h.tamanho[a]>>}
<1> DEFINE m == Rotula(h, a, TRUE)
           g == Junta(m, a)
           p == h.anterior[a]
<1>0. h \in Heaps /\ Bounded(h, topo) /\ Linked(h)
  BY DEF WellFormed
<1>1. a # NULL /\ a \in Addr
  BY <1>0, BlockTypes DEF Bounded
<1>2. /\ WellFormed(m, topo) /\ Blocos(m) = Blocos(h)
      /\ m.anterior = h.anterior /\ m.proximo = h.proximo /\ m.tamanho = h.tamanho
      /\ m.livre = [h.livre EXCEPT ![a] = TRUE]
  BY MarcaKeeps DEF Rotula
<1>3. p \in Blocos(h) \union {NULL}
  BY <1>0 DEF Linked
<1> HIDE DEF m
<1>4. /\ WellFormed(g, topo) /\ InUse(g) = InUse(m) /\ a \in Blocos(g) /\ g.anterior[a] = p
  BY <1>1, <1>2, JuntaKeeps, JuntaInUse
<1> DEFINE S == {p} \ {NULL}
<1>5. \A x \in Blocos(m) : Fragmented(m, x) => x \in S \union {a}
  <2> SUFFICES ASSUME NEW x \in Blocos(m), Fragmented(m, x), x # a PROVE x = p /\ x # NULL
    OBVIOUS
  <2>1. h.livre \in [Addr -> BOOLEAN] /\ h.proximo \in [Addr -> Addr] /\ x \in Addr
    BY <1>0, <1>2, HeapTypes, BlockTypes
  <2>2. h.livre[x] /\ h.proximo[x] # NULL /\ m.livre[h.proximo[x]] /\ h.proximo[x] \in Addr
    BY <1>2, <2>1 DEF Fragmented
  <2>3. h.proximo[x] = a
    <3>1. SUFFICES ASSUME h.proximo[x] # a PROVE FALSE
      OBVIOUS
    <3>2. h.livre[h.proximo[x]]
      BY <1>2, <2>1, <2>2, <3>1
    <3> QED BY <1>2, <2>2, <3>2 DEF Fragmented
  <2>4. x \in Blocos(h) /\ x # NULL
    BY <1>0, <1>2 DEF Bounded
  <2>5. h.anterior[a] = x
    BY <1>1, <2>3, <2>4, Successor
  <2> QED BY <2>4, <2>5
<1>6. m.proximo[a] \notin S
  <2>1. SUFFICES ASSUME h.proximo[a] = p, p # NULL PROVE FALSE
    BY <1>2
  <2>2. a < p
    BY <2>1, Successor
  <2>3. h.proximo[p] = a /\ p \in Blocos(h)
    BY <1>0, <1>3, <2>1 DEF Linked
  <2>4. p < a
    BY <1>1, <2>3, Successor
  <2> QED BY <1>0, <2>2, <2>3, <2>4, BlockTypes
<1>7. \A x \in Blocos(g) : Fragmented(g, x) => x \in S
  <2> HIDE DEF S
  <2> QED BY <1>1, <1>2, <1>5, <1>6, JuntaCoalesces
<1>8. LiberaBloco(h, a) = Junta(g, p)
  BY <1>4 DEF LiberaBloco, m
<1> HIDE DEF g
<1>9. p \in Blocos(g) \union {NULL}
  BY <1>4 DEF WellFormed, Linked
<1>10. WellFormed(Junta(g, p), topo) /\ InUse(Junta(g, p)) = InUse(g)
  BY <1>4, <1>9, JuntaKeeps, JuntaInUse
<1>11. \A x \in Blocos(Junta(g, p)) : ~Fragmented(Junta(g, p), x)
  <2> DEFINE T == {}
  <2>1. \A x \in Blocos(g) : Fragmented(g, x) => x \in T \union {p}
    BY <1>7
  <2>2. p # NULL => g.proximo[p] \notin T
    OBVIOUS
  <2> HIDE DEF T, p
  <2>3. \A x \in Blocos(Junta(g, p)) : Fragmented(Junta(g, p), x) => x \in T
    BY <1>4, <1>9, <2>1, <2>2, JuntaCoalesces
  <2> QED BY <2>3 DEF T
<1>12. InUse(m) = InUse(h) \ {<<a + HEADER, h.tamanho[a]>>}
  <2>1. {x \in Blocos(m) : ~m.livre[x]} = {x \in Blocos(h) : ~h.livre[x]} \ {a}
    BY <1>0, <1>1, <1>2, HeapTypes, BlockTypes
  <2>2. \A x, y \in Blocos(h) : x # y => <<x + HEADER, h.tamanho[x]>> # <<y + HEADER, h.tamanho[y]>>
    BY <1>0, BlockTypes
  <2> QED BY <1>2, <2>1, <2>2 DEF InUse
<1> QED BY <1>4, <1>8, <1>10, <1>11, <1>12

-----------------------------------------------------------------------------
(* Giving a block out *)

LEMMA AlinharIsPositive ==
  ASSUME NEW bytes \in Requests, bytes > 0
  PROVE  Alinhar(bytes) \in Nat /\ Alinhar(bytes) > 0
BY DEF Alinhar

(* The alignment rounds up. *)
LEMMA AlinharIsEnough ==
  ASSUME NEW bytes \in Requests, NEW k \in Nat, k >= Alinhar(bytes)
  PROVE  16 * k >= bytes
<1>1. bytes \in Nat
  BY RequestsAssumption
<1>2. 16 * ((bytes + 15) \div 16) + 15 >= bytes + 15
  BY <1>1
<1> QED BY <1>1, <1>2 DEF Alinhar

(* A region long enough for a request has been handed out by the step. *)
Atende(bytes) == \E r \in EmUso' \ EmUso : 16 * r[2] >= bytes

(* A free block, or the first units of one, overlaps no region in use. *)
LEMMA FreeIsDisjoint ==
  ASSUME NEW h, NEW topo \in Addr, WellFormed(h, topo),
         NEW a \in Blocos(h), h.livre[a], NEW n \in Nat, n > 0, n <= h.tamanho[a]
  PROVE  /\ <<a + HEADER, n>> \notin InUse(h)
         /\ \A s \in InUse(h) : Promise!Disjoint(<<a + HEADER, n>>, s)
         /\ a + HEADER + n <= topo
<1>0. h \in Heaps /\ Bounded(h, topo) /\ Tiles(h, topo)
  BY DEF WellFormed
<1>1. a \in Nat /\ Fim(h, a) = a + 2 + h.tamanho[a] /\ h.tamanho[a] \in Nat /\ Fim(h, a) <= topo /\ topo \in Nat
  BY <1>0, BlockTypes, LimiteIsNat DEF Bounded, Addr
<1>2. ASSUME NEW s \in InUse(h)
      PROVE  s # <<a + HEADER, n>> /\ Promise!Disjoint(<<a + HEADER, n>>, s)
  <2>1. PICK x \in Blocos(h) : ~h.livre[x] /\ s = <<x + HEADER, h.tamanho[x]>>
    BY DEF InUse
  <2>2. x # a
    BY <2>1
  <2>3. x \in Nat /\ h.tamanho[x] \in Nat /\ Fim(h, x) = x + 2 + h.tamanho[x]
    BY <1>0, BlockTypes
  <2>4. x < a => Fim(h, x) <= a
    BY <1>0 DEF Tiles
  <2>5. a < x => Fim(h, a) <= x
    BY <1>0 DEF Tiles
  <2>6. s # <<a + HEADER, n>>
    BY <1>1, <2>1, <2>2, <2>3
  <2>7. s[1] = x + 2 /\ s[2] = h.tamanho[x]
    BY <2>1
  <2>8. <<a + HEADER, n>>[1] = a + 2 /\ <<a + HEADER, n>>[2] = n
    OBVIOUS
  <2>9. Promise!Disjoint(<<a + HEADER, n>>, s)
    BY <1>1, <2>2, <2>3, <2>4, <2>5, <2>7, <2>8 DEF Promise!Disjoint
  <2> QED BY <2>6, <2>9
<1> QED BY <1>1, <1>2

(* What is beyond the last block overlaps no region in use either. *)
LEMMA TopIsDisjoint ==
  ASSUME NEW h, NEW topo \in Addr, WellFormed(h, topo), NEW n \in Nat
  PROVE  /\ <<topo + HEADER, n>> \notin InUse(h)
         /\ \A s \in InUse(h) : Promise!Disjoint(<<topo + HEADER, n>>, s)
<1>0. h \in Heaps /\ Bounded(h, topo) /\ topo \in Nat
  BY LimiteIsNat DEF WellFormed, Addr
<1>2. ASSUME NEW s \in InUse(h)
      PROVE  s # <<topo + HEADER, n>> /\ Promise!Disjoint(<<topo + HEADER, n>>, s)
  <2>1. PICK x \in Blocos(h) : s = <<x + HEADER, h.tamanho[x]>>
    BY DEF InUse
  <2>2. x \in Nat /\ h.tamanho[x] \in Nat /\ x + 2 + h.tamanho[x] <= topo
    BY <1>0, BlockTypes DEF Bounded
  <2>3. s[1] = x + 2 /\ s[2] = h.tamanho[x]
    BY <2>1
  <2>4. <<topo + HEADER, n>>[1] = topo + 2 /\ <<topo + HEADER, n>>[2] = n
    OBVIOUS
  <2> QED BY <1>0, <2>2, <2>3, <2>4 DEF Promise!Disjoint
<1> QED BY <1>2

(* Splitting gives out one region and leaves no unmerged pair: the block behind
   was in use. *)
LEMMA DivideGives ==
  ASSUME NEW h, NEW topo \in Addr, WellFormed(h, topo),
         \A x \in Blocos(h) : ~Fragmented(h, x),
         NEW a \in Blocos(h), h.livre[a],
         NEW n \in Nat, n > 0, h.tamanho[a] >= n + HEADER + MINIMO
  PROVE  /\ InUse(Divide(h, a, n)) = InUse(h) \union {<<a + HEADER, n>>}
         /\ \A x \in Blocos(Divide(h, a, n)) : ~Fragmented(Divide(h, a, n), x)
<1> DEFINE novo == a + HEADER + n
           g == Divide(h, a, n)
           d == h.proximo[a]
<1>0. h \in Heaps /\ Linked(h) /\ Bounded(h, topo) /\ a \in Addr
  BY BlockTypes DEF WellFormed
<1>1. Blocos(g) = Blocos(h) \union {novo} /\ novo \notin Blocos(h) /\ novo \in Addr
  BY DivideKeeps
<1>2. /\ g.tamanho = [h.tamanho EXCEPT ![novo] = Resto(h, a, n), ![a] = n]
      /\ g.livre = [h.livre EXCEPT ![novo] = TRUE, ![a] = FALSE]
      /\ g.proximo = [h.proximo EXCEPT ![novo] = d, ![a] = novo]
  BY DEF Divide
<1>3. /\ h.tamanho \in [Addr -> Nat] /\ h.livre \in [Addr -> BOOLEAN]
      /\ h.proximo \in [Addr -> Addr]
  BY <1>0, HeapTypes
<1>4. d # NULL => d \in Blocos(h) /\ ~h.livre[d]
  BY Successor DEF Fragmented
<1> HIDE DEF g, novo
<1>5. \A x \in Blocos(h) : x \in Addr /\ x # novo
  BY <1>0, <1>1, BlockTypes
<1>6. a # novo /\ a \in Addr
  BY <1>1, <1>5
<1>7. /\ ~g.livre[a] /\ g.livre[novo] /\ g.tamanho[a] = n
      /\ g.proximo[a] = novo /\ g.proximo[novo] = d
  BY <1>1, <1>2, <1>3, <1>6
<1>8. \A x \in Blocos(h) : x # a => /\ g.livre[x] = h.livre[x] /\ g.tamanho[x] = h.tamanho[x]
                                     /\ g.proximo[x] = h.proximo[x]
  BY <1>1, <1>2, <1>3, <1>5, <1>6
<1>9. {x \in Blocos(g) : ~g.livre[x]} = {x \in Blocos(h) : ~h.livre[x]} \union {a}
  BY <1>1, <1>7, <1>8
<1>10. InUse(g) = InUse(h) \union {<<a + HEADER, n>>}
  BY <1>7, <1>8, <1>9 DEF InUse
<1>11. ASSUME NEW x \in Blocos(g) PROVE ~Fragmented(g, x)
  <2>1. CASE x = a
    BY <1>7, <2>1 DEF Fragmented
  <2>2. CASE x = novo
    <3>1. d # NULL => d # a
      BY Successor, <1>0, BlockTypes
    <3> QED BY <1>4, <1>7, <1>8, <2>2, <3>1 DEF Fragmented
  <2>3. CASE x # a /\ x # novo
    <3>1. x \in Blocos(h) /\ g.livre[x] = h.livre[x] /\ g.proximo[x] = h.proximo[x]
      BY <1>1, <1>8, <2>3
    <3>2. h.proximo[x] # NULL => h.proximo[x] \in Blocos(h)
      BY <3>1, Successor
    <3>3. h.proximo[x] # NULL /\ g.livre[h.proximo[x]] => h.livre[h.proximo[x]]
      BY <1>7, <1>8, <3>2
    <3> QED BY <3>1, <3>3 DEF Fragmented
  <2> QED BY <2>1, <2>2, <2>3
<1> QED BY <1>10, <1>11 DEF g

(* So does giving out the whole block. *)
LEMMA MarcaGives ==
  ASSUME NEW h, NEW topo \in Addr, WellFormed(h, topo),
         \A x \in Blocos(h) : ~Fragmented(h, x),
         NEW a \in Blocos(h), h.livre[a]
  PROVE  /\ InUse(Rotula(h, a, FALSE)) = InUse(h) \union {<<a + HEADER, h.tamanho[a]>>}
         /\ \A x \in Blocos(Rotula(h, a, FALSE)) : ~Fragmented(Rotula(h, a, FALSE), x)
<1> DEFINE g == Rotula(h, a, FALSE)
<1>0. h \in Heaps /\ h.livre \in [Addr -> BOOLEAN]
  BY HeapTypes DEF WellFormed
<1>1. /\ g.tamanho = h.tamanho /\ g.proximo = h.proximo /\ g.livre = [h.livre EXCEPT ![a] = FALSE]
      /\ Blocos(g) = Blocos(h)
  BY MarcaKeeps DEF Rotula
<1> HIDE DEF g
<1>2. \A x \in Blocos(h) : x \in Addr
  BY <1>0, BlockTypes
<1>3. ~g.livre[a] /\ \A x \in Blocos(h) : x # a => g.livre[x] = h.livre[x]
  BY <1>0, <1>1, <1>2
<1>4. {x \in Blocos(g) : ~g.livre[x]} = {x \in Blocos(h) : ~h.livre[x]} \union {a}
  BY <1>1, <1>3
<1>5. InUse(g) = InUse(h) \union {<<a + HEADER, h.tamanho[a]>>}
  BY <1>1, <1>4 DEF InUse
<1>6. ASSUME NEW x \in Blocos(h) PROVE ~Fragmented(g, x)
  <2>1. h.proximo[x] # NULL => h.proximo[x] \in Blocos(h)
    BY Successor
  <2> QED BY <1>1, <1>3, <2>1 DEF Fragmented
<1> QED BY <1>1, <1>5, <1>6 DEF g

(* And so does a new block at the top. *)
LEMMA AcrescentaGives ==
  ASSUME NEW h, NEW topo \in Addr, WellFormed(h, topo), topo >= HEAP_START_SAFE,
         \A x \in Blocos(h) : ~Fragmented(h, x),
         NEW n \in Nat, n > 0, topo + HEADER + n \in Addr
  PROVE  /\ InUse(Acrescenta(h, topo, n, FALSE)) = InUse(h) \union {<<topo + HEADER, n>>}
         /\ \A x \in Blocos(Acrescenta(h, topo, n, FALSE)) :
              ~Fragmented(Acrescenta(h, topo, n, FALSE), x)
<1> DEFINE g == Acrescenta(h, topo, n, FALSE)
<1>0. /\ h \in Heaps /\ Linked(h) /\ h.tamanho \in [Addr -> Nat] /\ h.livre \in [Addr -> BOOLEAN]
      /\ h.proximo \in [Addr -> Addr] /\ h.fim \in Addr
  BY HeapTypes DEF WellFormed
<1>1. Blocos(g) = Blocos(h) \union {topo} /\ topo \notin Blocos(h)
  BY AcrescentaKeeps
<1>2. /\ g.tamanho = [h.tamanho EXCEPT ![topo] = n]
      /\ g.livre = [h.livre EXCEPT ![topo] = FALSE]
      /\ g.proximo = IF h.fim = NULL THEN [h.proximo EXCEPT ![topo] = NULL]
                                     ELSE [h.proximo EXCEPT ![topo] = NULL, ![h.fim] = topo]
  BY DEF Acrescenta
<1> HIDE DEF g
<1>3. \A x \in Blocos(h) : x \in Addr /\ x # topo
  BY <1>0, <1>1, BlockTypes
<1>4. /\ ~g.livre[topo] /\ g.tamanho[topo] = n
      /\ \A x \in Blocos(h) : g.livre[x] = h.livre[x] /\ g.tamanho[x] = h.tamanho[x]
      /\ \A x \in Blocos(h) : x # h.fim => g.proximo[x] = h.proximo[x]
      /\ \A x \in Blocos(h) : x = h.fim => g.proximo[x] \in {NULL, topo}
  <2>1. ~g.livre[topo] /\ \A x \in Blocos(h) : g.livre[x] = h.livre[x]
    BY <1>0, <1>2, <1>3
  <2>2. g.tamanho[topo] = n /\ \A x \in Blocos(h) : g.tamanho[x] = h.tamanho[x]
    BY <1>0, <1>2, <1>3
  <2>3. \A x \in Blocos(h) : x # h.fim => g.proximo[x] = h.proximo[x]
    BY <1>0, <1>2, <1>3
  <2>4. \A x \in Blocos(h) : x = h.fim => g.proximo[x] \in {NULL, topo}
    <3>1. ASSUME NEW x \in Blocos(h), x = h.fim PROVE h.proximo[x] = NULL
      BY <1>0, <3>1 DEF Linked
    <3> QED BY <1>0, <1>2, <1>3, <3>1
  <2> QED BY <2>1, <2>2, <2>3, <2>4
<1>5. {x \in Blocos(g) : ~g.livre[x]} = {x \in Blocos(h) : ~h.livre[x]} \union {topo}
  BY <1>1, <1>4
<1>6. InUse(g) = InUse(h) \union {<<topo + HEADER, n>>}
  BY <1>3, <1>4, <1>5 DEF InUse
<1>7. ASSUME NEW x \in Blocos(g) PROVE ~Fragmented(g, x)
  <2>1. CASE x = topo
    BY <1>4, <2>1 DEF Fragmented
  <2>2. CASE x # topo /\ x = h.fim
    BY <1>1, <1>4, <2>2 DEF Fragmented
  <2>3. CASE x # topo /\ x # h.fim
    <3>1. x \in Blocos(h)
      BY <1>1, <2>3
    <3>2. h.proximo[x] # NULL => h.proximo[x] \in Blocos(h)
      BY <3>1, Successor
    <3> QED BY <1>4, <2>3, <3>1, <3>2 DEF Fragmented
  <2> QED BY <2>1, <2>2, <2>3
<1> QED BY <1>6, <1>7 DEF g

-----------------------------------------------------------------------------
(* What kmalloc_stats adds up *)

LEMMA LeastOne ==
  ASSUME NEW T, T \subseteq Nat, T # {}
  PROVE  \E a \in T : \A x \in T : a <= x
<1>1. PICK a \in T : \A y \in T : ~(<<y, a>> \in OpToRel(<, Nat))
  BY NatLessThanWellFounded, WFMin, Zenon
<1>2. \A y \in T : ~(y < a)
  BY <1>1, Zenon DEF OpToRel
<1> QED BY <1>2

(* The blocks in the last n addresses, and the end of the list. *)
Cauda(h, n) == {a \in Blocos(h) : a + n > Limite} \cup {NULL}

(* f[a] is what the walk still adds up from a on, for each a in D. *)
Passeio(h, peso, f, D) ==
  f = [a \in D |-> IF a = NULL THEN 0 ELSE peso[a] + f[h.proximo[a]]]

(* The walk goes to higher addresses. *)
LEMMA CaudaIs ==
  ASSUME NEW h, NEW topo \in Addr, WellFormed(h, topo), NEW n \in Nat
  PROVE  /\ NULL \notin Blocos(h) /\ NULL \in Cauda(h, n) /\ Cauda(h, 0) = {NULL}
         /\ Cauda(h, Limite + 1) = Blocos(h) \cup {NULL}
         /\ \A a \in Cauda(h, n + 1) : a # NULL => h.proximo[a] \in Cauda(h, n)
         /\ Cauda(h, n) \subseteq Cauda(h, n + 1)
<1>0. /\ h \in Heaps /\ Bounded(h, topo) /\ Limite \in Nat
      /\ \A a \in Blocos(h) : a \in Nat /\ a <= Limite /\ a # NULL
      /\ \A a \in Blocos(h) : a = h.fim => h.proximo[a] = NULL
      /\ \A a \in Blocos(h) : a # h.fim => h.proximo[a] \in Blocos(h)
  BY LimiteIsNat, BlockTypes DEF WellFormed, Linked, Bounded, Addr
<1>1. NULL \notin Blocos(h) /\ NULL \in Cauda(h, n)
  BY <1>0 DEF Cauda
<1>2. Cauda(h, 0) = {NULL} /\ Cauda(h, Limite + 1) = Blocos(h) \cup {NULL}
  BY <1>0 DEF Cauda
<1>3. Cauda(h, n) \subseteq Cauda(h, n + 1)
  BY <1>0 DEF Cauda
<1>4. ASSUME NEW a \in Cauda(h, n + 1), a # NULL
      PROVE  h.proximo[a] \in Cauda(h, n)
  <2>1. a \in Blocos(h) /\ a + (n + 1) > Limite /\ a \in Nat
    BY <1>0, <1>4 DEF Cauda
  <2>2. CASE h.proximo[a] = NULL
    BY <1>1, <2>2
  <2>3. CASE h.proximo[a] # NULL
    <3>1. h.proximo[a] \in Blocos(h) /\ a < h.proximo[a]
      BY <2>1, <2>3, Successor
    <3>2. h.proximo[a] \in Nat /\ h.proximo[a] + n > Limite
      BY <1>0, <2>1, <3>1
    <3> QED BY <3>1, <3>2 DEF Cauda
  <2> QED BY <2>2, <2>3
<1> QED BY <1>1, <1>2, <1>3, <1>4

(* So there is such a function, for any weights. *)
LEMMA PasseioExiste ==
  ASSUME NEW h, NEW topo \in Addr, WellFormed(h, topo), NEW peso, NEW n \in Nat
  PROVE  \E f : Passeio(h, peso, f, Cauda(h, n))
<1> DEFINE T == {k \in Nat : ~\E f : Passeio(h, peso, f, Cauda(h, k))}
<1> SUFFICES ASSUME T # {}
             PROVE  FALSE
  OBVIOUS
<1>1. PICK m \in T : \A x \in T : m <= x
  BY LeastOne
<1>2. CASE m = 0
  <2> DEFINE f == [a \in {NULL} |-> 0]
             g == [a \in {NULL} |-> IF a = NULL THEN 0 ELSE peso[a] + f[h.proximo[a]]]
  <2>1. f = g
    OBVIOUS
  <2>2. Cauda(h, 0) = {NULL}
    BY CaudaIs
  <2>3. Passeio(h, peso, f, Cauda(h, 0))
    <3> HIDE DEF f
    <3> QED BY <2>1, <2>2 DEF Passeio
  <2> QED BY <1>2, <2>3
<1>3. CASE m # 0
  <2>1. PICK k : k = m - 1 /\ k \in Nat /\ m = k + 1 /\ k \notin T
    BY <1>1, <1>3
  <2>2. PICK f : Passeio(h, peso, f, Cauda(h, k))
    BY <2>1
  <2>3. PICK D : D = Cauda(h, m)
    OBVIOUS
  <2>4. /\ Cauda(h, k) \subseteq D
        /\ \A a \in D : a # NULL => h.proximo[a] \in Cauda(h, k)
    BY <2>1, <2>3, CaudaIs
  <2> DEFINE g == [a \in D |-> IF a = NULL THEN 0 ELSE peso[a] + f[h.proximo[a]]]
             e == [a \in D |-> IF a = NULL THEN 0 ELSE peso[a] + g[h.proximo[a]]]
  <2>5. \A a \in Cauda(h, k) : f[a] = g[a]
    <3>1. \A a \in Cauda(h, k) : f[a] = IF a = NULL THEN 0 ELSE peso[a] + f[h.proximo[a]]
      BY <2>2 DEF Passeio
    <3> QED BY <2>4, <3>1
  <2>6. \A a \in D : g[a] = e[a]
    <3> SUFFICES ASSUME NEW a \in D
                 PROVE  g[a] = e[a]
      OBVIOUS
    <3>1. g[a] = IF a = NULL THEN 0 ELSE peso[a] + f[h.proximo[a]]
      OBVIOUS
    <3>2. e[a] = IF a = NULL THEN 0 ELSE peso[a] + g[h.proximo[a]]
      OBVIOUS
    <3>3. a # NULL => f[h.proximo[a]] = g[h.proximo[a]]
      BY <2>4, <2>5
    <3> HIDE DEF g, e
    <3> QED BY <3>1, <3>2, <3>3
  <2>7. g = e
    <3>1. g = [a \in D |-> g[a]] /\ e = [a \in D |-> e[a]]
      OBVIOUS
    <3> HIDE DEF g, e
    <3> QED BY <2>6, <3>1
  <2>8. Passeio(h, peso, g, D)
    <3> HIDE DEF g
    <3> QED BY <2>7 DEF Passeio
  <2> QED BY <2>3, <2>8
<1> QED BY <1>2, <1>3

(* What Anda adds up is what such a function says of the first block. *)
LEMMA AndaIs ==
  ASSUME NEW h, NEW topo \in Addr, WellFormed(h, topo), NEW peso
  PROVE  \E f : Anda(h, peso) = f[h.inicio] /\ Passeio(h, peso, f, Blocos(h) \cup {NULL})
<1> DEFINE f == CHOOSE g : Passeio(h, peso, g, Blocos(h) \cup {NULL})
<1>1. Passeio(h, peso, f, Blocos(h) \cup {NULL})
  <2>1. \E g : Passeio(h, peso, g, Blocos(h) \cup {NULL})
    <3>1. Cauda(h, Limite + 1) = Blocos(h) \cup {NULL} /\ Limite + 1 \in Nat
      BY CaudaIs, LimiteIsNat
    <3>2. \E g : Passeio(h, peso, g, Cauda(h, Limite + 1))
      BY <3>1, PasseioExiste
    <3> QED BY <3>1, <3>2
  <2> QED BY <2>1
<1>2. Anda(h, peso) = f[h.inicio]
  BY DEF Anda, Passeio
<1> HIDE DEF f
<1> QED BY <1>1, <1>2

(* The free blocks from address a on. *)
LivresDesde(h, a) == {b \in Blocos(h) : a <= b /\ h.livre[b]}

(* Beyond a block there is the next one of the list or, behind the last, none. *)
LEMMA LivresAre ==
  ASSUME NEW h, NEW topo \in Addr, WellFormed(h, topo), NEW a \in Blocos(h)
  PROVE  /\ IsFiniteSet(LivresDesde(h, a)) /\ Cardinality(LivresDesde(h, a)) \in Nat
         /\ a = h.fim => Cardinality(LivresDesde(h, a)) = IF h.livre[a] THEN 1 ELSE 0
         /\ a # h.fim =>
              Cardinality(LivresDesde(h, a)) =
                Cardinality(LivresDesde(h, h.proximo[a])) + IF h.livre[a] THEN 1 ELSE 0
<1>0. /\ h \in Heaps /\ Bounded(h, topo) /\ Linked(h) /\ Tiles(h, topo)
      /\ Limite \in Nat /\ topo \in Nat
      /\ \A b \in Blocos(h) : b \in Nat /\ b <= Limite /\ h.tamanho[b] \in Nat /\ h.tamanho[b] > 0
                              /\ Fim(h, b) = b + 2 + h.tamanho[b] /\ Fim(h, b) <= topo
                              /\ h.livre[b] \in BOOLEAN
  BY LimiteIsNat, BlockTypes, HeapTypes DEF WellFormed, Bounded, Addr
<1>1. \A S : S \subseteq Blocos(h) => IsFiniteSet(S) /\ Cardinality(S) \in Nat
  <2>1. Blocos(h) \subseteq 0..Limite /\ IsFiniteSet(0..Limite)
    BY <1>0, FS_Interval
  <2>2. \A S : S \subseteq Blocos(h) => IsFiniteSet(S)
    BY <2>1, FS_Subset
  <2> QED BY <2>2, FS_CardinalityType
<1>2. PICK S : S = LivresDesde(h, a) /\ S \subseteq Blocos(h)
  BY DEF LivresDesde
<1>3. CASE a = h.fim
  <2>1. Fim(h, a) = topo
    BY <1>0, <1>3 DEF Tiles
  <2>2. ASSUME NEW b \in Blocos(h), a <= b
        PROVE  b = a
    <3>1. ~(a < b)
      <4> SUFFICES ASSUME a < b
                   PROVE  FALSE
        OBVIOUS
      <4>1. topo <= b
        BY <1>0, <2>1, <2>2 DEF Tiles
      <4> QED BY <1>0, <4>1
    <3> QED BY <1>0, <2>2, <3>1
  <2>3. S = IF h.livre[a] THEN {} \cup {a} ELSE {}
    BY <1>0, <1>2, <2>2 DEF LivresDesde
  <2>4. Cardinality(S) = IF h.livre[a] THEN 1 ELSE 0
    <3>1. /\ Cardinality({}) = 0 /\ IsFiniteSet({}) /\ a \notin {}
          /\ Cardinality({} \cup {a}) = IF a \in {} THEN Cardinality({}) ELSE Cardinality({}) + 1
      BY FS_EmptySet, FS_AddElement
    <3>2. Cardinality({} \cup {a}) = 1
      BY ONLY <3>1
    <3> QED BY ONLY <2>3, <3>1, <3>2
  <2> QED BY <1>1, <1>2, <1>3, <2>4
<1>4. CASE a # h.fim
  <2>1. PICK c : c = h.proximo[a] /\ c \in Blocos(h) /\ c = Fim(h, a) /\ a < c
    BY <1>0, <1>4 DEF Linked, Tiles
  <2>2. PICK R : R = LivresDesde(h, c) /\ R \subseteq Blocos(h)
    BY DEF LivresDesde
  <2>3. ASSUME NEW b \in Blocos(h)
        PROVE  a <= b <=> (b = a \/ c <= b)
    <3>1. a < b => c <= b
      BY <1>0, <2>1 DEF Tiles
    <3> QED BY <1>0, <2>1, <3>1
  <2>4. S = IF h.livre[a] THEN R \cup {a} ELSE R
    BY <1>2, <2>2, <2>3 DEF LivresDesde
  <2>5. a \notin R
    BY <1>0, <2>1, <2>2 DEF LivresDesde
  <2>6. Cardinality(S) = Cardinality(R) + IF h.livre[a] THEN 1 ELSE 0
    BY <1>1, <2>2, <2>4, <2>5, FS_AddElement
  <2> QED BY <1>1, <1>2, <1>4, <2>1, <2>2, <2>6
<1> QED BY <1>3, <1>4

(* From any block on, what is in use with its headers, what is free and the headers
   of what is free make up the heap up to its top. *)
LEMMA RestoDaSoma ==
  ASSUME NEW h, NEW topo \in Addr, WellFormed(h, topo),
         NEW p, p = [a \in Blocos(h) |-> IF h.livre[a] THEN 0 ELSE HEADER + h.tamanho[a]],
         NEW q, q = [a \in Blocos(h) |-> IF h.livre[a] THEN h.tamanho[a] ELSE 0],
         NEW u, Passeio(h, p, u, Blocos(h) \cup {NULL}),
         NEW v, Passeio(h, q, v, Blocos(h) \cup {NULL}),
         NEW a \in Blocos(h)
  PROVE  /\ u[a] \in Nat /\ v[a] \in Nat
         /\ u[a] + v[a] + 2 * Cardinality(LivresDesde(h, a)) = topo - a
<1> DEFINE Certo(x) == /\ u[x] \in Nat /\ v[x] \in Nat
                       /\ u[x] + v[x] + 2 * Cardinality(LivresDesde(h, x)) = topo - x
           T == {n \in Nat : \E x \in Blocos(h) : n = Limite - x /\ ~Certo(x)}
<1>0. /\ Limite \in Nat /\ topo \in Nat /\ Linked(h) /\ Tiles(h, topo) /\ NULL \notin Blocos(h)
      /\ \A x \in Blocos(h) : x \in Nat /\ x <= Limite /\ h.tamanho[x] \in Nat
                              /\ Fim(h, x) = x + 2 + h.tamanho[x] /\ h.livre[x] \in BOOLEAN
  <2>1. /\ h \in Heaps /\ Limite \in Nat /\ topo \in Nat /\ Linked(h) /\ Tiles(h, topo)
    BY LimiteIsNat DEF WellFormed, Addr
  <2>2. NULL \notin Blocos(h)
    BY <2>1, BlockTypes DEF WellFormed, Bounded
  <2>3. ASSUME NEW x \in Blocos(h)
        PROVE  /\ x \in Nat /\ x <= Limite /\ h.tamanho[x] \in Nat
               /\ Fim(h, x) = x + 2 + h.tamanho[x] /\ h.livre[x] \in BOOLEAN
    BY <2>1, BlockTypes, HeapTypes DEF Addr
  <2> QED BY <2>1, <2>2, <2>3
<1>1. /\ u[NULL] = 0 /\ v[NULL] = 0
      /\ \A x \in Blocos(h) :
           /\ u[x] = (IF h.livre[x] THEN 0 ELSE 2 + h.tamanho[x]) + u[h.proximo[x]]
           /\ v[x] = (IF h.livre[x] THEN h.tamanho[x] ELSE 0) + v[h.proximo[x]]
  BY <1>0 DEF Passeio
<1>2. SUFFICES ASSUME T # {}
               PROVE  FALSE
  <2>1. Limite - a \in Nat
    BY <1>0
  <2>2. ~Certo(a) => Limite - a \in T
    BY <2>1
  <2>3. T = {} => Certo(a)
    BY <2>2
  <2> HIDE DEF T
  <2> QED BY <1>2, <2>3
<1>3. PICK m \in T : \A n \in T : m <= n
  <2>1. T \subseteq Nat
    OBVIOUS
  <2> HIDE DEF T
  <2> QED BY <1>2, <2>1, LeastOne
<1>4. PICK x \in Blocos(h) : m = Limite - x /\ ~Certo(x)
  BY <1>3
<1>5. PICK c : c = Cardinality(LivresDesde(h, x)) /\ c \in Nat
  BY LivresAre
<1>6. CASE x = h.fim
  <2>1. h.proximo[x] = NULL /\ Fim(h, x) = topo /\ c = IF h.livre[x] THEN 1 ELSE 0
    BY <1>0, <1>5, <1>6, LivresAre DEF Linked, Tiles
  <2>2. Certo(x)
    <3>1. /\ u[x] = (IF h.livre[x] THEN 0 ELSE 2 + h.tamanho[x]) + 0
          /\ v[x] = (IF h.livre[x] THEN h.tamanho[x] ELSE 0) + 0
      BY <1>1, <2>1
    <3>2. h.tamanho[x] \in Nat /\ topo = x + 2 + h.tamanho[x] /\ x \in Nat
      BY <1>0, <2>1
    <3>3. u[x] \in Nat /\ v[x] \in Nat /\ u[x] + v[x] + 2 * c = topo - x
      BY ONLY <1>5, <2>1, <3>1, <3>2
    <3> QED BY <1>5, <3>3
  <2> QED BY <1>4, <2>2
<1>7. CASE x # h.fim
  <2>1. PICK y : y = h.proximo[x] /\ y \in Blocos(h) /\ y = Fim(h, x)
    BY <1>0, <1>7 DEF Linked, Tiles
  <2>2. y \in Nat /\ x \in Nat /\ y = x + 2 + h.tamanho[x] /\ y <= Limite /\ h.tamanho[x] \in Nat
    BY <1>0, <2>1
  <2>3. Certo(y)
    <3>1. Limite - y \in Nat /\ ~(m <= Limite - y)
      BY <1>0, <1>4, <2>2
    <3>2. Limite - y \notin T
      BY <1>3, <3>1
    <3> QED BY <2>1, <3>1, <3>2
  <2>4. PICK d : d = Cardinality(LivresDesde(h, y)) /\ d \in Nat
    BY <2>1, LivresAre
  <2>5. c = d + IF h.livre[x] THEN 1 ELSE 0
    BY <1>5, <1>7, <2>1, <2>4, LivresAre
  <2>6. Certo(x)
    <3>0. topo \in Nat
      BY <1>0
    <3>1. u[y] \in Nat /\ v[y] \in Nat /\ u[y] + v[y] + 2 * d = topo - y
      BY <2>3, <2>4
    <3>2. /\ u[x] = (IF h.livre[x] THEN 0 ELSE 2 + h.tamanho[x]) + u[y]
          /\ v[x] = (IF h.livre[x] THEN h.tamanho[x] ELSE 0) + v[y]
      BY <1>1, <2>1
    <3>3. u[x] \in Nat /\ v[x] \in Nat /\ u[x] + v[x] + 2 * c = topo - x
      BY ONLY <1>5, <2>2, <2>4, <2>5, <3>1, <3>2, <3>0
    <3> QED BY <1>5, <3>3
  <2> QED BY <1>4, <2>6
<1> QED BY <1>6, <1>7

-----------------------------------------------------------------------------
(* The inductive invariant *)

KInv ==
  /\ WellFormed(heap, heap_atual)
  /\ Coalesced
  /\ heap_atual \in Addr /\ heap_mapeado_fim \in Addr /\ iniciado \in BOOLEAN
  /\ HEAP_START_SAFE <= heap_atual /\ heap_atual <= heap_mapeado_fim
  /\ ~iniciado => heap = HeapVazio /\ heap_atual = HEAP_START_SAFE

LEMMA VazioIsWellFormed ==
  /\ WellFormed(HeapVazio, HEAP_START_SAFE)
  /\ Blocos(HeapVazio) = {}
  /\ InUse(HeapVazio) = {}
<1> DEFINE v == HeapVazio
<1>1. NULL \in Addr /\ 0 \in Nat
  BY LimiteIsNat DEF Addr
<1>2. /\ v.tamanho = [a \in Addr |-> 0] /\ v.inicio = NULL /\ v.fim = NULL
  BY DEF HeapVazio
<1>3. v \in Heaps
  BY <1>1 DEF HeapVazio, Heaps
<1> HIDE DEF v
<1>4. Blocos(v) = {}
  BY <1>2 DEF Blocos
<1> QED BY <1>2, <1>3, <1>4 DEF v, WellFormed, Bounded, Linked, Tiles, InUse


LEMMA InitStep ==
  ASSUME KmInit
  PROVE  KInv /\ Promise!Init
<1>1. KInv
  <2>1. HEAP_START_SAFE \in Addr
    BY LimiteIsNat DEF Addr
  <2>2. heap = HeapVazio /\ heap_atual = HEAP_START_SAFE /\ heap_mapeado_fim = HEAP_START_SAFE /\ iniciado = FALSE
    BY DEF KmInit
  <2>3. WellFormed(heap, heap_atual) /\ Coalesced
    BY <2>2, VazioIsWellFormed DEF Coalesced
  <2>4. iniciado \in BOOLEAN
    BY <2>2, Zenon
  <2>5. HEAP_START_SAFE <= heap_atual /\ heap_atual <= heap_mapeado_fim
    BY <2>2
  <2> QED BY <2>1, <2>2, <2>3, <2>4, <2>5, Zenon DEF KInv
<1>2. Promise!Init
  BY VazioIsWellFormed DEF KmInit, Promise!Init, EmUso
<1> QED BY <1>1, <1>2

(* The mapped part of the heap grows. *)
LEMMA PaginasGrow ==
  ASSUME heap_mapeado_fim \in Addr, NEW fim \in Addr, Paginas(fim)
  PROVE  heap_mapeado_fim <= fim /\ fim \in Nat /\ fim <= Limite
<1>1. PICK n \in 0..MaxPages : fim = heap_mapeado_fim + n * PAGE_SIZE
  BY DEF Paginas
<1>2. n * PAGE_SIZE \in Nat
  BY <1>1
<1> QED BY <1>1, <1>2, LimiteIsNat DEF Addr

LEMMA HeapInitStep ==
  ASSUME KInv, HeapInit
  PROVE  KInv' /\ Promise!Grow
<1>1. heap = HeapVazio /\ heap_atual = HEAP_START_SAFE /\ iniciado' = TRUE
  BY DEF KInv, HeapInit
<1>2. PICK fim \in Addr :
        /\ heap_mapeado_fim' = fim
        /\ \/ /\ Expande(PAGE_SIZE, fim)
              /\ heap' = Acrescenta(HeapVazio, HEAP_START_SAFE, PAGE_SIZE - HEADER, TRUE)
              /\ heap_atual' = HEAP_START_SAFE + PAGE_SIZE
           \/ /\ NaoExpande(PAGE_SIZE, fim)
              /\ UNCHANGED <<heap, heap_atual>>
  BY DEF HeapInit
<1>3. heap_mapeado_fim <= fim /\ fim \in Nat /\ fim <= Limite
  BY <1>2, PaginasGrow DEF KInv, Expande, NaoExpande
<1>4. CASE heap' = Acrescenta(HeapVazio, HEAP_START_SAFE, PAGE_SIZE - HEADER, TRUE)
           /\ heap_atual' = HEAP_START_SAFE + PAGE_SIZE /\ Expande(PAGE_SIZE, fim)
  <2> DEFINE n == PAGE_SIZE - HEADER
             g == Acrescenta(HeapVazio, HEAP_START_SAFE, n, TRUE)
  <2>1. HEAP_START_SAFE + PAGE_SIZE <= fim
    BY <1>1, <1>3, <1>4 DEF Expande, Basta
  <2>2. HEAP_START_SAFE + PAGE_SIZE \in Addr /\ HEAP_START_SAFE \in Addr
    BY <1>3, <2>1, LimiteIsNat DEF Addr
  <2>3. n \in Nat /\ n > 0 /\ HEAP_START_SAFE + HEADER + n = HEAP_START_SAFE + PAGE_SIZE
    OBVIOUS
  <2>4. WellFormed(g, HEAP_START_SAFE + PAGE_SIZE) /\ Blocos(g) = {HEAP_START_SAFE}
    <3> HIDE DEF n
    <3>0. HEAP_START_SAFE + HEADER + n \in Addr /\ HEAP_START_SAFE >= HEAP_START_SAFE /\ TRUE \in BOOLEAN
      BY <2>2, <2>3
    <3>1. /\ WellFormed(g, HEAP_START_SAFE + HEADER + n)
          /\ Blocos(g) = Blocos(HeapVazio) \union {HEAP_START_SAFE}
      BY <2>2, <2>3, <3>0, VazioIsWellFormed, AcrescentaKeeps, Zenon
    <3> QED BY <2>3, <3>1, VazioIsWellFormed
  <2>5. g.fim = HEAP_START_SAFE /\ g.livre[HEAP_START_SAFE]
    BY <2>2 DEF Acrescenta, HeapVazio
  <2> HIDE DEF g
  <2>6. g.proximo[HEAP_START_SAFE] = NULL
    BY <2>4, <2>5 DEF WellFormed, Linked
  <2>7. \A x \in Blocos(g) : ~Fragmented(g, x)
    BY <2>4, <2>6 DEF Fragmented
  <2>8. InUse(g) = {}
    BY <2>4, <2>5 DEF InUse
  <2>9. heap' = g
    BY <1>4 DEF g
  <2>10. KInv'
    <3>1. WellFormed(heap', heap_atual') /\ Coalesced'
      BY <1>4, <2>4, <2>7, <2>9 DEF Coalesced
    <3>2. heap_atual' \in Addr /\ HEAP_START_SAFE <= heap_atual' /\ heap_atual' <= heap_mapeado_fim'
      BY <1>2, <1>4, <2>1, <2>2
    <3> QED BY <1>1, <1>2, <3>1, <3>2 DEF KInv
  <2>11. Promise!Grow
    BY <1>1, <1>2, <1>3, <2>8, <2>9, VazioIsWellFormed DEF Promise!Grow, EmUso
  <2> QED BY <2>10, <2>11
<1>5. CASE UNCHANGED <<heap, heap_atual>>
  <2>1. KInv'
    BY <1>1, <1>2, <1>3, <1>5, LimiteIsNat DEF KInv, Coalesced, Addr
  <2>2. Promise!Grow
    BY <1>2, <1>3, <1>5 DEF Promise!Grow, EmUso
  <2> QED BY <2>1, <2>2
<1> QED BY <1>2, <1>4, <1>5

LEMMA EncontraStep ==
  ASSUME KInv, NEW bytes \in Requests, KmallocEncontra(bytes)
  PROVE  KInv' /\ Promise!Allocate /\ Atende(bytes)
<1> DEFINE n == Alinhar(bytes)
<1>0. /\ WellFormed(heap, heap_atual) /\ heap_atual \in Addr /\ heap_mapeado_fim \in Addr
      /\ \A x \in Blocos(heap) : ~Fragmented(heap, x)
      /\ heap_atual <= heap_mapeado_fim /\ iniciado
  BY DEF KInv, Coalesced, KmallocEncontra
<1>1. n \in Nat /\ n > 0
  BY AlinharIsPositive DEF KmallocEncontra
<1>2. PICK a \in Blocos(heap) :
        /\ heap.livre[a] /\ heap.tamanho[a] >= n
        /\ heap' = IF heap.tamanho[a] >= n + HEADER + MINIMO
                   THEN Divide(heap, a, n) ELSE Rotula(heap, a, FALSE)
  BY DEF KmallocEncontra, PrimeiroQueCabe, Cabe
<1>3. UNCHANGED <<heap_atual, heap_mapeado_fim, iniciado>>
  BY DEF KmallocEncontra
<1> HIDE DEF n
<1>4. a \in Nat /\ heap.tamanho[a] \in Nat /\ heap.tamanho[a] > 0
  BY <1>0, BlockTypes DEF WellFormed
<1> DEFINE Dado(k) == /\ k \in Nat /\ k > 0 /\ k <= heap.tamanho[a] /\ k >= n
                      /\ WellFormed(heap', heap_atual)
                      /\ InUse(heap') = InUse(heap) \union {<<a + HEADER, k>>}
                      /\ \A x \in Blocos(heap') : ~Fragmented(heap', x)
<1>5. PICK k : Dado(k)
  <2>1. CASE heap.tamanho[a] >= n + HEADER + MINIMO
    <3>1. /\ WellFormed(heap', heap_atual)
          /\ InUse(heap') = InUse(heap) \union {<<a + HEADER, n>>}
          /\ \A x \in Blocos(heap') : ~Fragmented(heap', x)
      BY <1>0, <1>1, <1>2, <2>1, DivideKeeps, DivideGives
    <3>2. n \in Nat /\ n > 0 /\ n <= heap.tamanho[a] /\ n >= n
      BY <1>1, <1>2, <1>4
    <3>3. Dado(n)
      BY <3>1, <3>2, Zenon
    <3> HIDE DEF Dado
    <3> QED BY <3>3
  <2>2. CASE ~(heap.tamanho[a] >= n + HEADER + MINIMO)
    <3>1. /\ WellFormed(heap', heap_atual)
          /\ InUse(heap') = InUse(heap) \union {<<a + HEADER, heap.tamanho[a]>>}
          /\ \A x \in Blocos(heap') : ~Fragmented(heap', x)
      BY <1>0, <1>2, <2>2, MarcaKeeps, MarcaGives
    <3>2. heap.tamanho[a] <= heap.tamanho[a] /\ heap.tamanho[a] >= n
      BY <1>1, <1>2, <1>4
    <3>3. Dado(heap.tamanho[a])
      BY <1>4, <3>1, <3>2, Zenon
    <3> HIDE DEF Dado
    <3> QED BY <3>3
  <2> QED BY <2>1, <2>2
<1>6. KInv'
  BY <1>0, <1>3, <1>5 DEF KInv, Coalesced
<1>7. /\ <<a + HEADER, k>> \notin InUse(heap)
      /\ \A s \in InUse(heap) : Promise!Disjoint(<<a + HEADER, k>>, s)
      /\ a + HEADER + k <= heap_atual
  BY <1>0, <1>2, <1>5, FreeIsDisjoint
<1>8. Promise!Allocate
  <2> DEFINE r == <<a + HEADER, k>>
  <2>1. r \in Nat \X Nat /\ r[2] = k /\ r[1] = a + HEADER
    BY <1>4, <1>5
  <2>2. heap_atual \in Nat /\ heap_mapeado_fim \in Nat
    BY <1>0, LimiteIsNat DEF Addr
  <2>3. r[1] + r[2] <= heap_mapeado_fim'
    BY <1>0, <1>3, <1>4, <1>7, <2>1, <2>2
  <2> HIDE DEF r
  <2>4. r \in InUse(heap') \ InUse(heap) /\ r[2] > 0 /\ InUse(heap') = InUse(heap) \union {r}
        /\ \A s \in InUse(heap) : Promise!Disjoint(r, s)
    BY <1>5, <1>7, <2>1 DEF r
  <2> QED BY <1>3, <2>1, <2>2, <2>3, <2>4 DEF Promise!Allocate, EmUso
<1>9. Atende(bytes)
  <2> DEFINE r == <<a + HEADER, k>>
  <2>1. 16 * k >= bytes
    BY <1>5, AlinharIsEnough DEF n
  <2>2. r \in InUse(heap') \ InUse(heap) /\ r[2] = k
    BY <1>5, <1>7
  <2> HIDE DEF r
  <2> QED BY <2>1, <2>2 DEF Atende, EmUso
<1> QED BY <1>6, <1>8, <1>9

LEMMA ExpandeStep ==
  ASSUME KInv, NEW bytes \in Requests, KmallocExpande(bytes)
  PROVE  KInv' /\ Promise!Allocate /\ Atende(bytes)
<1> DEFINE n == Alinhar(bytes)
<1>0. /\ WellFormed(heap, heap_atual) /\ heap_atual \in Addr /\ heap_mapeado_fim \in Addr
      /\ \A x \in Blocos(heap) : ~Fragmented(heap, x)
      /\ heap_atual <= heap_mapeado_fim /\ iniciado /\ HEAP_START_SAFE <= heap_atual
  BY DEF KInv, Coalesced, KmallocExpande
<1>1. n \in Nat /\ n > 0
  BY AlinharIsPositive DEF KmallocExpande
<1>2. /\ heap' = Acrescenta(heap, heap_atual, n, FALSE)
      /\ heap_atual' = heap_atual + HEADER + n
      /\ UNCHANGED iniciado
  BY DEF KmallocExpande
<1>3. PICK fim \in Addr : Expande(HEADER + n, fim) /\ heap_mapeado_fim' = fim
  BY DEF KmallocExpande
<1> HIDE DEF n
<1>4. heap_mapeado_fim <= fim /\ fim \in Nat /\ fim <= Limite /\ heap_atual \in Nat /\ heap_mapeado_fim \in Nat
  BY <1>0, <1>3, PaginasGrow, LimiteIsNat DEF Expande, Addr
<1>5. heap_atual + HEADER + n < fim
  BY <1>1, <1>3, <1>4 DEF Expande, Basta
<1>6. heap_atual + HEADER + n \in Addr
  BY <1>1, <1>4, <1>5, LimiteIsNat DEF Addr
<1>7. /\ WellFormed(heap', heap_atual')
      /\ InUse(heap') = InUse(heap) \union {<<heap_atual + HEADER, n>>}
      /\ \A x \in Blocos(heap') : ~Fragmented(heap', x)
  <2>1. FALSE \in BOOLEAN /\ heap_atual >= HEAP_START_SAFE
    BY <1>0, <1>4
  <2>2. WellFormed(heap', heap_atual')
    BY <1>0, <1>1, <1>2, <1>6, <2>1, AcrescentaKeeps, Zenon
  <2> QED BY <1>0, <1>1, <1>2, <1>6, <2>1, <2>2, AcrescentaGives
<1>8. KInv'
  <2>1. Coalesced'
    BY <1>7 DEF Coalesced
  <2>2. HEAP_START_SAFE <= heap_atual' /\ heap_atual' <= heap_mapeado_fim'
    BY <1>0, <1>1, <1>2, <1>3, <1>4, <1>5
  <2> QED BY <1>0, <1>2, <1>3, <1>6, <1>7, <2>1, <2>2 DEF KInv
<1>9. Promise!Allocate
  <2> DEFINE r == <<heap_atual + HEADER, n>>
  <2>1. r \in Nat \X Nat /\ r[2] = n /\ r[1] = heap_atual + HEADER
    BY <1>1, <1>4
  <2>2. /\ r \notin InUse(heap)
        /\ \A s \in InUse(heap) : Promise!Disjoint(r, s)
    BY <1>0, <1>1, TopIsDisjoint
  <2> HIDE DEF r
  <2>3. r[1] + r[2] <= heap_mapeado_fim' /\ heap_mapeado_fim' \in Nat /\ heap_mapeado_fim' >= heap_mapeado_fim
    BY <1>1, <1>3, <1>4, <1>5, <2>1
  <2>4. r \in InUse(heap') \ InUse(heap) /\ r[2] > 0 /\ InUse(heap') = InUse(heap) \union {r}
    BY <1>1, <1>7, <2>1, <2>2 DEF r
  <2> QED BY <2>1, <2>2, <2>3, <2>4 DEF Promise!Allocate, EmUso
<1>10. Atende(bytes)
  <2> DEFINE r == <<heap_atual + HEADER, n>>
  <2>1. 16 * n >= bytes
    BY <1>1, AlinharIsEnough DEF n
  <2>2. r \in InUse(heap') \ InUse(heap) /\ r[2] = n
    BY <1>0, <1>1, <1>7, TopIsDisjoint
  <2> HIDE DEF r
  <2> QED BY <2>1, <2>2 DEF Atende, EmUso
<1> QED BY <1>8, <1>9, <1>10

LEMMA FalhaStep ==
  ASSUME KInv, NEW bytes \in Requests, KmallocFalha(bytes)
  PROVE  KInv' /\ Promise!Grow
<1>1. PICK fim \in Addr : NaoExpande(HEADER + Alinhar(bytes), fim) /\ heap_mapeado_fim' = fim
  BY DEF KmallocFalha
<1>2. UNCHANGED <<heap, heap_atual, iniciado>> /\ iniciado
  BY DEF KmallocFalha
<1>3. heap_mapeado_fim <= fim /\ fim \in Nat /\ fim <= Limite
  BY <1>1, PaginasGrow DEF KInv, NaoExpande
<1>4. KInv'
  BY <1>1, <1>2, <1>3, LimiteIsNat DEF KInv, Coalesced, Addr
<1> QED BY <1>1, <1>2, <1>3, <1>4 DEF Promise!Grow, EmUso

LEMMA KfreeStep ==
  ASSUME KInv, NEW a \in Addr, Kfree(a)
  PROVE  KInv' /\ Promise!Free
<1>1. /\ a \in Blocos(heap) /\ ~heap.livre[a] /\ heap' = LiberaBloco(heap, a)
      /\ UNCHANGED <<heap_atual, heap_mapeado_fim, iniciado>>
  BY DEF Kfree
<1>2. /\ WellFormed(heap', heap_atual)
      /\ \A x \in Blocos(heap') : ~Fragmented(heap', x)
      /\ InUse(heap') = InUse(heap) \ {<<a + HEADER, heap.tamanho[a]>>}
  BY <1>1, LiberaKeeps DEF KInv, Coalesced
<1>3. iniciado
  BY <1>1, VazioIsWellFormed DEF KInv
<1>4. KInv'
  BY <1>1, <1>2, <1>3 DEF KInv, Coalesced
<1>5. <<a + HEADER, heap.tamanho[a]>> \in InUse(heap)
  BY <1>1 DEF InUse
<1> QED BY <1>1, <1>2, <1>4, <1>5 DEF Promise!Free, EmUso

(* Every step keeps the invariant and is a step of the promise. *)
LEMMA KStep ==
  ASSUME KInv, [KmNext]_kmVars
  PROVE  KInv' /\ [Promise!Next]_<<EmUso, heap_mapeado_fim>>
<1>1. CASE HeapInit
  BY <1>1, HeapInitStep DEF Promise!Next
<1>2. CASE \E bytes \in Requests : KmallocEncontra(bytes) \/ KmallocExpande(bytes) \/ KmallocFalha(bytes)
  BY <1>2, EncontraStep, ExpandeStep, FalhaStep DEF Promise!Next
<1>3. CASE \E a \in Addr : Kfree(a)
  BY <1>3, KfreeStep DEF Promise!Next
<1>4. CASE UNCHANGED kmVars
  BY <1>4 DEF kmVars, KInv, Coalesced, EmUso
<1> QED BY <1>1, <1>2, <1>3, <1>4 DEF KmNext

-----------------------------------------------------------------------------
(* The heap's invariant holds for every page size, any amount of memory and any
   requests. *)
THEOREM HeapCorrect == KmSpec => []KInv
<1>1. KmInit => KInv
  BY InitStep
<1>2. KInv /\ [KmNext]_kmVars => KInv'
  BY KStep
<1> QED BY <1>1, <1>2, PTL DEF KmSpec

(* Every header and every pointer of the list stays inside the mapped heap
   (kmalloc.c:63-145). *)
THEOREM HeapTypeCorrect == KmSpec => []KmTypeOK
<1>1. KInv => KmTypeOK
  BY DEF KInv, WellFormed, KmTypeOK
<1> QED BY <1>1, HeapCorrect, PTL

(* Splitting, coalescing and growing keep the list doubly linked
   (kmalloc.c:78-85, 102-109, 127-141). *)
THEOREM ListStaysLinked == KmSpec => []DoublyLinked
<1>1. KInv => DoublyLinked
  BY DEF KInv, WellFormed, DoublyLinked
<1> QED BY <1>1, HeapCorrect, PTL

(* No memory of the heap is lost and no block overlaps another (kmalloc.c:74-86,
   124-143). *)
THEOREM BlocksTileTheHeap == KmSpec => []Tiled
<1>1. KInv => Tiled
  BY DEF KInv, WellFormed, Tiled
<1> QED BY <1>1, HeapCorrect, PTL

(* There are never two free blocks side by side (kmalloc.c:123-143). *)
THEOREM FreeBlocksAreMerged == KmSpec => []Coalesced
<1>1. KInv => Coalesced
  BY DEF KInv
<1> QED BY <1>1, HeapCorrect, PTL

(* kmalloc.c implements the promise of HeapSpec: what it gives out is mapped and
   overlaps nothing in use, and only kfree takes a region back. *)
THEOREM HeapKeepsItsPromise == KmSpec => KeepsPromise
<1>1. KmInit => Promise!Init
  BY InitStep
<1>2. KInv /\ [KmNext]_kmVars => [Promise!Next]_<<EmUso, heap_mapeado_fim>>
  BY KStep
<1> QED BY <1>1, <1>2, HeapCorrect, PTL DEF KmSpec, KeepsPromise, Promise!Spec, Promise!abstractVars

(* Whatever was split, merged and grown before, what kmalloc returns is a region that
   nobody held and that is as long as what was asked for (kmalloc.c:61-110). *)
THEOREM RequestsGetEnough == KmSpec => LargeEnough
<1>1. KInv => \A bytes \in Requests : KmallocEncontra(bytes) \/ KmallocExpande(bytes) => Atende(bytes)
  BY EncontraStep, ExpandeStep
<1>2. KInv => [\A bytes \in Requests :
                 KmallocEncontra(bytes) \/ KmallocExpande(bytes)
                   => \E r \in EmUso' \ EmUso : 16 * r[2] >= bytes]_kmVars
  BY <1>1 DEF Atende
<1> QED BY <1>2, HeapCorrect, PTL DEF LargeEnough

(* kmalloc_stats accounts for every unit of the mapped memory, whatever was split,
   merged and grown before: in use, free, the header of a free block, or mapped
   beyond the last block (kmalloc.c:147-160). *)
THEOREM MemoryIsAccountedFor == KmSpec => []StatsAddUp
<1>1. KInv => StatsAddUp
  <2> SUFFICES ASSUME KInv
               PROVE  StatsAddUp
    OBVIOUS
  <2>1. /\ WellFormed(heap, heap_atual) /\ heap_atual \in Addr /\ Tiles(heap, heap_atual)
        /\ heap_atual \in Nat /\ heap_mapeado_fim \in Nat
        /\ HEAP_START_SAFE <= heap_atual /\ heap_atual <= heap_mapeado_fim
    BY LimiteIsNat DEF KInv, WellFormed, Addr
  <2>2. PICK p : p = [a \in Blocos(heap) |-> IF heap.livre[a] THEN 0 ELSE HEADER + heap.tamanho[a]]
    OBVIOUS
  <2>3. PICK q : q = [a \in Blocos(heap) |-> IF heap.livre[a] THEN heap.tamanho[a] ELSE 0]
    OBVIOUS
  <2>4. PICK u : Anda(heap, p) = u[heap.inicio] /\ Passeio(heap, p, u, Blocos(heap) \cup {NULL})
    BY <2>1, AndaIs
  <2>5. PICK v : Anda(heap, q) = v[heap.inicio] /\ Passeio(heap, q, v, Blocos(heap) \cup {NULL})
    BY <2>1, AndaIs
  <2>6. PICK c : c = Cardinality({a \in Blocos(heap) : heap.livre[a]})
    OBVIOUS
  <2>7. /\ u[heap.inicio] \in Nat /\ v[heap.inicio] \in Nat /\ c \in Nat
        /\ u[heap.inicio] + v[heap.inicio] + 2 * c = heap_atual - HEAP_START_SAFE
    <3>1. CASE Blocos(heap) = {}
      <4>1. heap.inicio = NULL /\ heap_atual = HEAP_START_SAFE
        BY <2>1, <3>1 DEF Tiles
      <4>2. u[NULL] = 0 /\ v[NULL] = 0
        BY <2>4, <2>5 DEF Passeio
      <4>3. c = 0
        BY <2>6, <3>1, FS_EmptySet
      <4> QED BY <4>1, <4>2, <4>3
    <3>2. CASE Blocos(heap) # {}
      <4>1. heap.inicio = HEAP_START_SAFE /\ heap.inicio \in Blocos(heap)
        BY <2>1, <3>2 DEF Tiles
      <4>2. LivresDesde(heap, heap.inicio) = {a \in Blocos(heap) : heap.livre[a]}
        <5>1. \A a \in Blocos(heap) : heap.inicio <= a
          BY <2>1, <4>1 DEF WellFormed, Bounded
        <5> QED BY <5>1 DEF LivresDesde
      <4>3. c \in Nat /\ c = Cardinality(LivresDesde(heap, heap.inicio))
        BY <2>1, <2>6, <4>1, <4>2, LivresAre
      <4>4. /\ u[heap.inicio] \in Nat /\ v[heap.inicio] \in Nat
            /\ u[heap.inicio] + v[heap.inicio] + 2 * Cardinality(LivresDesde(heap, heap.inicio))
                 = heap_atual - heap.inicio
        BY <2>1, <2>2, <2>3, <2>4, <2>5, <4>1, RestoDaSoma
      <4> QED BY <4>1, <4>3, <4>4
    <3> QED BY <3>1, <3>2
  <2>8. /\ Usado(heap) = u[heap.inicio]
        /\ Livre(heap) = v[heap.inicio] + IF heap_mapeado_fim > heap_atual
                                          THEN heap_mapeado_fim - heap_atual ELSE 0
    BY <2>2, <2>3, <2>4, <2>5 DEF Usado, Livre
  <2>9. Usado(heap) + Livre(heap) + 2 * c = heap_mapeado_fim - HEAP_START_SAFE
    <3>1. PICK r : r = IF heap_mapeado_fim > heap_atual THEN heap_mapeado_fim - heap_atual ELSE 0
      OBVIOUS
    <3>2. r = heap_mapeado_fim - heap_atual
      BY <2>1, <3>1
    <3> QED BY <2>1, <2>7, <2>8, <3>1, <3>2
  <2> QED BY <2>6, <2>9 DEF StatsAddUp
<1> QED BY <1>1, HeapCorrect, PTL
=============================================================================
