--------------------------- MODULE TerminalProofs ---------------------------
(***************************************************************************)
(* Proofs about what the user types, points at and reads: Keyboard, for    *)
(* every size of the ring and any readers, Mouse, for every screen, every   *)
(* byte the mouse may send and any bytes lost, and Console, for every size *)
(* of the screen and of the line.                                          *)
(***************************************************************************)
EXTENDS Keyboard, Mouse, Console, SequenceTheorems, TLAPS

Indices == 0..(KbSize - 1)

(* How many characters lie between the two indices, and where the k-th is. *)
Quantos(h, t) == (h - t + KbSize) % KbSize
Lugar(t, k)   == (t + k - 1) % KbSize

(* What ring b holds. *)
Anel(b, h, t) == [k \in 1..Quantos(h, t) |-> b[Lugar(t, k)]]
-----------------------------------------------------------------------------
(* The arithmetic of the ring *)

LEMMA ModSmall ==
  ASSUME NEW x \in Indices
  PROVE  x % KbSize = x /\ (x + KbSize) % KbSize = x
BY KbSizeAssumption, SMT DEF Indices

LEMMA ProximoIs ==
  ASSUME NEW i \in Indices
  PROVE  Seguinte(i) = IF i = KbSize - 1 THEN 0 ELSE i + 1
<1>1. CASE i = KbSize - 1
  <2>1. (0 + KbSize) % KbSize = 0
    BY ModSmall, KbSizeAssumption DEF Indices
  <2> QED
    BY <1>1, <2>1, KbSizeAssumption DEF Seguinte
<1>2. CASE i # KbSize - 1
  <2>1. i + 1 \in Indices
    BY <1>2, KbSizeAssumption DEF Indices
  <2> QED
    BY <1>2, <2>1, ModSmall DEF Seguinte
<1> QED
  BY <1>1, <1>2

LEMMA QuantosIs ==
  ASSUME NEW h \in Indices, NEW t \in Indices
  PROVE  Quantos(h, t) = IF h >= t THEN h - t ELSE h - t + KbSize
<1>1. CASE h >= t
  <2>1. h - t \in Indices
    BY <1>1, KbSizeAssumption DEF Indices
  <2> QED
    BY <1>1, <2>1, ModSmall DEF Quantos
<1>2. CASE h < t
  <2>1. h - t + KbSize \in Indices
    BY <1>2, KbSizeAssumption DEF Indices
  <2>2. (h - t + KbSize) % KbSize = h - t + KbSize
    BY <2>1, ModSmall
  <2> QED
    BY <1>2, <2>2 DEF Quantos, Indices
<1> QED
  BY <1>1, <1>2 DEF Indices

LEMMA LugarIs ==
  ASSUME NEW t \in Indices, NEW k \in 1..KbSize
  PROVE  Lugar(t, k) = IF t + k - 1 < KbSize THEN t + k - 1 ELSE t + k - 1 - KbSize
<1>1. CASE t + k - 1 < KbSize
  <2>1. t + k - 1 \in Indices
    BY <1>1, KbSizeAssumption DEF Indices
  <2> QED
    BY <1>1, <2>1, ModSmall DEF Lugar
<1>2. CASE t + k - 1 >= KbSize
  <2> DEFINE x == t + k - 1 - KbSize
  <2>1. x \in Indices /\ t + k - 1 = x + KbSize
    BY <1>2, KbSizeAssumption DEF Indices
  <2>2. (x + KbSize) % KbSize = x
    BY <2>1, ModSmall
  <2> QED
    BY <1>2, <2>1, <2>2, KbSizeAssumption DEF Lugar, Indices
<1> QED
  BY <1>1, <1>2, KbSizeAssumption DEF Indices
-----------------------------------------------------------------------------
(* Type correctness: every index stays in the ring. *)

LEMMA KbTypeInit == KbInit => KbTypeOK
<1> SUFFICES ASSUME KbInit
             PROVE  KbTypeOK
  OBVIOUS
<1>1. Nulo \in Caracteres /\ 0 \in 0..(KbSize - 1)
  BY KbSizeAssumption DEF Nulo, Caracteres
<1>2. <<>> \in Seq(Caracteres)
  OBVIOUS
<1> QED
  BY <1>1, <1>2 DEF KbInit, KbTypeOK, Quem

LEMMA KbTypeStep == KbTypeOK /\ [KbNext]_kbVars => KbTypeOK'
<1> SUFFICES ASSUME KbTypeOK, [KbNext]_kbVars
             PROVE  KbTypeOK'
  OBVIOUS
<1> USE DEF KbTypeOK, Quem
<1>0. Seguinte(head) \in 0..(KbSize - 1) /\ Seguinte(tail) \in 0..(KbSize - 1)
  BY KbSizeAssumption, ProximoIs, SMTT(30) DEF Indices
<1>1. ASSUME NEW t \in Teclas, Aperta(t)
      PROVE  KbTypeOK'
  <2>1. [tecla |-> t, alto |-> Alto(t)] \in Caracteres
    BY DEF Caracteres, Alto
  <2>2. CASE t # "muda" /\ foco # "ninguem" /\ CabeTecla
    <3> DEFINE d == [tecla |-> t, alto |-> Alto(t)]
    <3>1. /\ buffer' = [buffer EXCEPT ![head] = d]
          /\ head' = Seguinte(head)
          /\ guardadas' = Append(guardadas, d)
          /\ UNCHANGED <<tail, shift, caps, seguras, foco, drenando, pedidos, antes, tiradas>>
      BY <1>1, <2>2 DEF Aperta
    <3> HIDE DEF d
    <3> QED
      BY <1>0, <2>1, <3>1 DEF d
  <2>3. CASE ~(t # "muda" /\ foco # "ninguem" /\ CabeTecla)
    BY <1>1, <2>3 DEF Aperta
  <2> QED
    BY <2>2, <2>3
<1>2. ASSUME NEW k \in Shifts, ApertaShift(k) \/ SoltaShift(k)
      PROVE  KbTypeOK'
  BY <1>2 DEF ApertaShift, SoltaShift
<1>3. CASE ApertaCaps
  BY <1>3 DEF ApertaCaps
<1>4. ASSUME NEW p \in Leitores, PegaTecla(p)
      PROVE  KbTypeOK'
  BY <1>0, <1>4 DEF PegaTecla, Tira
<1>5. ASSUME NEW p \in Leitores, PedeLinha(p)
      PROVE  KbTypeOK'
  BY <1>5 DEF PedeLinha
<1>6. ASSUME NEW p \in Leitores, LeLinha(p)
      PROVE  KbTypeOK'
  BY <1>0, <1>6 DEF LeLinha, Tira
<1>7. ASSUME NEW p \in Leitores, PassaFoco(p)
      PROVE  KbTypeOK'
  BY <1>7 DEF PassaFoco
<1>8. CASE Drena
  <2>1. CASE Tira
    BY <1>0, <1>8, <2>1 DEF Drena, Tira
  <2>2. CASE UNCHANGED <<tail, tiradas>>
    BY <1>8, <2>2 DEF Drena
  <2> QED
    BY <1>8, <2>1, <2>2 DEF Drena
<1>9. ASSUME NEW p \in Quem, DevolveFoco(p)
      PROVE  KbTypeOK'
  BY <1>9 DEF DevolveFoco
<1>10. CASE UNCHANGED kbVars
  BY <1>10 DEF kbVars
<1> QED
  BY <1>1, <1>2, <1>3, <1>4, <1>5, <1>6, <1>7, <1>8, <1>9, <1>10 DEF KbNext

(* The type invariant of the keyboard: the handler and its readers never      *)
(* index outside circular_buffer (keyboard.c).                                *)
THEOREM KbTypeCorrect == KbSpec => []KbTypeOK
BY KbTypeInit, KbTypeStep, PTL DEF KbSpec
-----------------------------------------------------------------------------
(* The order of typing *)

LEMMA QuantosIn ==
  ASSUME NEW h \in Indices, NEW t \in Indices
  PROVE  Quantos(h, t) \in Indices
BY QuantosIs, KbSizeAssumption DEF Indices

LEMMA LugarIn ==
  ASSUME NEW t \in Indices, NEW k \in 1..KbSize
  PROVE  Lugar(t, k) \in Indices
BY LugarIs, KbSizeAssumption DEF Indices

LEMMA AnelIs ==
  ASSUME NEW b \in [Indices -> Caracteres], NEW h \in Indices, NEW t \in Indices
  PROVE  /\ Anel(b, h, t) \in Seq(Caracteres)
         /\ Len(Anel(b, h, t)) = Quantos(h, t)
         /\ \A k \in 1..Quantos(h, t) : Anel(b, h, t)[k] = b[Lugar(t, k)]
<1>1. Quantos(h, t) \in Nat /\ Quantos(h, t) <= KbSize
  BY QuantosIn, KbSizeAssumption, SMTT(30) DEF Indices
<1>2. \A k \in 1..Quantos(h, t) : b[Lugar(t, k)] \in Caracteres
  <2> SUFFICES ASSUME NEW k \in 1..Quantos(h, t)
               PROVE  b[Lugar(t, k)] \in Caracteres
    OBVIOUS
  <2>1. k \in 1..KbSize
    BY <1>1, KbSizeAssumption
  <2> QED
    BY <2>1, LugarIn
<1> DEFINE n == Quantos(h, t)
<1>3. Anel(b, h, t) = [k \in 1..n |-> b[Lugar(t, k)]]
  BY DEF Anel
<1> HIDE DEF n
<1> QED
  BY <1>1, <1>2, <1>3 DEF n

(* The handler stores behind what is there. *)
LEMMA StoreKeepsOrder ==
  ASSUME KbTypeOK, KbTypeOK', TypedInOrder, CabeTecla, NEW d \in Caracteres,
         buffer' = [buffer EXCEPT ![head] = d],
         head' = Seguinte(head), tail' = tail,
         guardadas' = Append(guardadas, d), tiradas' = tiradas
  PROVE  TypedInOrder'
<1> DEFINE n == Quantos(head, tail)
<1>1. head \in Indices /\ tail \in Indices
  BY DEF KbTypeOK, Indices
<1>a. n = IF head >= tail THEN head - tail ELSE head - tail + KbSize
  BY <1>1, QuantosIs
<1>b. head' = (IF head = KbSize - 1 THEN 0 ELSE head + 1) /\ head' # tail /\ head' \in Indices
  BY <1>1, ProximoIs, KbSizeAssumption DEF CabeTecla, Indices
<1>2. Quantos(head', tail') = n + 1 /\ n + 1 < KbSize /\ n \in Nat
  <2>1. Quantos(head', tail) = IF head' >= tail THEN head' - tail ELSE head' - tail + KbSize
    BY <1>1, <1>b, QuantosIs
  <2> HIDE DEF n
  <2> QED
    BY <1>1, <1>a, <1>b, <2>1, KbSizeAssumption DEF Indices
<1>3. Lugar(tail, n + 1) = head
  <2> HIDE DEF n
  <2>1. n + 1 \in 1..KbSize /\ tail + (n + 1) - 1 = tail + n
    BY <1>1, <1>2, KbSizeAssumption DEF Indices
  <2> DEFINE m == n + 1
  <2>2. Lugar(tail, m) = IF tail + n < KbSize THEN tail + n ELSE tail + n - KbSize
    <3> HIDE DEF m
    <3>1. m \in 1..KbSize /\ tail + m - 1 = tail + n
      BY <2>1 DEF m
    <3>2. Lugar(tail, m) = IF tail + m - 1 < KbSize THEN tail + m - 1 ELSE tail + m - 1 - KbSize
      BY <1>1, <3>1, LugarIs
    <3> QED
      BY <1>1, <1>2, <3>1, <3>2, KbSizeAssumption DEF Indices
  <2> QED
    BY <1>1, <1>a, <2>2, KbSizeAssumption DEF Indices
<1>4. \A k \in 1..n : Lugar(tail, k) # head /\ Lugar(tail, k) \in Indices
  <2> HIDE DEF n
  <2> SUFFICES ASSUME NEW k \in 1..n
               PROVE  Lugar(tail, k) # head /\ Lugar(tail, k) \in Indices
    OBVIOUS
  <2>1. k \in 1..KbSize
    BY <1>2, KbSizeAssumption
  <2>2. Lugar(tail, k) = IF tail + k - 1 < KbSize THEN tail + k - 1 ELSE tail + k - 1 - KbSize
    BY <1>1, <2>1, LugarIs
  <2> QED
    BY <1>1, <1>2, <1>a, <2>1, <2>2, KbSizeAssumption DEF Indices
<1>5. NoAnel' = Append(NoAnel, d)
  <2>0. buffer \in [Indices -> Caracteres] /\ buffer' \in [Indices -> Caracteres]
    BY DEF KbTypeOK, Indices
  <2>1. NoAnel \in Seq(Caracteres) /\ Len(NoAnel) = n
        /\ \A k \in 1..n : NoAnel[k] = buffer[Lugar(tail, k)]
    <3>1. NoAnel = Anel(buffer, head, tail)
      BY DEF NoAnel, Anel, Quantos, Lugar
    <3> QED
      BY <1>1, <2>0, <3>1, AnelIs
  <2>2. NoAnel' \in Seq(Caracteres) /\ Len(NoAnel') = n + 1
        /\ \A k \in 1..(n + 1) : NoAnel'[k] = buffer'[Lugar(tail, k)]
    <3>1. NoAnel' = Anel(buffer', head', tail')
      BY DEF NoAnel, Anel, Quantos, Lugar
    <3> HIDE DEF n
    <3>a. buffer' \in [Indices -> Caracteres] /\ head' \in Indices /\ tail \in Indices
      BY <1>1, <1>b, <2>0
    <3>2. Anel(buffer', head', tail) \in Seq(Caracteres)
          /\ Len(Anel(buffer', head', tail)) = Quantos(head', tail)
          /\ \A k \in 1..Quantos(head', tail) : Anel(buffer', head', tail)[k] = buffer'[Lugar(tail, k)]
      BY ONLY <3>a, AnelIs
    <3> QED
      BY <1>2, <3>1, <3>2
  <2>3. Append(NoAnel, d) \in Seq(Caracteres) /\ Len(Append(NoAnel, d)) = n + 1
        /\ Append(NoAnel, d)[n + 1] = d
        /\ \A k \in 1..n : Append(NoAnel, d)[k] = NoAnel[k]
    BY <2>1, AppendProperties
  <2> HIDE DEF n
  <2>5. \A k \in 1..n : NoAnel'[k] = Append(NoAnel, d)[k]
    BY <1>1, <1>2, <1>4, <2>1, <2>2, <2>3, <2>0
  <2>6. NoAnel'[n + 1] = Append(NoAnel, d)[n + 1]
    BY <1>1, <1>2, <1>3, <2>2, <2>3, <2>0
  <2>7. \A k \in 1..Len(NoAnel') : NoAnel'[k] = Append(NoAnel, d)[k]
    <3>1. \A k \in 1..(n + 1) : k \in 1..n \/ k = n + 1
      BY <1>2
    <3> QED
      BY <2>2, <2>5, <2>6, <3>1
  <2> QED
    BY <2>2, <2>3, <2>7, SeqEqual
<1>6. Append(tiradas \o NoAnel, d) = tiradas \o Append(NoAnel, d)
  <2>1. tiradas \in Seq(Caracteres) /\ NoAnel \in Seq(Caracteres) /\ <<d>> \in Seq(Caracteres)
    <3>1. NoAnel = Anel(buffer, head, tail) /\ buffer \in [Indices -> Caracteres]
      BY DEF KbTypeOK, NoAnel, Anel, Quantos, Lugar, Indices
    <3> QED
      BY <1>1, <3>1, AnelIs DEF KbTypeOK
  <2>2. Append(NoAnel, d) = NoAnel \o <<d>>
    BY <2>1, AppendIsConcat
  <2>3. tiradas \o NoAnel \in Seq(Caracteres)
    BY <2>1, ConcatProperties
  <2>4. Append(tiradas \o NoAnel, d) = (tiradas \o NoAnel) \o <<d>>
    BY <2>3, AppendIsConcat
  <2> QED
    BY <2>1, <2>2, <2>4, ConcatAssociative
<1> QED
  BY <1>5, <1>6 DEF TypedInOrder

(* Whoever pops takes the oldest. *)
LEMMA PopKeepsOrder ==
  ASSUME KbTypeOK, KbTypeOK', TypedInOrder, Tira,
         buffer' = buffer, head' = head, guardadas' = guardadas
  PROVE  TypedInOrder'
<1> DEFINE n == Quantos(head, tail)
           e == buffer[tail]
<1>1. head \in Indices /\ tail \in Indices /\ e \in Caracteres
  BY DEF KbTypeOK, Indices
<1>2. tail' = Seguinte(tail) /\ head # tail /\ tiradas' = Append(tiradas, e)
  BY DEF Tira, Vazia
<1>a. n = IF head >= tail THEN head - tail ELSE head - tail + KbSize
  BY <1>1, QuantosIs
<1>b. tail' = (IF tail = KbSize - 1 THEN 0 ELSE tail + 1) /\ tail' \in Indices
  BY <1>1, <1>2, ProximoIs, KbSizeAssumption DEF Indices
<1>3. n \in Nat \ {0} /\ n < KbSize /\ Quantos(head', tail') = n - 1
  <2>1. Quantos(head, tail') = IF head >= tail' THEN head - tail' ELSE head - tail' + KbSize
    BY <1>1, <1>b, QuantosIs
  <2> HIDE DEF n
  <2> QED
    BY <1>1, <1>2, <1>a, <1>b, <2>1, KbSizeAssumption DEF Indices
<1>4. Lugar(tail, 1) = tail
  BY <1>1, LugarIs, KbSizeAssumption DEF Indices
<1>5. \A k \in 1..(n - 1) : Lugar(tail', k) = Lugar(tail, k + 1)
  <2> SUFFICES ASSUME NEW k \in 1..(n - 1)
               PROVE  Lugar(tail', k) = Lugar(tail, k + 1)
    OBVIOUS
  <2>2. k \in 1..KbSize /\ k + 1 \in 1..KbSize /\ tail' \in Indices
    BY <1>1, <1>3, <1>b, KbSizeAssumption DEF Indices
  <2>3. Lugar(tail', k) = IF tail' + k - 1 < KbSize THEN tail' + k - 1 ELSE tail' + k - 1 - KbSize
    BY <2>2, LugarIs
  <2>4. Lugar(tail, k + 1) = IF tail + k < KbSize THEN tail + k ELSE tail + k - KbSize
    <3>1. tail + (k + 1) - 1 = tail + k
      BY <1>1, <2>2 DEF Indices
    <3> QED
      BY <1>1, <2>2, <3>1, LugarIs
  <2> HIDE DEF n
  <2> QED
    BY <1>1, <1>3, <1>b, <2>2, <2>3, <2>4, KbSizeAssumption DEF Indices
<1>6. NoAnel = <<e>> \o NoAnel'
  <2>0. buffer \in [Indices -> Caracteres] /\ buffer' \in [Indices -> Caracteres]
    BY DEF KbTypeOK, Indices
  <2>1. NoAnel \in Seq(Caracteres) /\ Len(NoAnel) = n
        /\ \A k \in 1..n : NoAnel[k] = buffer[Lugar(tail, k)]
    <3>1. NoAnel = Anel(buffer, head, tail)
      BY DEF NoAnel, Anel, Quantos, Lugar
    <3> QED
      BY <1>1, <2>0, <3>1, AnelIs
  <2>2. NoAnel' \in Seq(Caracteres) /\ Len(NoAnel') = n - 1
        /\ \A k \in 1..(n - 1) : NoAnel'[k] = buffer[Lugar(tail', k)]
    <3>1. NoAnel' = Anel(buffer, head, tail')
      BY DEF NoAnel, Anel, Quantos, Lugar
    <3> HIDE DEF n
    <3>2. Anel(buffer, head, tail') \in Seq(Caracteres)
          /\ Len(Anel(buffer, head, tail')) = Quantos(head, tail')
          /\ \A k \in 1..Quantos(head, tail') : Anel(buffer, head, tail')[k] = buffer[Lugar(tail', k)]
      BY <1>1, <1>b, <2>0, AnelIs
    <3> QED
      BY <1>3, <3>1, <3>2
  <2>3. <<e>> \in Seq(Caracteres) /\ Len(<<e>>) = 1 /\ <<e>>[1] = e
    BY <1>1
  <2> HIDE DEF n, e
  <2>4. /\ <<e>> \o NoAnel' \in Seq(Caracteres)
        /\ Len(<<e>> \o NoAnel') = n
        /\ \A k \in 1..n : (<<e>> \o NoAnel')[k] = IF k <= 1 THEN e ELSE NoAnel'[k - 1]
    <3>1. /\ <<e>> \o NoAnel' \in Seq(Caracteres)
          /\ Len(<<e>> \o NoAnel') = 1 + (n - 1)
          /\ \A k \in 1..(1 + (n - 1)) :
               (<<e>> \o NoAnel')[k] = IF k <= 1 THEN <<e>>[k] ELSE NoAnel'[k - 1]
      BY <2>2, <2>3, ConcatProperties
    <3> QED
      BY <1>3, <2>3, <3>1
  <2>5. \A k \in 1..n : NoAnel[k] = (<<e>> \o NoAnel')[k]
    <3> SUFFICES ASSUME NEW k \in 1..n
                 PROVE  NoAnel[k] = (<<e>> \o NoAnel')[k]
      OBVIOUS
    <3>1. CASE k = 1
      BY <1>3, <1>4, <2>1, <2>4, <3>1 DEF e
    <3>2. CASE k # 1
      <4>1. k - 1 \in 1..(n - 1) /\ (k - 1) + 1 = k /\ ~(k <= 1)
        BY <1>3, <3>2
      <4>2. NoAnel'[k - 1] = buffer[Lugar(tail, k)]
        BY <1>5, <2>2, <4>1
      <4> QED
        BY <2>1, <2>4, <4>1, <4>2
    <3> QED
      BY <3>1, <3>2
  <2> QED
    BY <2>1, <2>4, <2>5, SeqEqual
<1>7. Append(tiradas, e) \o NoAnel' = tiradas \o (<<e>> \o NoAnel')
  <2>1. tiradas \in Seq(Caracteres) /\ NoAnel' \in Seq(Caracteres) /\ <<e>> \in Seq(Caracteres)
    <3>1. NoAnel' = Anel(buffer, head, tail') /\ buffer \in [Indices -> Caracteres]
      BY DEF KbTypeOK, NoAnel, Anel, Quantos, Lugar, Indices
    <3>2. Anel(buffer, head, tail') \in Seq(Caracteres)
      BY <1>1, <1>b, <3>1, AnelIs
    <3> QED
      BY <1>1, <3>1, <3>2 DEF KbTypeOK
  <2>2. Append(tiradas, e) = tiradas \o <<e>>
    BY <1>1, <2>1, AppendIsConcat
  <2> QED
    BY <2>1, <2>2, ConcatAssociative
<1> QED
  BY <1>2, <1>6, <1>7 DEF TypedInOrder

LEMMA OrderInit == KbInit => TypedInOrder
<1> SUFFICES ASSUME KbInit
             PROVE  TypedInOrder
  OBVIOUS
<1>1. KbTypeOK
  BY KbTypeInit
<1>2. Quantos(head, tail) = 0
  BY QuantosIs, KbSizeAssumption DEF KbInit, Indices
<1>3. NoAnel = <<>>
  BY <1>2 DEF NoAnel, Quantos
<1> QED
  BY <1>3 DEF KbInit, TypedInOrder

LEMMA OrderStep == KbTypeOK /\ TypedInOrder /\ [KbNext]_kbVars => TypedInOrder'
<1> SUFFICES ASSUME KbTypeOK, TypedInOrder, [KbNext]_kbVars
             PROVE  TypedInOrder'
  OBVIOUS
<1>0. KbTypeOK'
  BY KbTypeStep
<1> DEFINE Quieto == UNCHANGED <<buffer, head, tail, guardadas, tiradas>>
<1>q. ASSUME Quieto
      PROVE  TypedInOrder'
  BY <1>q DEF TypedInOrder, NoAnel
<1>1. ASSUME NEW t \in Teclas, Aperta(t)
      PROVE  TypedInOrder'
  <2>1. [tecla |-> t, alto |-> Alto(t)] \in Caracteres
    BY DEF Caracteres, Alto, KbTypeOK
  <2>2. CASE t # "muda" /\ foco # "ninguem" /\ CabeTecla
    <3> DEFINE d == [tecla |-> t, alto |-> Alto(t)]
    <3>1. /\ buffer' = [buffer EXCEPT ![head] = d]
          /\ head' = Seguinte(head) /\ tail' = tail
          /\ guardadas' = Append(guardadas, d) /\ tiradas' = tiradas
      BY <1>1, <2>2 DEF Aperta
    <3> HIDE DEF d
    <3> QED
      BY <1>0, <2>1, <2>2, <3>1, StoreKeepsOrder DEF d
  <2>3. CASE ~(t # "muda" /\ foco # "ninguem" /\ CabeTecla)
    BY <1>1, <1>q, <2>3 DEF Aperta
  <2> QED
    BY <2>2, <2>3
<1>2. ASSUME NEW k \in Shifts, ApertaShift(k) \/ SoltaShift(k)
      PROVE  TypedInOrder'
  BY <1>2, <1>q DEF ApertaShift, SoltaShift
<1>3. CASE ApertaCaps
  BY <1>3, <1>q DEF ApertaCaps
<1>4. ASSUME NEW p \in Leitores, PegaTecla(p) \/ LeLinha(p)
      PROVE  TypedInOrder'
  BY <1>0, <1>4, PopKeepsOrder DEF PegaTecla, LeLinha
<1>5. ASSUME NEW p \in Leitores, PedeLinha(p) \/ PassaFoco(p)
      PROVE  TypedInOrder'
  BY <1>5, <1>q DEF PedeLinha, PassaFoco
<1>6. CASE Drena
  <2>1. CASE Tira
    BY <1>0, <1>6, <2>1, PopKeepsOrder DEF Drena
  <2>2. CASE UNCHANGED <<tail, tiradas>>
    BY <1>6, <1>q, <2>2 DEF Drena
  <2> QED
    BY <1>6, <2>1, <2>2 DEF Drena
<1>7. ASSUME NEW p \in Quem, DevolveFoco(p)
      PROVE  TypedInOrder'
  BY <1>7, <1>q DEF DevolveFoco
<1>8. CASE UNCHANGED kbVars
  BY <1>8, <1>q DEF kbVars
<1> QED
  BY <1>1, <1>2, <1>3, <1>4, <1>5, <1>6, <1>7, <1>8 DEF KbNext

(* Whatever the size of the ring and however handler, readers and the drain   *)
(* for a new child interleave, a stored character is popped once, in the      *)
(* order of typing, or is still in the ring (keyboard.c:112-138).             *)
THEOREM KeysStayInOrder == KbSpec => []TypedInOrder
BY KbTypeInit, KbTypeStep, OrderInit, OrderStep, PTL DEF KbSpec
-----------------------------------------------------------------------------
(* The hand-over of the focus *)

(* The keys counted at the hand-over had been stored. *)
AntesInv == antes <= Len(guardadas)

LEMMA AntesStep == KbTypeOK /\ AntesInv /\ [KbNext]_kbVars => AntesInv'
<1> SUFFICES ASSUME KbTypeOK, AntesInv, [KbNext]_kbVars
             PROVE  AntesInv'
  OBVIOUS
<1> USE DEF AntesInv, KbTypeOK
<1>0. antes \in Nat /\ guardadas \in Seq(Caracteres) /\ Len(guardadas) \in Nat
  BY LenProperties
<1>1. ASSUME NEW t \in Teclas, Aperta(t)
      PROVE  AntesInv'
  <2>1. /\ antes' = antes
        /\ \/ guardadas' = guardadas
           \/ guardadas' = Append(guardadas, [tecla |-> t, alto |-> Alto(t)])
    BY <1>1 DEF Aperta
  <2>2. \A e : Len(Append(guardadas, e)) = Len(guardadas) + 1
    BY <1>0
  <2>3. Len(guardadas') = Len(guardadas) \/ Len(guardadas') = Len(guardadas) + 1
    BY <2>1, <2>2
  <2> QED
    BY <1>0, <2>1, <2>3
<1>2. ASSUME NEW p \in Leitores, PassaFoco(p)
      PROVE  AntesInv'
  BY <1>0, <1>2 DEF PassaFoco
<1>3. CASE UNCHANGED <<antes, guardadas>>
  BY <1>3
<1> QED
  BY <1>1, <1>2, <1>3
  DEF KbNext, ApertaShift, SoltaShift, ApertaCaps, PegaTecla, PedeLinha, LeLinha, Drena,
      DevolveFoco, kbVars

(* An empty ring has been emptied of all that was stored. *)
LEMMA VaziaIs ==
  ASSUME KbTypeOK, TypedInOrder, Vazia
  PROVE  tiradas = guardadas
<1>1. head \in Indices /\ tail = head
  BY DEF KbTypeOK, Indices, Vazia
<1>2. Quantos(head, tail) = 0
  BY <1>1, QuantosIs DEF Indices
<1>3. NoAnel = <<>>
  BY <1>2 DEF NoAnel, Quantos
<1>4. tiradas \in Seq(Caracteres) /\ tiradas \o <<>> = tiradas
  BY ConcatEmptySeq DEF KbTypeOK
<1> QED
  BY <1>3, <1>4 DEF TypedInOrder

LEMMA CleanStep ==
  ASSUME KbTypeOK, TypedInOrder, AntesInv, [KbNext]_kbVars,
         drenando # "ninguem", drenando' = "ninguem"
  PROVE  Len(tiradas') >= antes
<1>1. Vazia /\ tiradas' = tiradas
  BY DEF KbNext, Aperta, ApertaShift, SoltaShift, ApertaCaps, PegaTecla, PedeLinha, LeLinha,
         PassaFoco, Drena, DevolveFoco, kbVars
<1>2. tiradas' = guardadas
  BY <1>1, VaziaIs
<1>3. antes \in Nat /\ Len(guardadas) \in Nat
  BY LenProperties DEF KbTypeOK
<1> QED
  BY <1>2, <1>3 DEF AntesInv

(* When App_Exec has emptied the ring for a child, no key typed before the    *)
(* child got the focus is left, whoever typed or read meanwhile (proc.c,      *)
(* process_spawn_pending).                                                    *)
THEOREM ChildrenStartClean == KbSpec => ChildStartsClean
<1>1. KbInit => AntesInv
  BY DEF KbInit, AntesInv
<1>2. KbTypeOK /\ TypedInOrder /\ AntesInv /\ [KbNext]_kbVars
        => [drenando # "ninguem" /\ drenando' = "ninguem" => Len(tiradas') >= antes]_kbVars
  BY CleanStep
<1> QED
  BY <1>1, <1>2, KbTypeInit, KbTypeStep, OrderInit, OrderStep, AntesStep, PTL
     DEF KbSpec, ChildStartsClean
-----------------------------------------------------------------------------
(* The mouse *)

(* A packet that mixes two movements is being assembled: its first byte is not *)
(* the mouse's first byte, or a byte was lost since.                           *)
Misto == mouse_cycle > 0 /\ (~cabeca \/ proximo # mouse_cycle)

(* While a mixed packet is under way it is not counted yet.  It is the one the *)
(* lost byte cut, or a data byte passed for its first byte, which is counted.  *)
ShiftInv ==
  enganos < MaxTortos => tortos <= enganos + (IF Misto THEN 0 ELSE 1)

LEMMA ContaIs ==
  ASSUME NEW n \in Nat, NEW mais \in BOOLEAN
  PROVE  /\ Conta(n, mais) \in Nat
         /\ Conta(n, mais) < MaxTortos => Conta(n, mais) = n + (IF mais THEN 1 ELSE 0)
         /\ Conta(n, mais) <= n + (IF mais THEN 1 ELSE 0)
         /\ Conta(n, mais) < MaxTortos => n < MaxTortos
BY BoundAssumption DEF Conta

LEMMA LimitaIs ==
  ASSUME NEW v \in Int, NEW t \in Nat \ {0}
  PROVE  Limita(v, t) \in 0..(t - 1)
BY DEF Limita

LEMMA MetadeIs ==
  ASSUME NEW t \in Nat \ {0}, NEW v, v = t \div 2
  PROVE  v \in 0..(t - 1)
OBVIOUS

LEMMA MsTypeInit == MsInit => MsTypeOK
<1> SUFFICES ASSUME MsInit
             PROVE  MsTypeOK
  OBVIOUS
<1>1. mouse_x \in 0..(Largura - 1) /\ mouse_y \in 0..(Altura - 1)
  BY MetadeIs, ScreenAssumption DEF MsInit
<1>2. mouse_byte \in [0..2 -> 0..255]
  BY DEF MsInit
<1>3. mouse_cycle \in 0..3 /\ mouse_buttons \in 0..7 /\ proximo \in 0..3
  BY DEF MsInit
<1>4. tortos \in Nat /\ enganos \in Nat
  BY DEF MsInit
<1>5. cabeca \in BOOLEAN
  BY Zenon DEF MsInit
<1> QED
  BY <1>1, <1>2, <1>3, <1>4, <1>5, Zenon DEF MsTypeOK

LEMMA HandlerTypes ==
  ASSUME MsTypeOK, NEW b \in 0..255, Handler(b)
  PROVE  MsTypeOK'
<1> USE DEF MsTypeOK
<1>1. proximo' \in 0..3
  BY DEF Handler
<1>2. CASE mouse_cycle = 0
  <2>1. (proximo # 0 /\ Bit(b, 3)) \in BOOLEAN /\ (proximo = 0) \in BOOLEAN
    OBVIOUS
  <2>2. Conta(enganos, proximo # 0 /\ Bit(b, 3)) \in Nat
    BY <2>1, ContaIs
  <2>3. enganos' \in {enganos, Conta(enganos, proximo # 0 /\ Bit(b, 3))}
    BY <1>2, Zenon DEF Handler
  <2>4. enganos' \in Nat
    BY <2>2, <2>3
  <2>5. cabeca' \in {cabeca, proximo = 0}
    BY <1>2, Zenon DEF Handler
  <2>6. cabeca' \in BOOLEAN
    BY <2>5, Zenon
  <2> QED
    BY <1>1, <1>2, <2>4, <2>6 DEF Handler
<1>3. CASE mouse_cycle \in {1, 2}
  BY <1>1, <1>3 DEF Handler
<1>4. CASE mouse_cycle = 3
  <2>1. Conta(tortos, ~cabeca \/ proximo # 3) \in Nat
    BY ContaIs
  <2>2. \A i \in {1, 2}, n \in BOOLEAN : Deslocamento(mouse_byte[i], n) \in Int
    BY DEF Deslocamento
  <2>3. /\ Deslocamento(mouse_byte[1], Bit(mouse_byte[0], 4)) \in Int
        /\ Deslocamento(mouse_byte[2], Bit(mouse_byte[0], 5)) \in Int
    BY DEF Deslocamento
  <2>4. mouse_x' \in 0..(Largura - 1) /\ mouse_y' \in 0..(Altura - 1)
    BY <1>4, <2>3, LimitaIs, ScreenAssumption DEF Handler
  <2>5. mouse_byte[0] % 8 \in 0..7
    OBVIOUS
  <2> QED
    BY <1>1, <1>4, <2>1, <2>4, <2>5 DEF Handler
<1> QED
  BY <1>2, <1>3, <1>4

LEMMA MsTypeStep == MsTypeOK /\ [MsNext]_msVars => MsTypeOK'
<1> SUFFICES ASSUME MsTypeOK, [MsNext]_msVars
             PROVE  MsTypeOK'
  OBVIOUS
<1>1. CASE ByteMouse
  <2>1. PICK b \in 0..255 : Handler(b)
    BY <1>1, BytesAssumption DEF ByteMouse
  <2> QED
    BY <2>1, HandlerTypes
<1>2. CASE PerdeByte
  BY <1>2 DEF PerdeByte, MsTypeOK
<1>3. CASE TrocaResolucao
  <2>1. Largura \div 2 \in 0..(Largura - 1) /\ Altura \div 2 \in 0..(Altura - 1)
    BY ScreenAssumption
  <2> QED
    BY <1>3, <2>1 DEF TrocaResolucao, MsTypeOK
<1>4. CASE UNCHANGED msVars
  BY <1>4 DEF msVars, MsTypeOK
<1> QED
  BY <1>1, <1>2, <1>3, <1>4 DEF MsNext

LEMMA HandlerHeals ==
  ASSUME MsTypeOK, ShiftInv, NEW b \in 0..255, Handler(b)
  PROVE  ShiftInv'
<1> USE DEF MsTypeOK, ShiftInv, Misto
<1>1. CASE mouse_cycle = 0 /\ Sincroniza(b)
  <2>1. /\ mouse_cycle' = 1 /\ cabeca' = (proximo = 0)
        /\ enganos' = Conta(enganos, proximo # 0) /\ tortos' = tortos
    BY <1>1 DEF Handler, Sincroniza
  <2>2. proximo = 0 => proximo' = 1
    BY DEF Handler
  <2>3. enganos' < MaxTortos =>
          enganos < MaxTortos /\ enganos' = enganos + (IF proximo # 0 THEN 1 ELSE 0)
    BY <2>1, ContaIs
  <2>4. proximo' \in 0..3
    BY DEF Handler
  <2>5. proximo = 0 => cabeca'
    BY <2>1, Zenon
  <2>6. CASE proximo = 0
    <3>1. mouse_cycle' = 1 /\ proximo' = 1 /\ cabeca' /\ tortos' = tortos
      BY <2>1, <2>2, <2>5, <2>6
    <3> QED
      BY <1>1, <2>3, <2>6, <3>1
  <2>7. CASE proximo # 0
    BY <1>1, <2>1, <2>3, <2>7
  <2> QED
    BY <2>6, <2>7
<1>2. CASE mouse_cycle = 0 /\ ~Sincroniza(b)
  BY <1>2 DEF Handler
<1>3. CASE mouse_cycle \in {1, 2}
  BY <1>3 DEF Handler
<1>4. CASE mouse_cycle = 3
  <2>1. /\ mouse_cycle' = 0 /\ enganos' = enganos
        /\ tortos' = Conta(tortos, ~cabeca \/ proximo # 3)
    BY <1>4 DEF Handler
  <2>2. tortos' <= tortos + (IF ~cabeca \/ proximo # 3 THEN 1 ELSE 0) /\ tortos' \in Nat
    BY <2>1, ContaIs
  <2> QED
    BY <1>4, <2>1, <2>2
<1> QED
  BY <1>1, <1>2, <1>3, <1>4

LEMMA ShiftStep == MsTypeOK /\ ShiftInv /\ [MsNext]_msVars => ShiftInv'
<1> SUFFICES ASSUME MsTypeOK, ShiftInv, [MsNext]_msVars
             PROVE  ShiftInv'
  OBVIOUS
<1>1. CASE ByteMouse
  <2>1. PICK b \in 0..255 : Handler(b)
    BY <1>1, BytesAssumption DEF ByteMouse
  <2> QED
    BY <2>1, HandlerHeals
<1>2. CASE PerdeByte
  BY <1>2 DEF PerdeByte, ShiftInv
<1>3. CASE TrocaResolucao
  BY <1>3 DEF TrocaResolucao, ShiftInv, Misto
<1>4. CASE UNCHANGED msVars
  BY <1>4 DEF msVars, ShiftInv, Misto
<1> QED
  BY <1>1, <1>2, <1>3, <1>4 DEF MsNext

(* The pointer stays on the screen and the cycle among the packet's bytes,     *)
(* whatever bytes come or are lost (mouse.c:107-152).                          *)
THEOREM PointerStaysOnScreen == MsSpec => []MsTypeOK
BY MsTypeInit, MsTypeStep, PTL DEF MsSpec

(* After a lost byte the handler decodes at most one mixed packet more than    *)
(* data bytes passed for first bytes (mouse.c:110).                            *)
THEOREM ShiftsHeal == MsSpec => []ShiftHeals
<1>1. MsInit => ShiftInv
  BY DEF MsInit, ShiftInv
<1>2. MsTypeOK /\ ShiftInv => ShiftHeals
  BY DEF MsTypeOK, ShiftInv, ShiftHeals
<1> QED
  BY <1>1, <1>2, MsTypeInit, MsTypeStep, ShiftStep, PTL DEF MsSpec

-----------------------------------------------------------------------------
(* The console *)

Passos ==
  {"fora", "desenha", "avanca", "avancou", "margem", "linha", "linhou", "testa", "volta",
   "voltou", "apaga", "quebra", "zera", "desce", "desceu", "fundo", "limpa", "limpa_x",
   "limpa_y", "copia", "copiou", "fim_y", "fim_x", "avisa"}

(* The types the proofs need. *)
Tipos ==
  /\ onde \in [Printers -> Passos]
  /\ reg \in [Printers -> Int]
  /\ cx \in Int /\ cy \in Nat
  /\ ap \in BOOLEAN

(* The printer has yet to test the right margin, or to go to the left one. *)
AntesDaMargem ==
  {"desenha", "avanca", "avancou", "margem", "linha", "linhou", "testa", "volta", "voltou",
   "apaga", "quebra", "zera", "limpa", "limpa_x"}

(* ... and the bottom. *)
AntesDoFundo == AntesDaMargem \cup {"desce", "desceu", "fundo", "limpa_y"}

(* Where the shell itself leaves the cursor beyond the margin or the bottom.  An      *)
(* application that prints meanwhile brings it back for the shell.                    *)
AlemDaMargem == {"quebra", "zera"}
AlemDoFundo  == {"quebra", "zera", "desce", "desceu", "fundo", "limpa", "limpa_x", "limpa_y"}

(* A system call runs to its end before the shell goes on, so where it is decides;    *)
(* otherwise where the shell is.                                                      *)
CursorInv ==
  /\ \/ cx < Colunas
     \/ onde["app"] \in AntesDaMargem
     \/ onde["app"] = "fora" /\ onde["shell"] \in AlemDaMargem
  /\ \/ cy < Fileiras
     \/ onde["app"] \in AntesDoFundo
     \/ onde["app"] = "fora" /\ onde["shell"] \in AlemDoFundo

(* Nobody steps left of column -1: a '\b' of the application is not interrupted, one  *)
(* of the shell finds the cursor where it was or in column 0 or more.                 *)
MargemInv ==
  /\ cx >= -1
  /\ onde["app"] = "volta" => cx >= 1
  /\ onde["app"] = "voltou" => reg["app"] >= 1
  /\ onde["shell"] = "volta" => cx >= 0
  /\ onde["shell"] = "voltou" => reg["shell"] \in 0..Colunas
  /\ \A p \in Printers : /\ onde[p] = "avancou" => reg[p] >= -1
                         /\ onde[p] \in {"linhou", "desceu"} => reg[p] >= 0
-----------------------------------------------------------------------------
Sinal == Letras \cup Sinais \cup {">", "bs", "nl", "cls"}

(* A call of terminal_putc or SYS_CLEAR moves nothing but its printer.                *)
LEMMA ChamaIs ==
  ASSUME Tipos, NEW p \in Printers, NEW c, Chama(p, c)
  PROVE  /\ Em(p, "fora")
         /\ \E l \in {"margem", "avanca", "testa", "limpa", "desenha"} :
              onde' = [onde EXCEPT ![p] = l]
         /\ UNCHANGED <<cursor, tela, refresh, reg>>
BY DEF Chama, Vai, Tipos

(* A step is a call, an access of a printer, or none of the terminal's.               *)
LEMMA StepIs ==
  ASSUME Tipos, [CnNext]_cnVars
  PROVE  \/ /\ \E p \in Printers, c \in Sinal : Chama(p, c)
            /\ ap' \in BOOLEAN
         \/ /\ \E p \in Printers : Putc(p)
            /\ ap' = ap
         \/ /\ UNCHANGED <<cursor, onde, reg>>
            /\ ap' \in BOOLEAN
<1> USE DEF Tipos, Sinal, Printers
<1>1. CASE Prompt
  BY <1>1 DEF Prompt
<1>2. ASSUME NEW c \in Letras, Digita(c)
      PROVE  Chama("shell", c) /\ ap' = ap
  BY <1>2 DEF Digita
<1>3. CASE Backspace
  BY <1>3 DEF Backspace
<1>4. CASE Enter
  BY <1>4 DEF Enter
<1>5. CASE Executa
  BY <1>5 DEF Executa
<1>6. ASSUME NEW c \in Sinais, SysWrite(c)
      PROVE  Chama("app", c) /\ ap' = TRUE
  BY <1>6 DEF SysWrite
<1>7. CASE SysWriteFim
  BY <1>7 DEF SysWriteFim
<1>8. CASE SysClear
  BY <1>8 DEF SysClear
<1>9. CASE VideoFlip
  BY <1>9 DEF VideoFlip
<1>10. CASE SwapBuffers
  BY <1>10 DEF SwapBuffers, quem
<1>11. ASSUME NEW p \in Printers, Putc(p)
       PROVE  ap' = ap
  BY <1>11 DEF Putc, quem
<1>12. CASE UNCHANGED cnVars
  BY <1>12 DEF cnVars, quem
<1> QED
  BY <1>1, <1>2, <1>3, <1>4, <1>5, <1>6, <1>7, <1>8, <1>9, <1>10, <1>11, <1>12
  DEF CnNext, Shell, App

LEMMA TabIs ==
  ASSUME NEW r \in Int, r >= -1
  PROVE  4 * ((r + 4) \div 4) \in Nat
OBVIOUS

LEMMA TiposInit == CnInit => Tipos /\ CursorInv /\ MargemInv
<1> SUFFICES ASSUME CnInit
             PROVE  Tipos /\ CursorInv /\ MargemInv
  OBVIOUS
<1>1. ap \in BOOLEAN
  BY Zenon DEF CnInit
<1>2. onde \in [Printers -> Passos] /\ reg \in [Printers -> Int] /\ cx = 0 /\ cy = 0
  BY DEF CnInit, Passos
<1>3. \A p \in Printers : onde[p] = "fora"
  BY DEF CnInit
<1>4. Tipos
  BY <1>1, <1>2 DEF Tipos
<1>5. CursorInv
  BY <1>2, CnAssumption DEF CursorInv
<1>6. MargemInv
  BY <1>2, <1>3 DEF MargemInv, Printers
<1> QED
  BY <1>4, <1>5, <1>6

LEMMA PutcTypes ==
  ASSUME Tipos, MargemInv, NEW p \in Printers, Putc(p), ap' = ap
  PROVE  Tipos'
<1> USE DEF Tipos, Passos, Vai, Em, cursor, tela, MargemInv
<1>1. CASE Desenha(p) \/ Apaga(p)
  BY <1>1 DEF Desenha, Apaga
<1>2. CASE CarregaX(p) \/ CarregaY(p)
  BY <1>2 DEF CarregaX, CarregaY
<1>3. CASE GuardaX(p)
  <2>1. onde[p] = "avancou" => 4 * ((reg[p] + 4) \div 4) \in Int
    BY TabIs
  <2>2. cx' \in Int
    BY <1>3, <2>1 DEF GuardaX
  <2> QED
    BY <1>3, <2>2 DEF GuardaX
<1>4. CASE GuardaY(p)
  BY <1>4 DEF GuardaY
<1>5. CASE Margem(p)
  BY <1>5 DEF Margem
<1>6. CASE Testa(p)
  BY <1>6 DEF Testa
<1>7. CASE Limpa(p) \/ Topo(p) \/ Copia(p)
  BY <1>7 DEF Limpa, Topo, Copia
<1>8. CASE Copiou(p) \/ Avisa(p)
  BY <1>8 DEF Copiou, Avisa
<1> QED
  BY <1>1, <1>2, <1>3, <1>4, <1>5, <1>6, <1>7, <1>8 DEF Putc

LEMMA TiposStep == Tipos /\ MargemInv /\ [CnNext]_cnVars => Tipos'
<1> SUFFICES ASSUME Tipos, MargemInv, [CnNext]_cnVars
             PROVE  Tipos'
  OBVIOUS
<1>1. ASSUME NEW p \in Printers, NEW c \in Sinal, Chama(p, c), ap' \in BOOLEAN
      PROVE  Tipos'
  <2>1. PICK l \in Passos : onde' = [onde EXCEPT ![p] = l]
    BY <1>1, ChamaIs DEF Passos
  <2> QED
    BY <1>1, <2>1, ChamaIs DEF Tipos, cursor
<1>2. ASSUME NEW p \in Printers, Putc(p), ap' = ap
      PROVE  Tipos'
  BY <1>2, PutcTypes
<1>3. CASE UNCHANGED <<cursor, onde, reg>> /\ ap' \in BOOLEAN
  BY <1>3 DEF Tipos, cursor
<1> QED
  BY <1>1, <1>2, <1>3, StepIs

LEMMA PutcCursor ==
  ASSUME Tipos, Tipos', CursorInv, MargemInv, NEW p \in Printers, Putc(p), ap' = ap
  PROVE  CursorInv' /\ MargemInv'
<1> USE CnAssumption DEF Tipos, Vai, Em, Roda, Desmascarada, cursor, Printers,
        CursorInv, MargemInv, AntesDaMargem, AntesDoFundo, AlemDaMargem, AlemDoFundo
<1>1. CASE Desenha(p) \/ Apaga(p)
  BY <1>1 DEF Desenha, Apaga
<1>2. CASE CarregaX(p)
  BY <1>2 DEF CarregaX
<1>3. CASE CarregaY(p)
  BY <1>3 DEF CarregaY
<1>4. CASE GuardaX(p)
  <2>1. onde[p] = "avancou" => 4 * ((reg[p] + 4) \div 4) \in Nat
    BY TabIs
  <2>2. onde[p] = "avancou" => cx' >= 0
    BY <1>4, <2>1 DEF GuardaX
  <2>3. onde[p] = "voltou" => cx' = reg[p] - 1
    BY <1>4 DEF GuardaX
  <2>4. /\ onde[p] \in {"avancou", "voltou"}
        /\ onde' = [onde EXCEPT ![p] = IF onde[p] = "avancou" THEN "quebra" ELSE "apaga"]
        /\ cy' = cy /\ reg' = [reg EXCEPT ![p] = 0]
        /\ Roda(p)
    BY <1>4 DEF GuardaX
  <2> QED
    BY <2>2, <2>3, <2>4
<1>5. CASE GuardaY(p)
  BY <1>5 DEF GuardaY
<1>6. CASE Margem(p)
  BY <1>6 DEF Margem
<1>7. CASE Testa(p)
  BY <1>7 DEF Testa, TemOndeVoltar, NoFim, NoFundo
<1>8. CASE Limpa(p) \/ Topo(p) \/ Copia(p)
  BY <1>8 DEF Limpa, Topo, Copia
<1>9. CASE Copiou(p) \/ Avisa(p)
  BY <1>9 DEF Copiou, Avisa
<1> QED
  BY <1>1, <1>2, <1>3, <1>4, <1>5, <1>6, <1>7, <1>8, <1>9 DEF Putc

LEMMA CursorStep ==
  Tipos /\ CursorInv /\ MargemInv /\ [CnNext]_cnVars => CursorInv' /\ MargemInv'
<1> SUFFICES ASSUME Tipos, CursorInv, MargemInv, [CnNext]_cnVars
             PROVE  CursorInv' /\ MargemInv'
  OBVIOUS
<1>0. Tipos'
  BY TiposStep
<1>1. ASSUME NEW p \in Printers, NEW c \in Sinal, Chama(p, c)
      PROVE  CursorInv' /\ MargemInv'
  <2>1. PICK l \in {"margem", "avanca", "testa", "limpa", "desenha"} :
          onde' = [onde EXCEPT ![p] = l]
    BY <1>1, ChamaIs
  <2>2. UNCHANGED <<cx, cy, reg>> /\ Em(p, "fora")
    BY <1>1, ChamaIs DEF cursor
  <2> QED
    BY <2>1, <2>2
    DEF Tipos, Printers, Em, Roda, Desmascarada, CursorInv, MargemInv,
        AntesDaMargem, AntesDoFundo, AlemDaMargem, AlemDoFundo
<1>2. ASSUME NEW p \in Printers, Putc(p), ap' = ap
      PROVE  CursorInv' /\ MargemInv'
  BY <1>0, <1>2, PutcCursor
<1>3. CASE UNCHANGED <<cursor, onde, reg>>
  BY <1>3 DEF cursor, CursorInv, MargemInv
<1> QED
  BY <1>1, <1>2, <1>3, StepIs

(* However the system calls of an application fall between the shell's accesses to    *)
(* the cursor, once nobody prints it is on the screen or one cell left of it          *)
(* (video.c:197-223).                                                                 *)
THEOREM CursorReturns == CnSpec => []CursorComesBack
<1>1. Tipos /\ CursorInv /\ MargemInv => CursorComesBack
  BY CnAssumption DEF Tipos, CursorInv, MargemInv, CursorComesBack, Printers, Rows,
     AntesDaMargem, AntesDoFundo, AlemDaMargem, AlemDoFundo
<1> QED
  BY <1>1, TiposInit, TiposStep, CursorStep, PTL DEF CnSpec
-----------------------------------------------------------------------------
LEMMA PutcPending ==
  ASSUME Tipos, DrawnIsPending, NEW p \in Printers, Putc(p)
  PROVE  DrawnIsPending'
<1> USE DEF DrawnIsPending, Tipos, Vai, Em, tela
<1>1. ASSUME NEW l, l # "fora", onde' = [onde EXCEPT ![p] = l]
      PROVE  DrawnIsPending'
  BY <1>1
<1>2. CASE Desenha(p) \/ Apaga(p) \/ Limpa(p) \/ Copia(p)
  BY <1>1, <1>2 DEF Desenha, Apaga, Limpa, Copia
<1>3. CASE CarregaX(p) \/ CarregaY(p) \/ GuardaX(p) \/ GuardaY(p)
  BY <1>1, <1>3 DEF CarregaX, CarregaY, GuardaX, GuardaY
<1>4. CASE Margem(p) \/ Testa(p) \/ Topo(p)
  BY <1>1, <1>4 DEF Margem, Testa, Topo
<1>5. CASE Copiou(p)
  BY <1>1, <1>5 DEF Copiou
<1>6. CASE Avisa(p)
  BY <1>6 DEF Avisa
<1> QED
  BY <1>2, <1>3, <1>4, <1>5, <1>6 DEF Putc

LEMMA PendingStep == Tipos /\ DrawnIsPending /\ [CnNext]_cnVars => DrawnIsPending'
<1> SUFFICES ASSUME Tipos, DrawnIsPending, [CnNext]_cnVars
             PROVE  DrawnIsPending'
  OBVIOUS
<1>1. ASSUME NEW p \in Printers, NEW c, Chama(p, c)
      PROVE  DrawnIsPending'
  BY <1>1, ChamaIs DEF Tipos, DrawnIsPending
<1>2. CASE Shell
  <2>1. ASSUME UNCHANGED <<tela, refresh, onde, ap>>
        PROVE  DrawnIsPending'
    BY <2>1 DEF DrawnIsPending, tela
  <2> QED
    BY <1>1, <1>2, <2>1 DEF Shell, Prompt, Digita, Backspace, Enter, Executa, Printers
<1>3. CASE App
  BY <1>1, <1>3 DEF App, SysWrite, SysWriteFim, SysClear, VideoFlip, DrawnIsPending, Printers
<1>4. CASE SwapBuffers
  BY <1>4 DEF SwapBuffers, DrawnIsPending
<1>5. ASSUME NEW p \in Printers, Putc(p)
      PROVE  DrawnIsPending'
  BY <1>5, PutcPending
<1>6. CASE UNCHANGED cnVars
  BY <1>6 DEF cnVars, tela, quem, DrawnIsPending
<1> QED
  BY <1>2, <1>3, <1>4, <1>5, <1>6 DEF CnNext

(* What is drawn reaches the screen unless a request or a printer is still pending:   *)
(* the flag is raised after the drawing and lowered before the copy, in every order    *)
(* of the three (video.c:204-223, double_buffering.c:32-48).                           *)
THEOREM DrawingsArePending == CnSpec => []DrawnIsPending
<1>1. CnInit => DrawnIsPending
  BY DEF CnInit, DrawnIsPending
<1> QED
  BY <1>1, TiposInit, TiposStep, CursorStep, PendingStep, PTL DEF CnSpec
-----------------------------------------------------------------------------
(* The echo of the command line *)

(* The rows below row y are black. *)
Abaixo(y) == \A r \in Rows : r > y => ram[r] = [c \in Cols |-> {}]

(* Row y is black, if it is on the screen. *)
EmBranco(y) == y \in Rows => ram[y] = [c \in Cols |-> {}]

(* The n first cells of row y are the prompt and all of s, or the end of s, and the   *)
(* others are black.                                                                  *)
Fila(y, n, s) ==
  /\ y \in Rows /\ n \in 0..Colunas
  /\ \A c \in Cols : c >= n => ram[y][c] = {}
  /\ \/ /\ n = Len(s) + 1 /\ ram[y][0] = {">"}
        /\ \A c \in 1..(n - 1) : ram[y][c] = {s[c]}
     \/ /\ n <= Len(s)
        /\ \A c \in 0..(n - 1) : ram[y][c] = {s[Len(s) - n + 1 + c]}

(* What the shell is doing, by where it is in terminal_putc: at rest, ... *)
Parada ==
  /\ cx \in Cols /\ cy \in Rows /\ Abaixo(cy)
  /\ sh = "le" => Fila(cy, cx, linha)
  /\ sh # "le" => cx = 0 /\ EmBranco(cy)

(* ... echoing the prompt or the last letter of the line, ... *)
Ecoando ==
  LET o == onde["shell"]  k == car["shell"] IN
  /\ cx \in Cols /\ cy \in Rows /\ Abaixo(cy) /\ sh = "le"
  /\ k \in Letras \cup {">"}
  /\ o = "desenha" =>
       \/ k = ">" /\ linha = <<>> /\ cx = 0 /\ EmBranco(cy)
       \/ \E s \in Seq(Letras) : k \in Letras /\ linha = Append(s, k) /\ Fila(cy, cx, s)
  /\ o \in {"avanca", "avancou"} => Fila(cy, cx + 1, linha)
  /\ o = "avancou" => reg["shell"] = cx

(* ... erasing the letter the line has already lost, ... *)
Apagando ==
  LET o == onde["shell"] IN
  /\ cx \in Cols /\ cy \in Rows /\ Abaixo(cy) /\ sh = "le"
  /\ \E k \in Letras :
       IF o = "apaga" THEN Fila(cy, cx + 1, Append(linha, k))
                      ELSE Fila(cy, cx, Append(linha, k))
  /\ o \in {"volta", "voltou"} => cx >= 1
  /\ o = "voltou" => reg["shell"] = cx

(* ... going to the next row, ... *)
Mudando ==
  LET o == onde["shell"] IN
  /\ cy \in Rows /\ Abaixo(cy)
  /\ IF o \in {"margem", "linha", "linhou"} THEN sh = "executa" /\ car["shell"] = "nl"
                                            ELSE sh = "le"
  /\ o \in {"linha", "linhou", "desce", "desceu"} => cx = 0
  /\ o \in {"linhou", "desceu"} => reg["shell"] = cy

(* ... testing the margins, ... *)
Testando ==
  LET o == onde["shell"] IN
  /\ cy \in 0..Fileiras /\ Abaixo(cy) /\ sh \in {"le", "executa"}
  /\ cx \in 0..Colunas
  /\ o = "fundo" => cx \in Cols
  /\ o = "quebra" /\ sh = "le" => Fila(cy, cx, linha)
  /\ o = "fundo" /\ sh = "le" /\ cy \in Rows => Fila(cy, cx, linha)
  /\ sh = "executa" => cx = 0 /\ EmBranco(cy)

(* ... or clearing the screen. *)
Limpando ==
  LET o == onde["shell"] IN
  /\ o # "limpa" => ram = Blank
  /\ o \in {"limpa_y", "copia", "copiou", "fim_y", "fim_x"} => cx = 0
  /\ o \in {"copia", "copiou", "fim_y", "fim_x"} => cy = 0

Fazendo ==
  LET o == onde["shell"] IN
  /\ o \in {"fora", "avisa"} => Parada
  /\ o \in {"desenha", "avanca", "avancou"} => Ecoando
  /\ o \in {"testa", "volta", "voltou", "apaga"} => Apagando
  /\ o \in {"margem", "linha", "linhou", "zera", "desce", "desceu"} => Mudando
  /\ o \in {"quebra", "fundo"} => Testando
  /\ o \in {"limpa", "limpa_x", "limpa_y", "copia", "copiou", "fim_y", "fim_x"} => Limpando

(* What the shell may have drawn. *)
Visor == ram \in [Rows -> [Cols -> SUBSET (Letras \cup {">"})]]

(* As long as no application has printed. *)
Sozinha ==
  /\ ~ap /\ onde["app"] = "fora"
  /\ linha \in Seq(Letras)
  /\ sh \in {"prompt", "le", "executa"}
  /\ Visor
  /\ Fazendo

EchoInv ==
  /\ restam \in 0..MaxSinais /\ DOMAIN car = Printers
  /\ restam = MaxSinais => Sozinha
-----------------------------------------------------------------------------
LEMMA TelaIs ==
  /\ Colunas \in Nat /\ Fileiras \in Nat /\ 0 \in Cols /\ 0 \in Rows
  /\ ">" \notin Letras /\ "nl" \notin Letras /\ "bs" \notin Letras
  /\ "tab" \notin Letras /\ "cls" \notin Letras /\ "cr" \notin Letras
  /\ Cols \subseteq Int /\ Rows \subseteq Int
BY CnAssumption DEF Cols, Rows

(* Row y of the prompt differs from the others. *)
LEMMA FilaIs ==
  ASSUME NEW y, NEW n, NEW s \in Seq(Letras), Fila(y, n, s)
  PROVE  \/ /\ n = Len(s) + 1 /\ ram[y][0] = {">"}
            /\ \A c \in 1..(n - 1) : ram[y][c] = {s[c]}
         \/ /\ n <= Len(s) /\ ram[y][0] # {">"}
            /\ \A c \in 0..(n - 1) : ram[y][c] = {s[Len(s) - n + 1 + c]}
<1>0. n \in Nat /\ Len(s) \in Nat /\ \A i \in 1..Len(s) : s[i] \in Letras
  BY TelaIs, ElementOfSeq DEF Fila
<1>1. CASE n = Len(s) + 1 /\ ram[y][0] = {">"}
  BY <1>1 DEF Fila
<1>2. CASE n <= Len(s) /\ n = 0
  BY <1>2, TelaIs DEF Fila
<1>3. CASE n <= Len(s) /\ n # 0 /\ \A c \in 0..(n - 1) : ram[y][c] = {s[Len(s) - n + 1 + c]}
  <2>1. ram[y][0] = {s[Len(s) - n + 1]} /\ s[Len(s) - n + 1] \in Letras
    BY <1>0, <1>3
  <2> QED
    BY <1>3, <2>1, TelaIs
<1> QED
  BY <1>0, <1>1, <1>2, <1>3 DEF Fila

LEMMA FilaVazia ==
  ASSUME NEW y \in Rows, EmBranco(y), NEW s \in Seq(Letras)
  PROVE  Fila(y, 0, s)
BY TelaIs DEF Fila, EmBranco

(* A letter drawn at the end of the row. *)
LEMMA FilaMais ==
  ASSUME Visor, NEW y, NEW n \in Cols, NEW s \in Seq(Letras), NEW k \in Letras, Fila(y, n, s),
         NEW t \in Seq(Letras), t = Append(s, k),
         ram' = [ram EXCEPT ![y][n] = @ \cup {k}]
  PROVE  Fila(y, n + 1, t)' /\ Visor'
<1>1. /\ t \in Seq(Letras) /\ Len(t) = Len(s) + 1 /\ Len(s) \in Nat
      /\ \A i \in 1..Len(s) : t[i] = s[i]
      /\ t[Len(s) + 1] = k
  BY AppendProperties
<1>2. /\ y \in Rows /\ n \in 0..(Colunas - 1) /\ Colunas \in Nat /\ Cols = 0..(Colunas - 1)
      /\ \A c \in Cols : c >= n => ram[y][c] = {}
  BY TelaIs DEF Fila, Cols
<1>3. /\ ram'[y][n] = {k}
      /\ \A c \in Cols : c # n => ram'[y][c] = ram[y][c]
  BY <1>2 DEF Visor
<1>4. Visor'
  BY <1>2 DEF Visor
<1>5. \A c \in Cols : c >= n + 1 => ram'[y][c] = {}
  BY <1>2, <1>3
<1>6. CASE /\ n = Len(s) + 1 /\ ram[y][0] = {">"}
           /\ \A c \in 1..(n - 1) : ram[y][c] = {s[c]}
  <2>1. \A c \in 1..n : ram'[y][c] = {t[c]}
    BY <1>1, <1>2, <1>3, <1>6
  <2>2. ram'[y][0] = {">"}
    BY <1>1, <1>2, <1>3, <1>6, TelaIs
  <2> QED
    BY <1>1, <1>2, <1>4, <1>5, <1>6, <2>1, <2>2 DEF Fila
<1>7. CASE /\ n <= Len(s)
           /\ \A c \in 0..(n - 1) : ram[y][c] = {s[Len(s) - n + 1 + c]}
  <2>1. ASSUME NEW c \in 0..n
        PROVE  ram'[y][c] = {t[Len(t) - (n + 1) + 1 + c]}
    <3>1. CASE c = n
      BY <1>1, <1>2, <1>3, <3>1
    <3>2. CASE c \in 0..(n - 1)
      <4>1. ram'[y][c] = {s[Len(s) - n + 1 + c]}
        BY <1>2, <1>3, <1>7, <3>2
      <4>2. Len(s) - n + 1 + c \in 1..Len(s) /\ Len(t) - (n + 1) + 1 + c = Len(s) - n + 1 + c
        BY <1>1, <1>2, <1>7, <3>2
      <4> QED
        BY <1>1, <4>1, <4>2
    <3>3. c = n \/ c \in 0..(n - 1)
      BY <1>2
    <3> QED
      BY <3>1, <3>2, <3>3, Zenon
  <2>2. n + 1 <= Len(t) /\ n + 1 \in 0..Colunas /\ (n + 1) - 1 = n
    BY <1>1, <1>2, <1>7
  <2> QED
    BY <1>2, <1>4, <1>5, <2>1, <2>2 DEF Fila
<1> QED
  BY <1>6, <1>7 DEF Fila

(* The last letter of the row erased. *)
LEMMA FilaMenos ==
  ASSUME Visor, NEW y, NEW n \in Cols, NEW s \in Seq(Letras), NEW k \in Letras,
         NEW t, t = Append(s, k), Fila(y, n + 1, t), ram' = [ram EXCEPT ![y][n] = {}]
  PROVE  Fila(y, n, s)' /\ Visor'
<1>1. /\ t \in Seq(Letras) /\ Len(t) = Len(s) + 1 /\ Len(s) \in Nat
      /\ \A i \in 1..Len(s) : t[i] = s[i]
  BY AppendProperties
<1>0. Fila(y, n + 1, t)
  OBVIOUS
<1>2. /\ y \in Rows /\ n \in 0..(Colunas - 1) /\ Colunas \in Nat /\ Cols = 0..(Colunas - 1)
      /\ \A c \in Cols : c >= n + 1 => ram[y][c] = {}
  BY <1>0, TelaIs DEF Fila, Cols
<1>3. /\ ram'[y][n] = {}
      /\ \A c \in Cols : c # n => ram'[y][c] = ram[y][c]
  BY <1>2 DEF Visor
<1>4. Visor'
  BY <1>2 DEF Visor
<1>5. \A c \in Cols : c >= n => ram'[y][c] = {}
  BY <1>2, <1>3
<1>6. CASE /\ n + 1 = Len(t) + 1 /\ ram[y][0] = {">"}
           /\ \A c \in 1..n : ram[y][c] = {t[c]}
  <2>1. \A c \in 1..(n - 1) : ram'[y][c] = {s[c]}
    BY <1>1, <1>2, <1>3, <1>6, SMTT(30)
  <2>2. ram'[y][0] = {">"}
    BY <1>1, <1>2, <1>3, <1>6, TelaIs
  <2> QED
    BY <1>1, <1>2, <1>4, <1>5, <1>6, <2>1, <2>2 DEF Fila
<1>7. CASE /\ n + 1 <= Len(t)
           /\ \A c \in 0..n : ram[y][c] = {t[Len(t) - (n + 1) + 1 + c]}
  <2>1. ASSUME NEW c \in 0..(n - 1)
        PROVE  ram'[y][c] = {s[Len(s) - n + 1 + c]}
    <3>1. c \in 0..n /\ ram'[y][c] = ram[y][c]
      BY <1>2, <1>3
    <3>3. ram'[y][c] = {t[Len(t) - (n + 1) + 1 + c]}
      BY <1>7, <3>1
    <3>2. Len(s) - n + 1 + c \in 1..Len(s) /\ Len(t) - (n + 1) + 1 + c = Len(s) - n + 1 + c
      BY <1>1, <1>2, <1>7
    <3> QED
      BY <1>1, <3>2, <3>3
  <2> QED
    BY <1>1, <1>2, <1>4, <1>5, <1>7, <2>1 DEF Fila
<1> QED
  <2>1. \/ /\ n + 1 = Len(t) + 1 /\ ram[y][0] = {">"}
           /\ \A c \in 1..((n + 1) - 1) : ram[y][c] = {t[c]}
        \/ /\ n + 1 <= Len(t)
           /\ \A c \in 0..((n + 1) - 1) : ram[y][c] = {t[Len(t) - (n + 1) + 1 + c]}
    BY <1>0 DEF Fila
  <2>2. (n + 1) - 1 = n
    BY <1>2
  <2> QED
    BY <1>6, <1>7, <2>1, <2>2

(* A cell of row y is not one of the rows below. *)
LEMMA AbaixoIs ==
  ASSUME Visor, NEW y \in Rows, NEW n, NEW g, Abaixo(y), ram' = [ram EXCEPT ![y][n] = g]
  PROVE  Abaixo(y)'
<1> SUFFICES ASSUME NEW r \in Rows, r > y
             PROVE  ram'[r] = [c \in Cols |-> {}]
  BY DEF Abaixo
<1>1. r # y /\ ram[r] = [c \in Cols |-> {}]
  BY TelaIs DEF Abaixo
<1> QED
  BY <1>1 DEF Visor

LEMMA EcoDesenha ==
  ASSUME Tipos, Sozinha, Desenha("shell"), UNCHANGED quem
  PROVE  Sozinha'
<1>0. /\ onde["shell"] = "desenha" /\ onde' = [onde EXCEPT !["shell"] = "avanca"]
      /\ UNCHANGED <<cx, cy, linha, sh, ap, car>>
      /\ Visor /\ linha \in Seq(Letras) /\ ~ap /\ onde["app"] = "fora" /\ sh \in {"prompt", "le", "executa"}
      /\ Naveis => ram' = [ram EXCEPT ![cy][cx] = @ \cup {car["shell"]}]
  BY DEF Desenha, Em, Vai, cursor, quem, Sozinha
<1>1. /\ cx \in Cols /\ cy \in Rows /\ Abaixo(cy) /\ sh = "le"
      /\ car["shell"] \in Letras \cup {">"}
      /\ \/ car["shell"] = ">" /\ linha = <<>> /\ cx = 0 /\ EmBranco(cy)
         \/ \E s \in Seq(Letras) : /\ car["shell"] \in Letras /\ linha = Append(s, car["shell"])
                                   /\ Fila(cy, cx, s)
  BY <1>0 DEF Sozinha, Fazendo, Ecoando
<1>2. PICK y \in Rows, n \in Cols, k \in Letras \cup {">"}, t \in Seq(Letras) :
        y = cy /\ n = cx /\ k = car["shell"] /\ t = linha
  BY <1>0, <1>1
<1>3. ram' = [ram EXCEPT ![y][n] = @ \cup {k}]
  BY <1>0, <1>1, <1>2 DEF Naveis
<1>4. Abaixo(y)'
  <2>1. PICK g : g = ram[y][n] \cup {k}
    OBVIOUS
  <2> QED
    BY <1>0, <1>1, <1>2, <1>3, <2>1, AbaixoIs
<1>5. Fila(y, n + 1, t)' /\ Visor'
  <2>1. CASE k \in Letras
    <3>1. PICK s \in Seq(Letras) : t = Append(s, k) /\ Fila(y, n, s)
      BY <1>1, <1>2, <2>1, TelaIs
    <3> QED
      BY <1>0, <1>3, <2>1, <3>1, FilaMais
  <2>2. CASE k = ">"
    <3>1. /\ t = <<>> /\ n = 0 /\ ram[y] = [c \in Cols |-> {}]
      BY <1>1, <1>2, <2>2, TelaIs DEF EmBranco
    <3>2. /\ ram'[y][0] = {">"} /\ \A c \in Cols : c >= 1 => ram'[y][c] = {}
          /\ Visor'
      BY <1>0, <1>3, <2>2, <3>1, TelaIs DEF Visor
    <3>3. Len(t) = 0 /\ n + 1 = 1 /\ 1 \in 0..Colunas
      BY <3>1, TelaIs DEF Cols
    <3> QED
      BY <3>2, <3>3 DEF Fila
  <2> QED
    BY <1>2, <2>1, <2>2
<1>6. onde'["shell"] = "avanca" /\ onde'["app"] = "fora"
  BY <1>0 DEF Tipos, Printers
<1>7. Ecoando'
  <2>1. cx' = n /\ cy' = y /\ linha' = t
    BY <1>0, <1>2
  <2>2. Fila(cy, cx + 1, linha)' /\ Abaixo(cy)'
    BY <1>4, <1>5, <2>1 DEF Fila, Abaixo
  <2> QED
    BY <1>0, <1>1, <1>6, <2>2 DEF Ecoando
<1>8. Fazendo'
  BY <1>6, <1>7 DEF Fazendo
<1> QED
  BY <1>0, <1>5, <1>6, <1>8 DEF Sozinha

LEMMA EcoApaga ==
  ASSUME Tipos, Sozinha, Apaga("shell"), UNCHANGED quem
  PROVE  Sozinha'
<1>0. /\ onde["shell"] = "apaga" /\ onde' = [onde EXCEPT !["shell"] = "quebra"]
      /\ UNCHANGED <<cx, cy, linha, sh, ap, car>>
      /\ Visor /\ linha \in Seq(Letras) /\ ~ap /\ onde["app"] = "fora" /\ sh \in {"prompt", "le", "executa"}
      /\ Naveis => ram' = [ram EXCEPT ![cy][cx] = {}]
  BY DEF Apaga, Em, Vai, cursor, quem, Sozinha
<1>1. /\ cx \in Cols /\ cy \in Rows /\ Abaixo(cy) /\ sh = "le"
      /\ \E k \in Letras : Fila(cy, cx + 1, Append(linha, k))
  BY <1>0 DEF Sozinha, Fazendo, Apagando
<1>2. PICK y \in Rows, n \in Cols, s \in Seq(Letras) : y = cy /\ n = cx /\ s = linha
  BY <1>0, <1>1
<1>3. ram' = [ram EXCEPT ![y][n] = {}]
  BY <1>0, <1>1, <1>2 DEF Naveis
<1>4. Abaixo(y)'
  BY <1>0, <1>1, <1>2, <1>3, AbaixoIs
<1>5. Fila(y, n, s)' /\ Visor'
  <2>1. PICK k \in Letras : Fila(y, n + 1, Append(s, k))
    BY <1>1, <1>2
  <2>2. PICK t : t = Append(s, k)
    OBVIOUS
  <2>3. Fila(y, n + 1, t)
    BY <2>1, <2>2
  <2> QED
    BY <1>0, <1>3, <2>2, <2>3, FilaMenos
<1>6. onde'["shell"] = "quebra" /\ onde'["app"] = "fora"
  BY <1>0 DEF Tipos, Printers
<1>7. Testando'
  <2>1. cx' = n /\ cy' = y /\ linha' = s
    BY <1>0, <1>2
  <2>2. Fila(cy, cx, linha)' /\ Abaixo(cy)'
    BY <1>4, <1>5, <2>1 DEF Fila, Abaixo
  <2>3. cy' \in 0..Fileiras /\ cx' \in 0..Colunas
    BY <1>2, <2>1, TelaIs DEF Rows, Cols
  <2> QED
    BY <1>0, <1>1, <1>6, <2>2, <2>3 DEF Testando
<1>8. Fazendo'
  BY <1>6, <1>7 DEF Fazendo
<1> QED
  BY <1>0, <1>5, <1>6, <1>8 DEF Sozinha

(* Steps that leave the memory alone: the rows stay as they are. *)
LEMMA EcoFica ==
  ASSUME Tipos, Sozinha, UNCHANGED <<ram, quem>>, NEW l \in Passos,
         onde' = [onde EXCEPT !["shell"] = l]
  PROVE  /\ onde'["shell"] = l
         /\ Fazendo' => Sozinha'
         /\ \A y, n, s : Fila(y, n, s)' = Fila(y, n, s)
         /\ \A y : Abaixo(y)' = Abaixo(y) /\ EmBranco(y)' = EmBranco(y)
<1>1. onde'["shell"] = l /\ onde'["app"] = onde["app"]
  BY DEF Tipos, Printers
<1>2. /\ \A y, n, s : Fila(y, n, s)' = Fila(y, n, s)
      /\ \A y : Abaixo(y)' = Abaixo(y) /\ EmBranco(y)' = EmBranco(y)
  BY DEF Fila, Abaixo, EmBranco
<1> QED
  BY <1>1, <1>2 DEF Sozinha, Visor, quem

LEMMA EcoCarrega ==
  ASSUME Tipos, Sozinha, CarregaX("shell") \/ CarregaY("shell"), UNCHANGED quem
  PROVE  Sozinha'
<1>0. /\ UNCHANGED <<cx, cy, ram, linha, sh, car>>
      /\ linha \in Seq(Letras) /\ Fazendo /\ onde \in [Printers -> Passos]
  BY DEF CarregaX, CarregaY, cursor, tela, quem, Sozinha, Tipos
<1>1. \/ /\ onde["shell"] = "avanca" /\ onde' = [onde EXCEPT !["shell"] = "avancou"]
         /\ reg'["shell"] = cx
      \/ /\ onde["shell"] = "volta" /\ onde' = [onde EXCEPT !["shell"] = "voltou"]
         /\ reg'["shell"] = cx
      \/ /\ onde["shell"] = "linha" /\ onde' = [onde EXCEPT !["shell"] = "linhou"]
         /\ reg'["shell"] = cy
      \/ /\ onde["shell"] = "desce" /\ onde' = [onde EXCEPT !["shell"] = "desceu"]
         /\ reg'["shell"] = cy
  BY DEF CarregaX, CarregaY, Em, Vai, Tipos, Printers
<1>2. ASSUME onde["shell"] = "avanca", onde' = [onde EXCEPT !["shell"] = "avancou"],
             reg'["shell"] = cx
      PROVE  Sozinha'
  <2>1. onde'["shell"] = "avancou" /\ (Fazendo' => Sozinha')
    BY <1>0, <1>2, EcoFica DEF Passos
  <2>2. Ecoando
    BY <1>0, <1>2 DEF Fazendo
  <2>3. Ecoando'
    BY <1>0, <1>2, <2>1, <2>2 DEF Ecoando, Fila, Abaixo
  <2> QED
    BY <2>1, <2>3 DEF Fazendo
<1>3. ASSUME onde["shell"] = "volta", onde' = [onde EXCEPT !["shell"] = "voltou"],
             reg'["shell"] = cx
      PROVE  Sozinha'
  <2>1. onde'["shell"] = "voltou" /\ (Fazendo' => Sozinha')
    BY <1>0, <1>3, EcoFica DEF Passos
  <2>2. Apagando
    BY <1>0, <1>3 DEF Fazendo
  <2>3. Apagando'
    <3>1. UNCHANGED <<cx, cy, ram, linha, sh, car>> /\ reg'["shell"] = cx
      BY <1>0, <1>3
    <3>2. PICK k \in Letras : Fila(cy, cx, Append(linha, k))
      BY <1>3, <2>2 DEF Apagando
    <3>3. Fila(cy, cx, Append(linha, k))'
      BY ONLY <3>1, <3>2 DEF Fila
    <3>4. cx \in Cols /\ cy \in Rows /\ Abaixo(cy)' /\ sh = "le" /\ cx >= 1
      BY ONLY <1>3, <2>2, <3>1 DEF Apagando, Abaixo
    <3> QED
      BY ONLY <2>1, <3>1, <3>2, <3>3, <3>4 DEF Apagando
  <2> QED
    BY <2>1, <2>3 DEF Fazendo
<1>4. ASSUME NEW l \in {"linhou", "desceu"}, onde' = [onde EXCEPT !["shell"] = l],
             onde["shell"] = IF l = "linhou" THEN "linha" ELSE "desce", reg'["shell"] = cy
      PROVE  Sozinha'
  <2>1. onde'["shell"] = l /\ (Fazendo' => Sozinha')
    BY <1>0, <1>4, EcoFica DEF Passos
  <2>2. Mudando
    BY <1>0, <1>4 DEF Fazendo
  <2>3. Mudando'
    BY <1>0, <1>4, <2>1, <2>2 DEF Mudando, Abaixo
  <2> QED
    BY <1>4, <2>1, <2>3 DEF Fazendo
<1> QED
  BY <1>1, <1>2, <1>3, <1>4

LEMMA EcoGuarda ==
  ASSUME Tipos, Sozinha, GuardaX("shell") \/ GuardaY("shell"), UNCHANGED quem
  PROVE  Sozinha'
<1>0. /\ UNCHANGED <<ram, linha, sh, car>>
      /\ linha \in Seq(Letras) /\ Fazendo /\ onde \in [Printers -> Passos]
  BY DEF GuardaX, GuardaY, tela, quem, Sozinha, Tipos
<1>1. \/ /\ onde["shell"] = "avancou" /\ onde' = [onde EXCEPT !["shell"] = "quebra"] /\ cy' = cy
         /\ cx' = IF car["shell"] = "tab" THEN 4 * ((reg["shell"] + 4) \div 4) ELSE reg["shell"] + 1
      \/ /\ onde["shell"] = "voltou" /\ onde' = [onde EXCEPT !["shell"] = "apaga"] /\ cy' = cy
         /\ cx' = reg["shell"] - 1
      \/ /\ onde["shell"] = "linhou" /\ onde' = [onde EXCEPT !["shell"] = "quebra"] /\ cx' = cx
         /\ cy' = reg["shell"] + 1
      \/ /\ onde["shell"] = "desceu" /\ onde' = [onde EXCEPT !["shell"] = "fundo"] /\ cx' = cx
         /\ cy' = reg["shell"] + 1
  BY DEF GuardaX, GuardaY, Em, Vai
<1>2. ASSUME onde["shell"] = "avancou", onde' = [onde EXCEPT !["shell"] = "quebra"], cy' = cy,
             cx' = IF car["shell"] = "tab" THEN 4 * ((reg["shell"] + 4) \div 4) ELSE reg["shell"] + 1
      PROVE  Sozinha'
  <2>1. onde'["shell"] = "quebra" /\ (Fazendo' => Sozinha')
    BY <1>0, <1>2, EcoFica DEF Passos
  <2>2. /\ cx \in Cols /\ cy \in Rows /\ Abaixo(cy) /\ sh = "le" /\ car["shell"] # "tab"
        /\ Fila(cy, cx + 1, linha) /\ reg["shell"] = cx
    BY <1>0, <1>2, TelaIs DEF Fazendo, Ecoando
  <2>3. cx' = cx + 1 /\ cx' \in 0..Colunas /\ cy' \in 0..Fileiras
    BY <1>2, <2>2, TelaIs DEF Cols, Rows
  <2>4. Fila(cy, cx, linha)' /\ Abaixo(cy)'
    BY <1>0, <1>2, <2>2, <2>3 DEF Fila, Abaixo
  <2>5. Testando'
    BY <1>0, <2>1, <2>2, <2>3, <2>4 DEF Testando
  <2> QED
    BY <2>1, <2>5 DEF Fazendo
<1>3. ASSUME onde["shell"] = "voltou", onde' = [onde EXCEPT !["shell"] = "apaga"], cy' = cy,
             cx' = reg["shell"] - 1
      PROVE  Sozinha'
  <2>1. onde'["shell"] = "apaga" /\ (Fazendo' => Sozinha')
    BY <1>0, <1>3, EcoFica DEF Passos
  <2>2. /\ cx \in Cols /\ cy \in Rows /\ Abaixo(cy) /\ sh = "le"
        /\ cx >= 1 /\ reg["shell"] = cx
        /\ \E k \in Letras : Fila(cy, cx, Append(linha, k))
    BY <1>0, <1>3 DEF Fazendo, Apagando
  <2>3. cx' = cx - 1 /\ cx' + 1 = cx /\ cx' \in Cols
    BY <1>3, <2>2, TelaIs DEF Cols
  <2>4. PICK k \in Letras : Fila(cy, cx, Append(linha, k))
    BY <2>2
  <2>5. Fila(cy, cx + 1, Append(linha, k))' /\ Abaixo(cy)'
    BY <1>0, <1>3, <2>2, <2>3, <2>4 DEF Fila, Abaixo
  <2>6. Apagando'
    BY <1>0, <1>3, <2>1, <2>2, <2>3, <2>5 DEF Apagando
  <2> QED
    BY <2>1, <2>6 DEF Fazendo
<1>4. ASSUME NEW l \in {"quebra", "fundo"}, onde' = [onde EXCEPT !["shell"] = l], cx' = cx,
             onde["shell"] = IF l = "quebra" THEN "linhou" ELSE "desceu", cy' = reg["shell"] + 1
      PROVE  Sozinha'
  <2>1. onde'["shell"] = l /\ (Fazendo' => Sozinha')
    BY <1>0, <1>4, EcoFica DEF Passos
  <2>2. /\ cy \in Rows /\ Abaixo(cy) /\ sh = (IF l = "quebra" THEN "executa" ELSE "le")
        /\ cx = 0 /\ reg["shell"] = cy
    BY <1>0, <1>4 DEF Fazendo, Mudando
  <2>3. /\ cy' = cy + 1 /\ cy' \in 0..Fileiras /\ cx' = 0 /\ cx' \in Cols /\ cx' \in 0..Colunas
        /\ \A r \in Rows : r >= cy' => r > cy
    BY <1>4, <2>2, TelaIs DEF Rows, Cols
  <2>4. Abaixo(cy)' /\ EmBranco(cy)'
    <3>1. ram' = ram /\ \A r \in Rows : r > cy => ram[r] = [c \in Cols |-> {}]
      BY <1>0, <2>2 DEF Abaixo
    <3>2. \A r \in Rows : r > cy' => r >= cy'
      BY <2>3, TelaIs DEF Rows
    <3>3. cy' \in Rows => cy' >= cy'
      BY TelaIs DEF Rows
    <3> QED
      BY ONLY <2>3, <3>1, <3>2, <3>3 DEF Abaixo, EmBranco
  <2>5. cy' \in Rows => Fila(cy, cx, linha)'
    <3>1. SUFFICES ASSUME cy' \in Rows PROVE Fila(cy, cx, linha)'
      OBVIOUS
    <3>2. ram'[cy'] = [c \in Cols |-> {}]
      BY <2>4, <3>1 DEF EmBranco
    <3>3. linha' \in Seq(Letras) /\ Len(linha') \in Nat /\ 0 \in 0..Colunas
      BY <1>0, TelaIs
    <3> QED
      BY <2>3, <3>1, <3>2, <3>3, TelaIs DEF Fila
  <2>6. Testando'
    BY <1>0, <1>4, <2>1, <2>2, <2>3, <2>4, <2>5 DEF Testando
  <2> QED
    BY <1>4, <2>1, <2>6 DEF Fazendo
<1> QED
  BY <1>1, <1>2, <1>3, <1>4

LEMMA EcoMargem ==
  ASSUME Tipos, Sozinha, Margem("shell"), UNCHANGED quem
  PROVE  Sozinha'
<1>0. /\ UNCHANGED <<cy, ram, linha, sh, car, reg>> /\ cx' = 0 /\ cx' \in Cols
      /\ linha \in Seq(Letras) /\ Fazendo
  BY TelaIs DEF Margem, tela, quem, Sozinha, Tipos
<1>1. \/ /\ onde["shell"] = "margem"
         /\ onde' = [onde EXCEPT !["shell"] = IF car["shell"] = "nl" THEN "linha" ELSE "quebra"]
      \/ onde["shell"] = "zera" /\ onde' = [onde EXCEPT !["shell"] = "desce"]
      \/ onde["shell"] = "limpa_x" /\ onde' = [onde EXCEPT !["shell"] = "limpa_y"]
      \/ onde["shell"] = "fim_x" /\ onde' = [onde EXCEPT !["shell"] = "avisa"]
  BY DEF Margem, Em, Vai
<1>2. ASSUME NEW l \in {"linha", "desce"}, onde["shell"] = IF l = "linha" THEN "margem" ELSE "zera",
             onde' = [onde EXCEPT !["shell"] = l]
      PROVE  Sozinha'
  <2>1. onde'["shell"] = l /\ (Fazendo' => Sozinha')
    BY <1>0, <1>2, EcoFica DEF Passos
  <2>2. Mudando
    BY <1>0, <1>2 DEF Fazendo
  <2>3. Mudando'
    BY <1>0, <1>2, <2>1, <2>2 DEF Mudando, Abaixo
  <2> QED
    BY <1>2, <2>1, <2>3 DEF Fazendo
<1>3. ASSUME onde["shell"] = "limpa_x", onde' = [onde EXCEPT !["shell"] = "limpa_y"]
      PROVE  Sozinha'
  <2>1. onde'["shell"] = "limpa_y" /\ (Fazendo' => Sozinha')
    BY <1>0, <1>3, EcoFica DEF Passos
  <2>2. Limpando'
    BY <1>0, <1>3, <2>1 DEF Fazendo, Limpando, Blank
  <2> QED
    BY <2>1, <2>2 DEF Fazendo
<1>4. ASSUME onde["shell"] = "fim_x", onde' = [onde EXCEPT !["shell"] = "avisa"]
      PROVE  Sozinha'
  <2>1. onde'["shell"] = "avisa" /\ (Fazendo' => Sozinha')
    BY <1>0, <1>4, EcoFica DEF Passos
  <2>2. ram' = Blank /\ cx' = 0 /\ cy' = 0 /\ cy' \in Rows
    BY <1>0, <1>4, TelaIs DEF Fazendo, Limpando
  <2>3. Abaixo(cy)' /\ EmBranco(cy)'
    BY <2>2 DEF Abaixo, EmBranco, Blank
  <2>4. Fila(cy, cx, linha)'
    <3>1. linha' \in Seq(Letras) /\ Len(linha') \in Nat /\ 0 \in 0..Colunas
      BY <1>0, TelaIs
    <3> QED
      BY <2>2, <3>1, TelaIs DEF Fila, Blank
  <2>5. Parada'
    BY <1>0, <2>2, <2>3, <2>4 DEF Parada
  <2> QED
    BY <2>1, <2>5 DEF Fazendo
<1>5. onde["shell"] = "margem" => car["shell"] = "nl"
  BY <1>0 DEF Fazendo, Mudando
<1> QED
  BY <1>1, <1>2, <1>3, <1>4, <1>5

LEMMA EcoTesta ==
  ASSUME Tipos, Sozinha, Testa("shell"), UNCHANGED quem
  PROVE  Sozinha'
<1>0. /\ UNCHANGED <<cx, cy, ram, linha, sh, car, reg>>
      /\ linha \in Seq(Letras) /\ Fazendo /\ cx \in Int /\ cy \in Int
  BY DEF Testa, cursor, tela, quem, Sozinha, Tipos
<1>1. \/ /\ onde["shell"] = "testa" /\ cx >= 1 /\ onde' = [onde EXCEPT !["shell"] = "volta"]
      \/ /\ onde["shell"] = "testa" /\ ~(cx >= 1) /\ onde' = [onde EXCEPT !["shell"] = "quebra"]
      \/ /\ onde["shell"] = "quebra" /\ cx + 1 > Colunas /\ onde' = [onde EXCEPT !["shell"] = "zera"]
      \/ /\ onde["shell"] = "quebra" /\ ~(cx + 1 > Colunas) /\ onde' = [onde EXCEPT !["shell"] = "fundo"]
      \/ /\ onde["shell"] = "fundo" /\ cy + 1 > Fileiras /\ onde' = [onde EXCEPT !["shell"] = "limpa"]
      \/ /\ onde["shell"] = "fundo" /\ ~(cy + 1 > Fileiras) /\ onde' = [onde EXCEPT !["shell"] = "avisa"]
  BY DEF Testa, Em, Vai, TemOndeVoltar, NoFim, NoFundo
<1>2. ASSUME onde["shell"] = "testa", cx >= 1, onde' = [onde EXCEPT !["shell"] = "volta"]
      PROVE  Sozinha'
  <2>1. onde'["shell"] = "volta" /\ (Fazendo' => Sozinha')
    BY <1>0, <1>2, EcoFica DEF Passos
  <2>2. Apagando
    BY <1>0, <1>2 DEF Fazendo
  <2>3. Apagando'
    BY <1>0, <1>2, <2>1, <2>2 DEF Apagando, Fila, Abaixo
  <2> QED
    BY <2>1, <2>3 DEF Fazendo
<1>3. ASSUME onde["shell"] = "testa", ~(cx >= 1), onde' = [onde EXCEPT !["shell"] = "quebra"]
      PROVE  Sozinha'
  <2>1. onde'["shell"] = "quebra" /\ (Fazendo' => Sozinha')
    BY <1>0, <1>3, EcoFica DEF Passos
  <2>2. /\ cx \in Cols /\ cy \in Rows /\ Abaixo(cy) /\ sh = "le"
        /\ \E k \in Letras : Fila(cy, cx, Append(linha, k))
    BY <1>0, <1>3 DEF Fazendo, Apagando
  <2>3. cx = 0 /\ cy \in 0..Fileiras /\ cx \in 0..Colunas /\ Len(linha) \in Nat
    BY <1>0, <1>3, <2>2, TelaIs DEF Cols, Rows
  <2>4. \A c \in Cols : c >= 0 => ram[cy][c] = {}
    BY <2>2, <2>3 DEF Fila
  <2>5. Fila(cy, cx, linha)' /\ Abaixo(cy)'
    <3>1. UNCHANGED <<ram, linha, cx, cy>>
      BY <1>0
    <3>2. Len(linha) >= 0 /\ \A c \in 0..(0 - 1) : FALSE
      BY <2>3
    <3>3. Fila(cy, cx, linha)
      BY <2>2, <2>3, <2>4, <3>2 DEF Fila
    <3> QED
      BY ONLY <2>2, <3>1, <3>3 DEF Fila, Abaixo
  <2>6. Testando'
    BY <1>0, <2>1, <2>2, <2>3, <2>5 DEF Testando
  <2> QED
    BY <2>1, <2>6 DEF Fazendo
<1>4. ASSUME onde["shell"] = "quebra", cx + 1 > Colunas, onde' = [onde EXCEPT !["shell"] = "zera"]
      PROVE  Sozinha'
  <2>1. onde'["shell"] = "zera" /\ (Fazendo' => Sozinha')
    BY <1>0, <1>4, EcoFica DEF Passos
  <2>2. Testando
    BY <1>0, <1>4 DEF Fazendo
  <2>3. sh = "le"
    BY <1>4, <2>2, TelaIs DEF Testando, Cols
  <2>4. cy \in Rows
    BY <1>4, <2>2, <2>3 DEF Testando, Fila
  <2>5. Mudando'
    BY <1>0, <2>1, <2>2, <2>3, <2>4 DEF Mudando, Testando, Abaixo
  <2> QED
    BY <2>1, <2>5 DEF Fazendo
<1>5. ASSUME onde["shell"] = "quebra", ~(cx + 1 > Colunas), onde' = [onde EXCEPT !["shell"] = "fundo"]
      PROVE  Sozinha'
  <2>1. onde'["shell"] = "fundo" /\ (Fazendo' => Sozinha')
    BY <1>0, <1>5, EcoFica DEF Passos
  <2>2. Testando
    BY <1>0, <1>5 DEF Fazendo
  <2>3. cx \in Cols
    BY <1>0, <1>5, <2>2, TelaIs DEF Testando, Cols
  <2>4. Testando'
    BY <1>0, <1>5, <2>1, <2>2, <2>3 DEF Testando, Abaixo, Fila, EmBranco
  <2> QED
    BY <2>1, <2>4 DEF Fazendo
<1>6. ASSUME onde["shell"] = "fundo", cy + 1 > Fileiras, onde' = [onde EXCEPT !["shell"] = "limpa"]
      PROVE  Sozinha'
  <2>1. onde'["shell"] = "limpa" /\ (Fazendo' => Sozinha')
    BY <1>0, <1>6, EcoFica DEF Passos
  <2>2. Limpando'
    BY <2>1 DEF Limpando
  <2> QED
    BY <2>1, <2>2 DEF Fazendo
<1>7. ASSUME onde["shell"] = "fundo", ~(cy + 1 > Fileiras), onde' = [onde EXCEPT !["shell"] = "avisa"]
      PROVE  Sozinha'
  <2>1. onde'["shell"] = "avisa" /\ (Fazendo' => Sozinha')
    BY <1>0, <1>7, EcoFica DEF Passos
  <2>2. Testando
    BY <1>0, <1>7 DEF Fazendo
  <2>3. cy \in Rows
    BY <1>0, <1>7, <2>2, TelaIs DEF Testando, Rows
  <2>4. /\ cx \in Cols /\ Abaixo(cy)
        /\ sh = "le" => Fila(cy, cx, linha)
        /\ sh # "le" => cx = 0 /\ EmBranco(cy)
    BY <1>7, <2>2, <2>3 DEF Testando
  <2>5. Parada'
    BY <1>0, <2>3, <2>4 DEF Parada, Abaixo, Fila, EmBranco
  <2> QED
    BY <2>1, <2>5 DEF Fazendo
<1> QED
  BY <1>1, <1>2, <1>3, <1>4, <1>5, <1>6, <1>7

LEMMA EcoLimpa ==
  ASSUME Tipos, Sozinha, Limpa("shell") \/ Topo("shell") \/ Copia("shell"), UNCHANGED quem
  PROVE  Sozinha'
<1>1. CASE Limpa("shell")
  <2>1. /\ onde' = [onde EXCEPT !["shell"] = "limpa_x"] /\ ram' = Blank
        /\ onde["app"] = "fora" /\ ~ap /\ linha \in Seq(Letras) /\ sh \in {"prompt", "le", "executa"}
        /\ UNCHANGED <<linha, sh, ap>>
    BY <1>1 DEF Limpa, Vai, Sozinha, quem
  <2>2. onde'["shell"] = "limpa_x" /\ onde'["app"] = "fora"
    BY <2>1 DEF Tipos, Printers
  <2>3. Visor'
    BY <2>1 DEF Visor, Blank
  <2>4. Limpando'
    BY <2>1, <2>2 DEF Limpando, Blank
  <2> QED
    BY <2>1, <2>2, <2>3, <2>4 DEF Sozinha, Fazendo
<1>2. CASE Topo("shell") \/ Copia("shell")
  <2>1. /\ UNCHANGED <<cx, ram, linha, sh, car, reg>> /\ UNCHANGED quem
        /\ Fazendo
    BY <1>2 DEF Topo, Copia, cursor, tela, quem, Sozinha
  <2>2. \/ /\ onde["shell"] = "limpa_y" /\ onde' = [onde EXCEPT !["shell"] = "copia"] /\ cy' = 0
        \/ /\ onde["shell"] = "fim_y" /\ onde' = [onde EXCEPT !["shell"] = "fim_x"] /\ cy' = 0
        \/ /\ onde["shell"] = "copia" /\ onde' = [onde EXCEPT !["shell"] = "copiou"] /\ cy' = cy
    BY <1>2 DEF Topo, Copia, Em, Vai, cursor
  <2>3. PICK l \in {"copia", "fim_x", "copiou"} : onde' = [onde EXCEPT !["shell"] = l]
    BY <2>2
  <2>4. onde'["shell"] = l /\ (Fazendo' => Sozinha')
    BY <2>1, <2>3, EcoFica DEF Passos
  <2>5. Limpando'
    BY <2>1, <2>2, <2>3, <2>4 DEF Fazendo, Limpando, Blank
  <2> QED
    BY <2>3, <2>4, <2>5 DEF Fazendo
<1> QED
  BY <1>1, <1>2

LEMMA EcoCopiou ==
  ASSUME Tipos, Sozinha, Copiou("shell"), UNCHANGED quem
  PROVE  Sozinha'
<1>0. /\ UNCHANGED <<cx, cy, ram, linha, sh, car, reg>>
      /\ linha \in Seq(Letras) /\ Fazendo
  BY DEF Copiou, cursor, quem, Sozinha
<1>1. /\ onde["shell"] = "copiou"
      /\ \E l \in {"avisa", "fim_y"} : onde' = [onde EXCEPT !["shell"] = l]
  BY DEF Copiou, Em, Vai
<1>2. PICK l \in {"avisa", "fim_y"} : onde' = [onde EXCEPT !["shell"] = l]
  BY <1>1
<1>3. onde'["shell"] = l /\ (Fazendo' => Sozinha')
  BY <1>0, <1>2, EcoFica DEF Passos
<1>4. ram = Blank /\ cx = 0 /\ cy = 0
  BY <1>0, <1>1 DEF Fazendo, Limpando
<1>5. CASE l = "fim_y"
  <2>1. Limpando'
    BY <1>0, <1>3, <1>4, <1>5 DEF Limpando, Blank
  <2> QED
    BY <1>3, <1>5, <2>1 DEF Fazendo
<1>6. CASE l = "avisa"
  <2>1. Len(linha) \in Nat /\ 0 \in 0..Colunas
    BY <1>0, TelaIs
  <2>2. Fila(cy, cx, linha) /\ Abaixo(cy) /\ EmBranco(cy)
    BY <1>4, <2>1, TelaIs DEF Fila, Blank, Abaixo, EmBranco
  <2>3. Parada'
    BY <1>0, <1>4, <2>2, TelaIs DEF Parada, Fila, Abaixo, EmBranco
  <2> QED
    BY <1>3, <1>6, <2>3 DEF Fazendo
<1> QED
  BY <1>5, <1>6

LEMMA EcoAvisa ==
  ASSUME Tipos, Sozinha, Avisa("shell"), UNCHANGED quem
  PROVE  Sozinha'
<1>0. /\ UNCHANGED <<cx, cy, ram, linha, sh, reg>> /\ Fazendo
      /\ onde["shell"] = "avisa" /\ onde' = [onde EXCEPT !["shell"] = "fora"]
  BY DEF Avisa, Em, Vai, cursor, tela, quem, Sozinha
<1>1. onde'["shell"] = "fora" /\ (Fazendo' => Sozinha')
  BY <1>0, EcoFica DEF Passos
<1>2. Parada'
  BY <1>0 DEF Fazendo, Parada, Fila, Abaixo, EmBranco
<1> QED
  BY <1>1, <1>2 DEF Fazendo

LEMMA EcoPutc ==
  ASSUME Tipos, Sozinha, NEW p \in Printers, Putc(p)
  PROVE  Sozinha'
<1>1. p = "shell"
  BY DEF Printers, Sozinha, Putc, Desenha, Apaga, CarregaX, CarregaY, GuardaX, GuardaY, Margem,
     Testa, Limpa, Topo, Copia, Copiou, Avisa, Em
<1> QED
  BY <1>1, EcoDesenha, EcoApaga, EcoCarrega, EcoGuarda, EcoMargem, EcoTesta, EcoLimpa,
     EcoCopiou, EcoAvisa DEF Putc

(* What a call of the shell does. *)
LEMMA EcoChama ==
  ASSUME Tipos, Sozinha, DOMAIN car = Printers, NEW c, Chama("shell", c)
  PROVE  /\ UNCHANGED <<cx, cy, ram>>
         /\ Parada
         /\ car'["shell"] = c
         /\ c \notin {"nl", "cr", "tab", "bs", "cls"} => onde' = [onde EXCEPT !["shell"] = "desenha"]
         /\ c = "nl" => onde' = [onde EXCEPT !["shell"] = "margem"]
         /\ c = "bs" => onde' = [onde EXCEPT !["shell"] = "testa"]
         /\ c = "cls" => onde' = [onde EXCEPT !["shell"] = "limpa"]
BY DEF Chama, Em, Vai, cursor, tela, Sozinha, Fazendo, Printers

(* The shell calls terminal_putc for what it does to the line. *)
LEMMA EcoShell ==
  ASSUME Tipos, Sozinha, DOMAIN car = Printers, Shell
  PROVE  Sozinha'
<1>0. /\ ap' = ap /\ ~ap /\ onde["app"] = "fora" /\ onde \in [Printers -> Passos]
      /\ linha \in Seq(Letras) /\ Visor
  BY DEF Shell, Prompt, Digita, Backspace, Enter, Executa, Sozinha, Tipos
<1>1. ASSUME NEW l \in Passos, onde' = [onde EXCEPT !["shell"] = l], UNCHANGED ram,
             linha' \in Seq(Letras), sh' \in {"prompt", "le", "executa"}
      PROVE  /\ onde'["shell"] = l
             /\ Fazendo' => Sozinha'
  BY <1>0, <1>1 DEF Sozinha, Visor, Printers
<1>2. CASE Prompt
  <2>1. Chama("shell", ">") /\ sh = "prompt" /\ sh' = "le" /\ linha' = <<>>
    BY <1>2 DEF Prompt
  <2>2. /\ UNCHANGED <<cx, cy, ram>> /\ Parada /\ car'["shell"] = ">"
        /\ onde' = [onde EXCEPT !["shell"] = "desenha"]
    BY <2>1, EcoChama
  <2>3. onde'["shell"] = "desenha" /\ (Fazendo' => Sozinha')
    BY <1>1, <2>1, <2>2 DEF Passos
  <2>4. cx = 0 /\ cx \in Cols /\ cy \in Rows /\ Abaixo(cy) /\ EmBranco(cy)
    BY <2>1, <2>2 DEF Parada
  <2>5. Ecoando'
    BY <2>1, <2>2, <2>3, <2>4 DEF Ecoando, Abaixo, EmBranco
  <2> QED
    BY <2>3, <2>5 DEF Fazendo
<1>3. ASSUME NEW c \in Letras, Digita(c) PROVE Sozinha'
  <2>1. Chama("shell", c) /\ sh = "le" /\ sh' = "le" /\ linha' = Append(linha, c)
    BY <1>3 DEF Digita
  <2>2. /\ UNCHANGED <<cx, cy, ram>> /\ Parada /\ car'["shell"] = c
        /\ onde' = [onde EXCEPT !["shell"] = "desenha"]
    <3>1. c \notin {"nl", "cr", "tab", "bs", "cls"}
      BY TelaIs
    <3> QED
      BY <2>1, <3>1, EcoChama
  <2>3. linha' \in Seq(Letras)
    BY <1>0, <2>1, AppendProperties
  <2>4. onde'["shell"] = "desenha" /\ (Fazendo' => Sozinha')
    BY <1>1, <2>1, <2>2, <2>3 DEF Passos
  <2>5. cx \in Cols /\ cy \in Rows /\ Abaixo(cy) /\ Fila(cy, cx, linha)
    BY <2>1, <2>2 DEF Parada
  <2>6. PICK s \in Seq(Letras) : s = linha
    BY <1>0
  <2>7. linha' = Append(s, c) /\ Fila(cy, cx, s)'
    BY <2>1, <2>2, <2>5, <2>6 DEF Fila
  <2>8. Ecoando'
    BY <2>1, <2>2, <2>4, <2>5, <2>7 DEF Ecoando, Abaixo
  <2> QED
    BY <2>4, <2>8 DEF Fazendo
<1>4. CASE Backspace
  <2>1. /\ Chama("shell", "bs") /\ sh = "le" /\ sh' = "le" /\ linha # <<>>
        /\ linha' = SubSeq(linha, 1, Len(linha) - 1)
    BY <1>4 DEF Backspace
  <2>2. /\ UNCHANGED <<cx, cy, ram>> /\ Parada
        /\ onde' = [onde EXCEPT !["shell"] = "testa"]
    BY <2>1, EcoChama
  <2>3. PICK s \in Seq(Letras), k \in Letras : linha = Append(s, k)
    BY <1>0, <2>1, SequenceEmptyOrAppend
  <2>4. SubSeq(linha, 1, Len(linha) - 1) = s
    <3>1. /\ Len(linha) = Len(s) + 1 /\ Len(s) \in Nat
          /\ \A i \in 1..Len(s) : linha[i] = s[i]
      BY <2>3, AppendProperties
    <3>2. Len(linha) - 1 = Len(s) /\ \A i \in 1..(Len(linha) - 1) : linha[i] \in Letras
      BY <3>1, ElementOfSeq
    <3>3. PICK m \in Nat : m = Len(linha) - 1 /\ m = Len(s)
      BY <3>1, <3>2
    <3>4. PICK t : t = linha
      OBVIOUS
    <3>5. /\ SubSeq(t, 1, m) \in Seq(Letras)
          /\ Len(SubSeq(t, 1, m)) = m
          /\ \A i \in 1..m : SubSeq(t, 1, m)[i] = t[i]
      <4>1. \A i \in 1..m : t[i] \in Letras
        BY <3>2, <3>3, <3>4
      <4>2. /\ SubSeq(t, 1, m) \in Seq(Letras)
            /\ Len(SubSeq(t, 1, m)) = IF 1 <= m THEN m - 1 + 1 ELSE 0
            /\ \A i \in 1..(m - 1 + 1) : SubSeq(t, 1, m)[i] = t[1 + i - 1]
        BY <4>1, SubSeqProperties
      <4> QED
        BY <4>2
    <3>6. PICK u \in Seq(Letras) : u = SubSeq(t, 1, m)
      BY <3>5
    <3>7. u = s
      BY <3>1, <3>3, <3>4, <3>5, <3>6, SeqEqual
    <3> QED
      BY <3>3, <3>4, <3>6, <3>7
  <2>5. linha' = s
    BY <2>1, <2>4
  <2>6. onde'["shell"] = "testa" /\ (Fazendo' => Sozinha')
    BY <1>1, <2>1, <2>2, <2>5 DEF Passos
  <2>7. cx \in Cols /\ cy \in Rows /\ Abaixo(cy) /\ Fila(cy, cx, linha)
    BY <2>1, <2>2 DEF Parada
  <2>8. Fila(cy, cx, Append(linha, k))'
    BY <2>2, <2>3, <2>5, <2>7 DEF Fila
  <2>9. Apagando'
    BY <2>1, <2>2, <2>6, <2>7, <2>8 DEF Apagando, Abaixo
  <2> QED
    BY <2>6, <2>9 DEF Fazendo
<1>5. CASE Enter
  <2>1. Chama("shell", "nl") /\ sh = "le" /\ sh' = "executa" /\ linha' = linha
    BY <1>5 DEF Enter
  <2>2. /\ UNCHANGED <<cx, cy, ram>> /\ Parada /\ car'["shell"] = "nl"
        /\ onde' = [onde EXCEPT !["shell"] = "margem"]
    BY <2>1, EcoChama
  <2>3. onde'["shell"] = "margem" /\ (Fazendo' => Sozinha')
    BY <1>0, <1>1, <2>1, <2>2 DEF Passos
  <2>4. Mudando'
    BY <2>1, <2>2, <2>3 DEF Mudando, Parada, Abaixo
  <2> QED
    BY <2>3, <2>4 DEF Fazendo
<1>6. CASE Executa
  <2>1. sh = "executa" /\ sh' = "prompt" /\ linha' = linha
    BY <1>6 DEF Executa
  <2>2. CASE Chama("shell", "cls")
    <3>1. UNCHANGED ram /\ onde' = [onde EXCEPT !["shell"] = "limpa"]
      BY <2>2, EcoChama
    <3>2. onde'["shell"] = "limpa" /\ (Fazendo' => Sozinha')
      BY <1>0, <1>1, <2>1, <3>1 DEF Passos
    <3>3. Limpando'
      BY <3>2 DEF Limpando
    <3> QED
      BY <3>2, <3>3 DEF Fazendo
  <2>3. CASE Em("shell", "fora") /\ UNCHANGED <<cursor, tela, onde, car, reg>>
    <3>1. onde["shell"] = "fora" /\ UNCHANGED <<cx, cy, ram, onde>>
      BY <2>3 DEF Em, cursor, tela
    <3>2. Parada
      BY <3>1 DEF Sozinha, Fazendo
    <3>3. Parada'
      BY <2>1, <3>1, <3>2 DEF Parada, Abaixo, EmBranco
    <3>4. Fazendo'
      BY <3>1, <3>3 DEF Fazendo
    <3> QED
      BY <1>0, <2>1, <3>1, <3>4 DEF Sozinha, Visor
  <2> QED
    BY <1>6, <2>2, <2>3 DEF Executa
<1> QED
  BY <1>2, <1>3, <1>4, <1>5, <1>6 DEF Shell

LEMMA EchoInit == CnInit => EchoInv
<1> SUFFICES ASSUME CnInit
             PROVE  EchoInv
  OBVIOUS
<1>1. /\ cx = 0 /\ cy = 0 /\ ram = Blank /\ linha = <<>> /\ sh = "prompt" /\ restam = MaxSinais
      /\ onde["shell"] = "fora" /\ onde["app"] = "fora" /\ DOMAIN car = Printers
  BY DEF CnInit, Printers
<1>2. ~ap
  BY Zenon DEF CnInit
<1>3. Visor /\ <<>> \in Seq(Letras)
  BY <1>1 DEF Visor, Blank
<1>4. Parada
  BY <1>1, TelaIs DEF Parada, Abaixo, EmBranco, Blank
<1>5. Sozinha
  BY <1>1, <1>2, <1>3, <1>4 DEF Sozinha, Fazendo
<1> QED
  BY <1>1, <1>5, CnAssumption DEF EchoInv

LEMMA EchoStep == Tipos /\ EchoInv /\ [CnNext]_cnVars => EchoInv'
<1> SUFFICES ASSUME Tipos, EchoInv, [CnNext]_cnVars
             PROVE  EchoInv'
  OBVIOUS
<1>0. restam \in 0..MaxSinais /\ MaxSinais \in Nat /\ DOMAIN car = Printers
  BY CnAssumption DEF EchoInv
<1>1. DOMAIN car' = Printers
  BY <1>0 DEF CnNext, Shell, Prompt, Digita, Backspace, Enter, Executa, App, SysWrite, SysWriteFim,
     SysClear, VideoFlip, SwapBuffers, Chama, Putc, Desenha, Apaga, CarregaX, CarregaY, GuardaX,
     GuardaY, Margem, Testa, Limpa, Topo, Copia, Copiou, Avisa, cnVars
<1>2. \/ restam' = restam - 1 /\ restam > 0
      \/ /\ restam' = restam
         /\ \/ Shell \/ SysWriteFim \/ SwapBuffers
            \/ (\E p \in Printers : Putc(p))
            \/ UNCHANGED cnVars
  <2>1. Shell => restam' = restam
    BY DEF Shell, Prompt, Digita, Backspace, Enter, Executa
  <2>2. SysWriteFim \/ SwapBuffers \/ (\E p \in Printers : Putc(p)) \/ UNCHANGED cnVars
          => restam' = restam
    BY DEF SysWriteFim, SwapBuffers, Putc, quem, cnVars
  <2>3. (\E c \in Sinais : SysWrite(c)) \/ SysClear \/ VideoFlip => restam' = restam - 1 /\ restam > 0
    BY DEF SysWrite, SysClear, VideoFlip
  <2> QED
    BY <2>1, <2>2, <2>3 DEF CnNext, App
<1>3. restam' \in 0..MaxSinais /\ (restam' = MaxSinais => restam' = restam)
  BY <1>0, <1>2
<1>4. ASSUME restam' = MaxSinais
      PROVE  Sozinha'
  <2>1. Sozinha /\ restam' = restam
    BY <1>3, <1>4 DEF EchoInv
  <2>2. CASE Shell
    BY <1>0, <2>1, <2>2, EcoShell
  <2>3. CASE SysWriteFim
    BY <2>1, <2>3 DEF SysWriteFim, Sozinha
  <2>4. CASE SwapBuffers \/ UNCHANGED cnVars
    <3>1. UNCHANGED <<cx, cy, ram, onde, car, reg, linha, sh, ap>>
      BY <2>4 DEF SwapBuffers, cursor, quem, tela, cnVars
    <3>2. Parada => Parada'
      BY <3>1 DEF Parada, Fila, Abaixo, EmBranco
    <3>3. Ecoando => Ecoando'
      BY <3>1 DEF Ecoando, Fila, Abaixo, EmBranco
    <3>4. Apagando => Apagando'
      BY <3>1 DEF Apagando, Fila, Abaixo
    <3>5. Mudando => Mudando'
      BY <3>1 DEF Mudando, Abaixo
    <3>6. Testando => Testando'
      BY <3>1 DEF Testando, Fila, Abaixo, EmBranco
    <3>7. Limpando => Limpando'
      BY <3>1 DEF Limpando, Blank
    <3> QED
      BY <2>1, <3>1, <3>2, <3>3, <3>4, <3>5, <3>6, <3>7 DEF Sozinha, Visor, Fazendo
  <2>5. ASSUME NEW p \in Printers, Putc(p)
        PROVE  Sozinha'
    BY <2>1, <2>5, EcoPutc
  <2> QED
    BY <1>0, <1>2, <2>1, <2>2, <2>3, <2>4, <2>5
<1> QED
  BY <1>1, <1>3, <1>4 DEF EchoInv

(* While the shell has the console for itself, what it shows up to the cursor is the  *)
(* end of the line it will execute and nothing is behind the cursor: for every size   *)
(* of the screen, across wraps, '\b' at the margin and the clear at the bottom        *)
(* (shell.c:61-80, video.c:185-223).                                                  *)
THEOREM EchoIsRight == CnSpec => []EchoIsLineEnd
<1>1. ASSUME EchoInv, restam = MaxSinais, sh = "le", onde["shell"] = "fora"
      PROVE  /\ Len(Visto) <= Len(linha)
             /\ \A k \in 1..Len(Visto) : Visto[k] = {linha[Len(linha) - Len(Visto) + k]}
             /\ \A c \in Cols : c >= cx => ram[cy][c] = {}
  <2>1. Fila(cy, cx, linha) /\ linha \in Seq(Letras) /\ Len(linha) \in Nat
    BY <1>1 DEF EchoInv, Sozinha, Fazendo, Parada
  <2>2. cx \in Nat
    BY <2>1, TelaIs DEF Fila
  <2>3. PICK x \in Nat, s \in Seq(Letras), y \in Rows : x = cx /\ s = linha /\ y = cy
    BY <2>1, <2>2 DEF Fila
  <2>4. \/ /\ x = Len(s) + 1 /\ ram[y][0] = {">"}
           /\ \A c \in 1..(x - 1) : ram[y][c] = {s[c]}
        \/ /\ x <= Len(s) /\ ram[y][0] # {">"}
           /\ \A c \in 0..(x - 1) : ram[y][c] = {s[Len(s) - x + 1 + c]}
    BY <2>1, <2>3, FilaIs
  <2>5. \A c \in Cols : c >= cx => ram[cy][c] = {}
    BY <2>1 DEF Fila
  <2>6. CASE /\ x = Len(s) + 1 /\ ram[y][0] = {">"}
             /\ \A c \in 1..(x - 1) : ram[y][c] = {s[c]}
    <3>1. Visto = [k \in 1..(x - 1) |-> ram[y][k]]
      BY <2>3, <2>6 DEF Visto
    <3>2. Len(Visto) = x - 1
      BY <2>3, <2>6, <3>1
    <3> QED
      BY <2>1, <2>3, <2>5, <2>6, <3>1, <3>2
  <2>7. CASE /\ x <= Len(s) /\ ram[y][0] # {">"}
             /\ \A c \in 0..(x - 1) : ram[y][c] = {s[Len(s) - x + 1 + c]}
    <3>1. Visto = [k \in 1..x |-> ram[y][k - 1]]
      BY <2>3, <2>7 DEF Visto
    <3>2. Len(Visto) = x
      BY <2>3, <3>1
    <3>3. ASSUME NEW k \in 1..x
          PROVE  Visto[k] = {s[Len(s) - x + k]}
      <4>1. Visto[k] = ram[y][k - 1] /\ k - 1 \in 0..(x - 1)
        BY <3>1, <2>3
      <4>2. ram[y][k - 1] = {s[Len(s) - x + 1 + (k - 1)]}
        BY <2>7, <4>1
      <4>3. Len(s) - x + 1 + (k - 1) = Len(s) - x + k
        BY <2>1, <2>3
      <4> QED
        BY <4>1, <4>2, <4>3
    <3> QED
      BY <2>1, <2>3, <2>5, <2>7, <3>2, <3>3
  <2> QED
    BY <2>4, <2>6, <2>7
<1>2. EchoInv => EchoIsLineEnd
  BY <1>1 DEF EchoIsLineEnd
<1> QED
  BY <1>2, EchoInit, EchoStep, TiposInit, TiposStep, CursorStep, PTL DEF CnSpec
=============================================================================
