----------------------------- MODULE GuiProofs -----------------------------
(***************************************************************************)
(* Proofs about module Gui, for every layout LayoutAssumption allows, any   *)
(* number of controls and windows, any clicks and keys, and any failure of  *)
(* realloc.  A turn of the loop is one step, so it is followed phase by     *)
(* phase: the key (Escreve), the press (Afunda, Toque), the loop's focus    *)
(* rule (Meio), the click (Acompanha), the handlers, the release, the paint.*)
(***************************************************************************)
EXTENDS Gui, SequenceTheorems, WellFoundedInduction, TLAPS

(* The two records, field by field. *)
Bib(g) ==
  g = [filhos |-> g.filhos, estado |-> g.estado, marcado |-> g.marcado, legenda |-> g.legenda,
       foco |-> g.foco, texto |-> g.texto, rolagem |-> g.rolagem, pilha |-> g.pilha,
       ativa |-> g.ativa, arrasto |-> g.arrasto, movidas |-> g.movidas, botao |-> g.botao,
       ultimo |-> g.ultimo]

Exe(a) ==
  a = [registro |-> a.registro, formas |-> a.formas, foco |-> a.foco, marcado |-> a.marcado,
       texto |-> a.texto, item |-> a.item, memo |-> a.memo, buffer |-> a.buffer, aloc |-> a.aloc,
       rolagem |-> a.rolagem, timer |-> a.timer, clique |-> a.clique, viva |-> a.viva]

(* The library's record: as many children as were created, marks among them. *)
BibTipos(g) ==
  /\ Bib(g)
  /\ g.filhos \in 0..Len(Ctl)
  /\ g.estado \in [DOMAIN Ctl -> Nat]
  /\ g.legenda = [c \in DOMAIN Ctl |-> g.legenda[c]]
  /\ g.marcado \subseteq 1..g.filhos
  /\ g.rolagem \in Nat

(* The window stack, with the main window in it; n windows were opened. *)
PilhaBoa(z, n) ==
  /\ z \in Seq(Nat) /\ Len(z) \in Nat /\ DOMAIN z = 1..Len(z)
  /\ \A i \in 1..Len(z) : z[i] \in 1..n
  /\ \E i \in 1..Len(z) : z[i] = PRINCIPAL

(* The layout, in terms of its points. *)
Sob(c, p) == p \in Ctl[c].area

LEMMA LayoutIs ==
  ASSUME lay \in Layouts
  PROVE  /\ Len(Ctl) \in Nat /\ DOMAIN Ctl = 1..Len(Ctl)
         /\ Len(lay.sub) \in Nat /\ DOMAIN lay.sub = 1..Len(lay.sub)
         /\ \A c \in DOMAIN Ctl :
              /\ c \in Nat /\ c # NULO
              /\ Tipo(c) \in Digita => c <= MaxRegistro
              /\ Tipo(c) = "check" => ~Ctl[c].liga
              /\ \A p : p \in Ctl[c].dentro => Sob(c, p)
              /\ \A p : Sob(c, p) => p \in Pontos
              /\ \A d \in DOMAIN Ctl : \A p : Sob(c, p) /\ Sob(d, p) => c = d
              /\ \A f \in DOMAIN lay.sub : \A p :
                   Sob(c, p) => p \notin lay.sub[f].area /\ p \notin lay.sub[f].titulo
<1>1. /\ Len(Ctl) \in Nat /\ DOMAIN Ctl = 1..Len(Ctl)
      /\ Len(lay.sub) \in Nat /\ DOMAIN lay.sub = 1..Len(lay.sub)
  BY LayoutAssumption DEF Ctl
<1>2. ASSUME NEW c \in DOMAIN Ctl
      PROVE  /\ Ctl[c].area \subseteq Pontos /\ Ctl[c].dentro \subseteq Ctl[c].area
             /\ Ctl[c].tipo \in Digita => c <= MaxRegistro
             /\ Ctl[c].tipo = "check" => ~Ctl[c].liga
             /\ \A d \in DOMAIN Ctl : c # d => Ctl[c].area \cap Ctl[d].area = {}
             /\ \A f \in DOMAIN lay.sub : Ctl[c].area \cap (lay.sub[f].area \cup lay.sub[f].titulo) = {}
  BY <1>2, LayoutAssumption DEF Ctl
<1>3. ASSUME NEW c \in DOMAIN Ctl
      PROVE  /\ c \in Nat /\ c # NULO
             /\ Tipo(c) \in Digita => c <= MaxRegistro
             /\ Tipo(c) = "check" => ~Ctl[c].liga
             /\ \A p : p \in Ctl[c].dentro => Sob(c, p)
             /\ \A p : Sob(c, p) => p \in Pontos
  <2>1. c \in Nat /\ c # NULO
    BY <1>1 DEF NULO
  <2> QED
    BY <1>2, <2>1 DEF Sob, Tipo
<1>4. ASSUME NEW c \in DOMAIN Ctl, NEW d \in DOMAIN Ctl, NEW p, Sob(c, p), Sob(d, p)
      PROVE  c = d
  BY <1>2, <1>4 DEF Sob
<1>5. ASSUME NEW c \in DOMAIN Ctl, NEW f \in DOMAIN lay.sub, NEW p, Sob(c, p)
      PROVE  p \notin lay.sub[f].area /\ p \notin lay.sub[f].titulo
  BY <1>2, <1>5 DEF Sob
<1> QED
  BY <1>1, <1>3, <1>4, <1>5

-----------------------------------------------------------------------------
(* Choosing the least and the greatest *)

LEMMA LeastOne ==
  ASSUME NEW T, T \subseteq Nat, T # {}
  PROVE  \E a \in T : \A x \in T : a <= x
<1>1. PICK a \in T : \A y \in T : ~(<<y, a>> \in OpToRel(<, Nat))
  BY NatLessThanWellFounded, WFMin, Zenon
<1>2. \A y \in T : ~(y < a)
  BY <1>1, Zenon DEF OpToRel
<1> QED
  BY <1>2

LEMMA GreatestOne ==
  ASSUME NEW n \in Nat, NEW T, T \subseteq 1..n, T # {}
  PROVE  \E a \in T : \A x \in T : x <= a
<1> DEFINE U == {n - x : x \in T}
<1>0. \A x \in T : x \in 1..n
  OBVIOUS
<1>1. U \subseteq Nat /\ U # {}
  <2>1. \A x \in T : n - x \in Nat
    BY <1>0
  <2> QED
    BY <2>1
<1>2. PICK u \in U : \A v \in U : u <= v
  BY <1>1, LeastOne
<1>3. PICK a \in T : u = n - a
  BY <1>2
<1>4. \A x \in T : n - x \in U
  OBVIOUS
<1>5. \A x \in T : n - a <= n - x
  BY <1>2, <1>3, <1>4
<1> HIDE DEF U
<1> QED
  <2> SUFFICES \A x \in T : x <= a
    BY <1>3
  <2> TAKE x \in T
  <2>1. x \in 1..n /\ a \in 1..n /\ n - a <= n - x
    BY <1>0, <1>3, <1>5
  <2> QED
    BY <2>1

-----------------------------------------------------------------------------
(* The window stack *)

(* The topmost window that holds a point: one that was opened; over a control, *)
(* the main window.                                                           *)
LEMMA AchaIs ==
  ASSUME lay \in Layouts, NEW g, NEW n \in 1..(Len(lay.sub) + 1), PilhaBoa(g.pilha, n), NEW p \in Pontos
  PROVE  /\ Acha(g, p) \in 1..n
         /\ \E i \in 1..Len(g.pilha) : g.pilha[i] = Acha(g, p)
         /\ \A c \in DOMAIN Ctl : Sob(c, p) => Acha(g, p) = PRINCIPAL
<1> DEFINE z == g.pilha
           ks == {i \in 1..Len(z) : p \in Area(z[i])}
           Topo(i) == p \in Area(z[i]) /\ \A j \in DOMAIN z : p \in Area(z[j]) => j <= i
<1>1. Len(z) \in Nat /\ DOMAIN z = 1..Len(z) /\ \A i \in 1..Len(z) : z[i] \in 1..n
  BY DEF PilhaBoa
<1>2. PICK m \in 1..Len(z) : z[m] = PRINCIPAL
  BY DEF PilhaBoa
<1>3. m \in ks
  BY <1>2 DEF Area
<1>4. PICK k \in ks : \A j \in ks : j <= k
  BY <1>1, <1>3, GreatestOne
<1>5. \E i \in DOMAIN z : Topo(i)
  <2>1. k \in DOMAIN z /\ Topo(k)
    BY <1>1, <1>4
  <2> QED
    BY <2>1
<1> DEFINE t == CHOOSE i \in DOMAIN z : Topo(i)
<1>6. t \in DOMAIN z /\ Topo(t)
  BY <1>5
<1>7. Acha(g, p) = z[t]
  BY Zenon DEF Acha
<1> HIDE DEF t
<1>8. Acha(g, p) \in 1..n /\ p \in Area(Acha(g, p)) /\ t \in 1..Len(z)
  BY <1>1, <1>6, <1>7
<1>9. ASSUME NEW c \in DOMAIN Ctl, Sob(c, p), Acha(g, p) # PRINCIPAL
      PROVE  FALSE
  <2>1. PICK f : f = Acha(g, p)
    OBVIOUS
  <2>2. f - 1 \in DOMAIN lay.sub /\ p \in lay.sub[f - 1].area
    BY <1>8, <1>9, <2>1, LayoutIs DEF Area, PRINCIPAL
  <2> QED
    BY <1>9, <2>2, LayoutIs
<1> QED
  BY <1>7, <1>8, <1>9

(* Bringing a window to the front keeps the stack, and nothing else moves. *)
LEMMA FrenteIs ==
  ASSUME NEW g, Bib(g), NEW n \in Nat, PilhaBoa(g.pilha, n), NEW f \in 1..n,
         \E i \in 1..Len(g.pilha) : g.pilha[i] = f
  PROVE  \E z : PilhaBoa(z, n) /\ TrazParaFrente(g, f) = [g EXCEPT !.pilha = z]
<1> DEFINE v == g.pilha
           q == Len(g.pilha)
           i == CHOOSE k \in 1..q : v[k] = f
           z == [k \in 1..q |-> IF k < i THEN v[k] ELSE IF k < q THEN v[k + 1] ELSE f]
<1>1. i \in 1..q /\ v[i] = f
  OBVIOUS
<1>2. TrazParaFrente(g, f) = [g EXCEPT !.pilha = z]
  BY DEF TrazParaFrente
<1> HIDE DEF i
<1>3. q \in Nat /\ \A k \in 1..q : v[k] \in 1..n
  BY DEF PilhaBoa
<1>4. PICK m \in 1..q : v[m] = PRINCIPAL
  BY DEF PilhaBoa
<1>5. Len(z) = q /\ DOMAIN z = 1..q
  BY <1>3
<1>6. \A k \in 1..q : z[k] \in 1..n
  <2> SUFFICES ASSUME NEW k \in 1..q
               PROVE  z[k] \in 1..n
    OBVIOUS
  <2>1. k < q => k + 1 \in 1..q
    BY <1>3
  <2> QED
    BY <1>3, <2>1
<1>7. \E k \in 1..q : z[k] = PRINCIPAL
  <2>1. CASE m < i
    BY <1>1, <1>3, <1>4, <2>1
  <2>2. CASE m = i
    <3>1. q \in 1..q /\ ~(q < i)
      BY <1>1, <1>3
    <3>2. z[q] = f
      BY <1>3, <3>1
    <3> QED
      BY <1>1, <1>4, <2>2, <3>1, <3>2
  <2>3. CASE m > i
    <3>1. m - 1 \in 1..q /\ ~(m - 1 < i) /\ m - 1 < q /\ (m - 1) + 1 = m
      BY <1>1, <1>3, <1>4, <2>3
    <3>2. z[m - 1] = v[m]
      BY <3>1
    <3> QED
      BY <1>4, <3>1, <3>2
  <2>4. m < i \/ m = i \/ m > i
    BY <1>1, <1>3, <1>4
  <2> QED
    BY <2>1, <2>2, <2>3, <2>4
<1>8. z \in Seq(Nat)
  <2>1. \A k \in 1..q : z[k] \in Nat
    <3> HIDE DEF z
    <3> QED
      BY <1>6
  <2>2. z \in [1..q -> Nat]
    <3>1. z = [k \in 1..q |-> z[k]]
      OBVIOUS
    <3> HIDE DEF z
    <3> QED
      BY <2>1, <3>1
  <2> HIDE DEF z
  <2> QED
    BY <1>3, <2>2, SeqDef
<1> QED
  BY <1>2, <1>3, <1>5, <1>6, <1>7, <1>8 DEF PilhaBoa

-----------------------------------------------------------------------------
(* The text of a memo *)

LEMMA QuebraIs ==
  ASSUME NEW q, NEW x, q = [lin |-> q.lin, col |-> q.col], q.lin \in Nat, q.col \in Nat
  PROVE  LET z == Quebra(q, x)
         IN  z = [lin |-> z.lin, col |-> z.col] /\ z.lin \in Nat /\ z.col \in Nat
BY DEF Quebra

Posicao(q) == q = [lin |-> q.lin, col |-> q.col] /\ q.lin \in Nat /\ q.col \in Nat

Passos(f, t, n) ==
  f = [k \in 0..n |-> IF k = 0 THEN [lin |-> 0, col |-> 0] ELSE Quebra(f[k - 1], t[k])]

LEMMA PassosExiste ==
  ASSUME NEW t, NEW n \in Nat
  PROVE  \E f : Passos(f, t, n)
<1> DEFINE T == {k \in Nat : ~\E f : Passos(f, t, k)}
<1> SUFFICES ASSUME T # {}
             PROVE  FALSE
  OBVIOUS
<1>1. PICK m \in T : \A x \in T : m <= x
  BY LeastOne
<1>2. CASE m = 0
  <2> DEFINE f == [k \in 0..0 |-> [lin |-> 0, col |-> 0]]
  <2>1. Passos(f, t, 0)
    BY DEF Passos
  <2> QED
    BY <1>2, <2>1
<1>3. CASE m # 0
  <2>1. m - 1 \in Nat /\ m - 1 \notin T
    BY <1>1, <1>3
  <2>2. PICK f : Passos(f, t, m - 1)
    BY <2>1
  <2> DEFINE g == [k \in 0..m |-> IF k = m THEN Quebra(f[m - 1], t[m]) ELSE f[k]]
             h == [k \in 0..m |-> IF k = 0 THEN [lin |-> 0, col |-> 0] ELSE Quebra(g[k - 1], t[k])]
  <2>3. ASSUME NEW k \in 0..m
        PROVE  g[k] = h[k]
    <3>1. CASE k = m
      <4>1. m - 1 \in 0..m /\ m - 1 # m /\ m \in 0..m
        BY <1>3
      <4> QED
        BY <1>3, <3>1, <4>1
    <3>2. CASE k # m
      <4>1. k \in 0..(m - 1)
        BY <3>2
      <4>2. f[k] = IF k = 0 THEN [lin |-> 0, col |-> 0] ELSE Quebra(f[k - 1], t[k])
        BY <2>2, <4>1 DEF Passos
      <4>3. k # 0 => k - 1 \in 0..m /\ k - 1 # m
        BY <3>2
      <4> QED
        BY <3>2, <4>2, <4>3
    <3> QED
      BY <3>1, <3>2
  <2>4. g = h
    <3> HIDE DEF g, h
    <3>1. g = [k \in 0..m |-> g[k]] /\ h = [k \in 0..m |-> h[k]]
      BY DEF g, h
    <3> QED
      BY <2>3, <3>1
  <2>5. Passos(g, t, m)
    <3> HIDE DEF g
    <3> QED
      BY <2>4 DEF Passos
  <2> QED
    BY <2>5
<1> QED
  BY <1>2, <1>3

LEMMA PassosEm ==
  ASSUME NEW t, NEW n \in Nat, NEW f, Passos(f, t, n)
  PROVE  Posicao(f[n])
<1> DEFINE T == {k \in Nat : k <= n /\ ~Posicao(f[k])}
<1> SUFFICES ASSUME T # {}
             PROVE  FALSE
  OBVIOUS
<1>1. PICK m \in T : \A x \in T : m <= x
  BY LeastOne
<1>2. m \in 0..n
  BY <1>1
<1>3. f[m] = IF m = 0 THEN [lin |-> 0, col |-> 0] ELSE Quebra(f[m - 1], t[m])
  BY <1>2 DEF Passos
<1>4. CASE m = 0
  BY <1>1, <1>3, <1>4 DEF Posicao
<1>5. CASE m # 0
  <2>1. m - 1 \in Nat /\ m - 1 <= n /\ ~(m <= m - 1)
    BY <1>2, <1>5
  <2>2. Posicao(f[m - 1])
    BY <1>1, <2>1
  <2>3. Posicao(Quebra(f[m - 1], t[m]))
    BY <2>2, QuebraIs DEF Posicao
  <2> QED
    BY <1>1, <1>3, <1>5, <2>3
<1> QED
  BY <1>4, <1>5

LEMMA TotalIs ==
  ASSUME NEW t, Len(t) \in Nat
  PROVE  Total(t) \in Nat \ {0}
<1> DEFINE f == CHOOSE g : Passos(g, t, Len(t))
           q == f[Len(t)]
           n == q.lin + (IF q.col > 0 THEN 1 ELSE 0)
<1>1. Passos(f, t, Len(t))
  BY PassosExiste
<1>2. Posicao(q)
  <2> HIDE DEF f
  <2> QED
    BY <1>1, PassosEm
<1>3. Total(t) = IF n = 0 THEN 1 ELSE n
  BY DEF Total, Passos
<1> HIDE DEF q
<1> QED
  BY <1>2, <1>3 DEF Posicao

LEMMA TravaIs ==
  ASSUME NEW r \in Nat, NEW t, Len(t) \in Nat
  PROVE  Trava(r, t) \in Nat /\ Trava(r, t) < Total(t)
BY TotalIs, GuiAssumption DEF Trava

-----------------------------------------------------------------------------
(* The invariant *)

(* The runtime's record: the twins of the first n controls, as many as fit. *)
ExeTipos(a, n) ==
  /\ Exe(a)
  /\ a.registro \in Seq(Nat)
  /\ Len(a.registro) = IF n < MaxRegistro THEN n ELSE MaxRegistro
  /\ \A i \in 1..Len(a.registro) : a.registro[i] = i
  /\ a.marcado \subseteq 1..n
  /\ a.foco = NULO \/ (a.foco \in DOMAIN Ctl /\ Tipo(a.foco) \in Digita)
  /\ a.texto = [c \in DOMAIN Ctl |-> a.texto[c]]
  /\ a.item = [c \in DOMAIN Ctl |-> a.item[c]]
  /\ a.memo \in Seq({"x", "n"}) /\ a.aloc \in Nat /\ a.buffer \in Nat \ {NULO}
  /\ a.rolagem \in Nat /\ a.timer \in Nat
  /\ a.formas \in 1..(Len(lay.sub) + 1)

Tipos(s) ==
  /\ s = [g |-> s.g, a |-> s.a]
  /\ BibTipos(s.g) /\ ExeTipos(s.a, s.g.filhos) /\ PilhaBoa(s.g.pilha, s.a.formas)

(* Nothing is pressed without the timer; with it, what sank lies under the click, *)
(* or is a button, which rises with the timer's end.                              *)
Pressao(s) ==
  /\ s.g.movidas = {}
  /\ s.a.timer = 0 => s.g.botao = 0 /\ ~s.g.arrasto /\ \A c \in DOMAIN Ctl : s.g.estado[c] # 2
  /\ s.a.timer > 0 =>
       /\ s.g.botao = 1 /\ s.g.ultimo = s.a.clique /\ s.a.clique \in Pontos
       /\ \A c \in DOMAIN Ctl : s.g.estado[c] = 2 => c \in Botoes \/ Sob(c, s.a.clique)

(* The library's caret is where the runtime sends the keys. *)
Cursor(s) == \A c \in DOMAIN Ctl : Tipo(c) \in Digita /\ s.g.foco = c => s.a.foco = c

(* What the library paints of the twins is what the runtime holds. *)
Gemeos(s) ==
  \A c \in 1..Len(s.a.registro) :
    /\ Tipo(c) = "check" => (c \in s.g.marcado <=> c \in s.a.marcado)
    /\ Tipo(c) = "radio" => (c \in s.g.marcado => c \in s.a.marcado)
    /\ Tipo(c) = "combo" /\ Ctl[c].itens > 0 => s.g.legenda[c][1] = s.a.item[c] + 1

(* The library reads the live buffer, and the text fits in it. *)
MemoVivo(s) == s.g.texto \in {NULO, s.a.buffer} /\ Len(s.a.memo) < s.a.aloc

(* Nothing is written before the window is complete. *)
Inicio(s) ==
  s.g.filhos < Len(Ctl) =>
    /\ s.g.texto = NULO /\ s.g.rolagem = 0 /\ s.a.memo = <<>>
    /\ \A c \in DOMAIN Ctl : s.a.item[c] = 0

(* At the end of a turn the memo shows some of its text. *)
Mostrado(s) == s.g.rolagem < Total(TextoVisto(s.g, s.a))

Firme(s) == Tipos(s) /\ Pressao(s) /\ Cursor(s) /\ Gemeos(s) /\ MemoVivo(s)

GuInv ==
  LET s == [g |-> gui, a |-> rt]
  IN  lay \in Layouts /\ Firme(s) /\ Inicio(s) /\ Mostrado(s)

-----------------------------------------------------------------------------
(* Writing: captions of edits and the memo's text *)

Escreve(s, t) ==
  /\ t = [g |-> t.g, a |-> t.a] /\ Bib(t.g) /\ Exe(t.a)
  /\ t.g.filhos = s.g.filhos /\ t.g.estado = s.g.estado /\ t.g.marcado = s.g.marcado
  /\ t.g.legenda = [c \in DOMAIN Ctl |-> t.g.legenda[c]]
  /\ \A c \in DOMAIN Ctl : Tipo(c) # "edit" => t.g.legenda[c] = s.g.legenda[c]
  /\ t.g.foco = s.g.foco /\ t.g.rolagem = s.g.rolagem /\ t.g.pilha = s.g.pilha
  /\ t.g.ativa = s.g.ativa /\ t.g.arrasto = s.g.arrasto /\ t.g.movidas = s.g.movidas
  /\ t.g.botao = s.g.botao /\ t.g.ultimo = s.g.ultimo
  /\ t.a.registro = s.a.registro /\ t.a.formas = s.a.formas /\ t.a.foco = s.a.foco
  /\ t.a.marcado = s.a.marcado /\ t.a.item = s.a.item /\ t.a.rolagem = s.a.rolagem
  /\ t.a.timer = s.a.timer /\ t.a.clique = s.a.clique /\ t.a.viva = s.a.viva
  /\ t.a.texto = [c \in DOMAIN Ctl |-> t.a.texto[c]]
  /\ t.a.memo \in Seq({"x", "n"}) /\ t.a.aloc \in Nat /\ t.a.buffer \in Nat \ {NULO}
  /\ MemoVivo(t)

LEMMA EscreveKeeps ==
  ASSUME NEW s, NEW t, lay \in Layouts, Tipos(s), Escreve(s, t)
  PROVE  /\ Tipos(t) /\ MemoVivo(t)
         /\ Pressao(s) => Pressao(t)
         /\ Cursor(s) => Cursor(t)
         /\ Gemeos(s) => Gemeos(t)
<1>1. Tipos(t)
  BY DEF Escreve, Tipos, BibTipos, ExeTipos
<1>2. Pressao(s) => Pressao(t)
  BY DEF Escreve, Pressao
<1>3. Cursor(s) => Cursor(t)
  BY DEF Escreve, Cursor
<1>4. ASSUME Gemeos(s)
      PROVE  Gemeos(t)
  <2> SUFFICES ASSUME NEW c \in 1..Len(s.a.registro)
               PROVE  /\ Tipo(c) = "check" => (c \in t.g.marcado <=> c \in t.a.marcado)
                      /\ Tipo(c) = "radio" => (c \in t.g.marcado => c \in t.a.marcado)
                      /\ Tipo(c) = "combo" /\ Ctl[c].itens > 0 => t.g.legenda[c][1] = t.a.item[c] + 1
    BY DEF Escreve, Gemeos
  <2>1. c \in DOMAIN Ctl
    BY LayoutIs, GuiAssumption DEF Tipos, ExeTipos, BibTipos
  <2>2. Tipo(c) # "edit" => t.g.legenda[c] = s.g.legenda[c]
    BY <2>1 DEF Escreve
  <2>3. t.g.marcado = s.g.marcado /\ t.a.marcado = s.a.marcado /\ t.a.item = s.a.item
    BY DEF Escreve
  <2> QED
    BY <1>4, <2>2, <2>3 DEF Gemeos
<1> QED
  BY <1>1, <1>2, <1>3, <1>4 DEF Escreve

LEMMA EscreveNada ==
  ASSUME NEW s, Tipos(s), MemoVivo(s)
  PROVE  Escreve(s, s)
BY DEF Tipos, BibTipos, ExeTipos, Escreve

LEMMA EscreveSegue ==
  ASSUME NEW s, NEW t, NEW u, Escreve(s, t), Escreve(t, u)
  PROVE  Escreve(s, u)
BY DEF Escreve

LEMMA EditIs ==
  ASSUME NEW s, Tipos(s), MemoVivo(s), NEW c \in DOMAIN Ctl, Tipo(c) = "edit", NEW k
  PROVE  Escreve(s, EditTecla(s, c, k))
<1> DEFINE t == s.a.texto[c]
           u == IF k = "bs" THEN (IF t = <<>> THEN t ELSE Front(t))
                ELSE IF k # "n" /\ Len(t) < LimiteEdit THEN Append(t, k) ELSE t
<1>1. EditTecla(s, c, k) = [g |-> PropLegenda(s.g, c, u), a |-> [s.a EXCEPT !.texto[c] = u]]
  BY DEF EditTecla
<1> HIDE DEF u
<1> DEFINE z == [g |-> [s.g EXCEPT !.legenda[c] = u], a |-> [s.a EXCEPT !.texto[c] = u]]
<1>2. z.g.legenda = [d \in DOMAIN Ctl |-> z.g.legenda[d]] /\ z.a.texto = [d \in DOMAIN Ctl |-> z.a.texto[d]]
  BY DEF Tipos, BibTipos, ExeTipos, Bib, Exe
<1>3. \A d \in DOMAIN Ctl : Tipo(d) # "edit" => z.g.legenda[d] = s.g.legenda[d]
  BY DEF Tipos, BibTipos, Bib
<1>4. Escreve(s, z)
  BY <1>2, <1>3 DEF Tipos, BibTipos, ExeTipos, Bib, Exe, Escreve, MemoVivo
<1> QED
  BY <1>1, <1>4 DEF PropLegenda

LEMMA MemoIs ==
  ASSUME NEW s, Tipos(s), MemoVivo(s), NEW k \in {"x", "n", "bs"}, NEW ok
  PROVE  Escreve(s, MemoTecla(s, k, ok))
<1> DEFINE m == IF k = "bs" THEN (IF s.a.memo = <<>> THEN s.a.memo ELSE Front(s.a.memo))
                ELSE Append(s.a.memo, k)
           cresce == k # "bs" /\ Cresce(s.a)
           al == IF cresce THEN s.a.aloc * 2 ELSE s.a.aloc
           bu == IF cresce THEN s.a.buffer + 1 ELSE s.a.buffer
           z == [g |-> [s.g EXCEPT !.texto = bu],
                 a |-> [s.a EXCEPT !.memo = m, !.aloc = al, !.buffer = bu]]
<1>1. MemoTecla(s, k, ok) \in {s, z}
  BY DEF MemoTecla, PropTexto, Tipos, ExeTipos, Exe
<1>2. s.a.memo \in Seq({"x", "n"}) /\ Len(s.a.memo) \in Nat /\ s.a.aloc \in Nat /\ s.a.buffer \in Nat \ {NULO}
      /\ Len(s.a.memo) < s.a.aloc
  BY LenProperties DEF Tipos, ExeTipos, MemoVivo
<1>3. m \in Seq({"x", "n"}) /\ Len(m) < al
  <2>1. CASE k = "bs" /\ s.a.memo = <<>>
    BY <1>2, <2>1
  <2>2. CASE k = "bs" /\ s.a.memo # <<>>
    <3>1. Front(s.a.memo) \in Seq({"x", "n"}) /\ Len(Front(s.a.memo)) = Len(s.a.memo) - 1
      BY <1>2, <2>2 DEF Front
    <3> QED
      BY <1>2, <2>2, <3>1
  <2>3. CASE k # "bs"
    <3>1. k \in {"x", "n"}
      BY <2>3
    <3>2. m \in Seq({"x", "n"}) /\ Len(m) = Len(s.a.memo) + 1
      BY <1>2, <2>3, <3>1
    <3>3. Len(s.a.memo) + 1 < al
      BY <1>2, <2>3 DEF Cresce
    <3> QED
      BY <3>2, <3>3
  <2> QED
    BY <2>1, <2>2, <2>3
<1>4. al \in Nat /\ bu \in Nat \ {NULO}
  BY <1>2 DEF NULO
<1> HIDE DEF m, al, bu
<1>5. Escreve(s, z)
  BY <1>3, <1>4 DEF Tipos, BibTipos, ExeTipos, Bib, Exe, Escreve, MemoVivo
<1> QED
  BY <1>1, <1>5, EscreveNada

(* The keys a turn can bring, and none. *)
Chaves == {"x", "n", "bs", ""}

LEMMA TecladoIs ==
  ASSUME NEW s, lay \in Layouts, Tipos(s), MemoVivo(s), NEW k \in Chaves, NEW ok
  PROVE  Escreve(s, Teclado(s, k, ok))
<1>1. CASE k = "" \/ s.a.foco = NULO
  BY <1>1, EscreveNada DEF Teclado
<1>2. CASE ~(k = "" \/ s.a.foco = NULO)
  <2>1. k \in {"x", "n", "bs"} /\ s.a.foco \in DOMAIN Ctl
    <3>1. k \in {"x", "n", "bs"}
      BY <1>2, Zenon DEF Chaves
    <3>2. s.a.foco = NULO \/ s.a.foco \in DOMAIN Ctl
      BY DEF Tipos, ExeTipos
    <3>3. s.a.foco # NULO
      BY <1>2, Zenon
    <3> QED
      BY <3>1, <3>2, <3>3
  <2>2. Escreve(s, MemoTecla(s, k, ok))
    BY <2>1, MemoIs
  <2>3. Tipo(s.a.foco) = "edit" => Escreve(s, EditTecla(s, s.a.foco, k))
    BY <2>1, EditIs
  <2>4. Teclado(s, k, ok) = IF Tipo(s.a.foco) = "edit" THEN EditTecla(s, s.a.foco, k) ELSE MemoTecla(s, k, ok)
    BY <1>2 DEF Teclado
  <2> QED
    BY <2>2, <2>3, <2>4
<1> QED
  BY <1>1, <1>2

LEMMA FraseIs ==
  ASSUME NEW s, lay \in Layouts, Tipos(s), MemoVivo(s), NEW ok
  PROVE  Escreve(s, MemoFrase(s, ok))
<1> DEFINE t == MemoTecla(s, "x", ok)
           u == MemoTecla(t, "n", ok)
<1>1. Escreve(s, t)
  BY MemoIs
<1> HIDE DEF t
<1>2. Tipos(t) /\ MemoVivo(t)
  BY <1>1, EscreveKeeps
<1>3. Escreve(t, u)
  BY <1>2, MemoIs
<1>4. Escreve(s, u)
  BY <1>1, <1>3, EscreveSegue
<1> QED
  BY <1>4, EscreveNada DEF MemoFrase, t

-----------------------------------------------------------------------------
(* The press *)

(* What the press at p does to the library's side: only what lies under p sinks,   *)
(* is toggled, or takes the mark of the radio buttons, and it has the focus.       *)
Afunda(g, h, p) ==
  /\ BibTipos(h) /\ h.filhos = g.filhos /\ h.legenda = g.legenda /\ h.texto = g.texto
  /\ h.rolagem = g.rolagem /\ h.movidas = g.movidas
  /\ \A c \in DOMAIN Ctl :
       /\ h.estado[c] = 2 => g.estado[c] = 2 \/ Sob(c, p)
       /\ Tipo(c) = "check" => (c \in h.marcado <=> IF Sob(c, p) THEN c \notin g.marcado ELSE c \in g.marcado)
       /\ Tipo(c) = "radio" /\ c \in h.marcado
            => \/ Sob(c, p)
               \/ c \in g.marcado /\ \A d \in DOMAIN Ctl : Tipo(d) = "radio" => ~Sob(d, p)
       /\ Sob(c, p) => h.foco = c

LEMMA PressionaIs ==
  ASSUME lay \in Layouts, NEW g, BibTipos(g), g.filhos = Len(Ctl), NEW p \in Pontos
  PROVE  /\ Afunda(g, Pressiona(g, p), p)
         /\ Pressiona(g, p).pilha = g.pilha
<1> DEFINE alvo == {c \in Filhos(g) : Dentro(c, p)}
           a == CHOOSE c \in alvo : \A d \in alvo : d <= c
<1>0. /\ Len(Ctl) \in Nat /\ DOMAIN Ctl = 1..Len(Ctl)
      /\ \A c, d \in DOMAIN Ctl : Sob(c, p) /\ Sob(d, p) => c = d
      /\ alvo = {c \in DOMAIN Ctl : Sob(c, p)}
  BY LayoutIs DEF Filhos, Dentro, Sob
<1>1. CASE alvo = {}
  <2>1. Pressiona(g, p) = [g EXCEPT !.foco = NULO]
    BY <1>1 DEF Pressiona
  <2>2. \A c \in DOMAIN Ctl : ~Sob(c, p)
    BY <1>0, <1>1
  <2> QED
    BY <2>1, <2>2 DEF BibTipos, Bib, Afunda
<1>2. CASE alvo # {}
  <2>1. PICK b \in alvo : \A d \in alvo : d <= b
    BY <1>0, <1>2, GreatestOne
  <2>2. a \in alvo
    BY <2>1
  <2> HIDE DEF a
  <2>3. \A c \in DOMAIN Ctl : Sob(c, p) <=> c = a
    BY <1>0, <2>2
  <2>4. a \in DOMAIN Ctl /\ a \in 1..g.filhos
    BY <1>0, <2>2
  <2>5. Pressiona(g, p) =
          CASE Tipo(a) = "check" -> [[g EXCEPT !.foco = a] EXCEPT !.marcado = SymDiff(@, {a})]
            [] Tipo(a) = "radio" ->
                 [[g EXCEPT !.foco = a] EXCEPT !.marcado = {c \in @ : Tipo(c) # "radio"} \union {a}]
            [] OTHER -> [[g EXCEPT !.foco = a] EXCEPT !.estado[a] = 2]
    BY <1>2 DEF Pressiona, a
  <2>6. CASE Tipo(a) = "check"
    <3> DEFINE m == SymDiff(g.marcado, {a})
    <3>1. Pressiona(g, p) = [g EXCEPT !.foco = a, !.marcado = m]
      BY <2>5, <2>6 DEF BibTipos, Bib
    <3>2. m \subseteq 1..g.filhos /\ \A c : c \in m <=> IF c = a THEN c \notin g.marcado ELSE c \in g.marcado
      BY <2>4 DEF SymDiff, BibTipos
    <3> HIDE DEF m
    <3> QED
      BY <2>3, <2>6, <3>1, <3>2 DEF BibTipos, Bib, Afunda
  <2>7. CASE Tipo(a) = "radio"
    <3> DEFINE m == {c \in g.marcado : Tipo(c) # "radio"} \union {a}
    <3>1. Pressiona(g, p) = [g EXCEPT !.foco = a, !.marcado = m]
      BY <2>5, <2>7 DEF BibTipos, Bib
    <3>2. m \subseteq 1..g.filhos /\ \A c : c \in m <=> c = a \/ (c \in g.marcado /\ Tipo(c) # "radio")
      BY <2>4 DEF BibTipos
    <3> HIDE DEF m
    <3> QED
      BY <2>3, <2>7, <3>1, <3>2 DEF BibTipos, Bib, Afunda
  <2>8. CASE Tipo(a) # "check" /\ Tipo(a) # "radio"
    <3> DEFINE e == [g.estado EXCEPT ![a] = 2]
    <3>1. Pressiona(g, p) = [g EXCEPT !.foco = a, !.estado = e]
      BY <2>5, <2>8 DEF BibTipos, Bib
    <3>2. e \in [DOMAIN Ctl -> Nat] /\ \A c \in DOMAIN Ctl : e[c] = IF c = a THEN 2 ELSE g.estado[c]
      BY <2>4 DEF BibTipos
    <3> HIDE DEF e
    <3>3. \A d \in DOMAIN Ctl : Tipo(d) = "radio" => ~Sob(d, p)
      BY <2>3, <2>8
    <3> QED
      BY <2>3, <2>8, <3>1, <3>2, <3>3, ZenonT(30) DEF BibTipos, Bib, Afunda
  <2> QED
    BY <2>6, <2>7, <2>8
<1> QED
  BY <1>1, <1>2

LEMMA DesceIs ==
  ASSUME lay \in Layouts, NEW g, BibTipos(g), g.filhos = Len(Ctl), NEW p \in Pontos,
         NEW n \in 1..(Len(lay.sub) + 1), PilhaBoa(g.pilha, n)
  PROVE  /\ Afunda(g, Desce(g, p), p)
         /\ PilhaBoa(Desce(g, p).pilha, n)
<1> DEFINE f == Acha(g, p)
           t == [TrazParaFrente(g, f) EXCEPT !.ativa = f]
<1>0. n \in Nat
  BY LayoutIs
<1>1. /\ f \in 1..n
      /\ \E i \in 1..Len(g.pilha) : g.pilha[i] = f
      /\ \A c \in DOMAIN Ctl : Sob(c, p) => f = PRINCIPAL
  BY AchaIs
<1> HIDE DEF f
<1>2. PICK z : PilhaBoa(z, n) /\ TrazParaFrente(g, f) = [g EXCEPT !.pilha = z]
  BY <1>0, <1>1, FrenteIs DEF BibTipos
<1>3. t = [g EXCEPT !.pilha = z, !.ativa = f]
  BY <1>2 DEF BibTipos, Bib
<1> HIDE DEF t
<1>4. BibTipos(t) /\ t.filhos = g.filhos /\ PilhaBoa(t.pilha, n)
  BY <1>2, <1>3 DEF BibTipos, Bib
<1>5. Desce(g, p) = IF p \in Titulo(f) THEN [t EXCEPT !.arrasto = TRUE]
                    ELSE IF f = PRINCIPAL THEN Pressiona(t, p) ELSE [t EXCEPT !.foco = NULO]
  BY DEF Desce, f, t
<1>6. CASE p \notin Titulo(f) /\ f = PRINCIPAL
  <2>1. Afunda(t, Pressiona(t, p), p) /\ Pressiona(t, p).pilha = t.pilha
    BY <1>4, PressionaIs
  <2>2. PICK h : h = Pressiona(t, p)
    OBVIOUS
  <2>3. /\ t.legenda = g.legenda /\ t.texto = g.texto /\ t.rolagem = g.rolagem /\ t.movidas = g.movidas
        /\ t.estado = g.estado /\ t.marcado = g.marcado
    BY <1>3 DEF BibTipos, Bib
  <2>4. Afunda(g, h, p)
    BY <1>4, <2>1, <2>2, <2>3 DEF Afunda
  <2> QED
    BY <1>4, <1>5, <1>6, <2>1, <2>2, <2>4
<1>7. CASE ~(p \notin Titulo(f) /\ f = PRINCIPAL)
  <2>1. \A c \in DOMAIN Ctl : ~Sob(c, p)
    <3> SUFFICES ASSUME NEW c \in DOMAIN Ctl, Sob(c, p)
                 PROVE  FALSE
      OBVIOUS
    <3>1. f = PRINCIPAL
      BY <1>1
    <3> QED
      BY <1>7, <3>1 DEF Titulo
  <2>2. PICK h : h = Desce(g, p)
    OBVIOUS
  <2>3. h = [t EXCEPT !.arrasto = TRUE] \/ h = [t EXCEPT !.foco = NULO]
    BY <1>5, <1>7, <2>2
  <2>4. Afunda(g, h, p) /\ h.pilha = t.pilha
    BY <1>3, <2>1, <2>3, ZenonT(30) DEF BibTipos, Bib, Afunda
  <2> QED
    BY <1>4, <2>2, <2>4
<1> QED
  BY <1>6, <1>7

LEMMA PairaIs ==
  ASSUME NEW g, BibTipos(g), NEW p
  PROVE  LET h == Paira(g, p)
         IN  /\ BibTipos(h) /\ h.filhos = g.filhos /\ h.legenda = g.legenda /\ h.texto = g.texto
             /\ h.rolagem = g.rolagem /\ h.movidas = g.movidas /\ h.marcado = g.marcado
             /\ h.pilha = g.pilha
             /\ \A c \in DOMAIN Ctl : h.estado[c] = 2 => g.estado[c] = 2
<1> DEFINE e == [c \in DOMAIN Ctl |->
                   IF c \notin Filhos(g) THEN g.estado[c]
                   ELSE IF Dentro(c, p) THEN (IF g.estado[c] # 2 THEN 1 ELSE 2)
                   ELSE IF g.estado[c] = 1 THEN 0 ELSE g.estado[c]]
<1>1. Paira(g, p) = [g EXCEPT !.estado = e]
  BY DEF Paira
<1>2. e \in [DOMAIN Ctl -> Nat] /\ \A c \in DOMAIN Ctl : e[c] = 2 => g.estado[c] = 2
  BY DEF BibTipos
<1> HIDE DEF e
<1> QED
  BY <1>1, <1>2 DEF BibTipos, Bib

(* Records that differ in where they scroll, in the focus, the button and the timer. *)
MesmaBib(g, h) ==
  /\ Bib(h) /\ h.filhos = g.filhos /\ h.estado = g.estado /\ h.marcado = g.marcado
  /\ h.legenda = g.legenda /\ h.texto = g.texto /\ h.rolagem = g.rolagem
  /\ h.pilha = g.pilha /\ h.ativa = g.ativa /\ h.arrasto = g.arrasto /\ h.movidas = g.movidas

MesmaExe(a, b) ==
  /\ Exe(b) /\ b.registro = a.registro /\ b.formas = a.formas /\ b.foco = a.foco
  /\ b.marcado = a.marcado /\ b.texto = a.texto /\ b.item = a.item /\ b.memo = a.memo
  /\ b.buffer = a.buffer /\ b.aloc = a.aloc /\ b.viva = a.viva

(* The turn's state after the press, before the loop's own handlers. *)
Toque(s, d, p) ==
  /\ Tipos(d) /\ Pressao(d) /\ Afunda(s.g, d.g, p)
  /\ d.a = [s.a EXCEPT !.timer = TURNOS, !.clique = p]

LEMMA ApertaIs ==
  ASSUME lay \in Layouts, NEW s, Tipos(s), Pressao(s), s.a.timer = 0, s.g.filhos = Len(Ctl),
         NEW p \in Pontos
  PROVE  Toque(s, [g |-> Mouse(s.g, p, 1), a |-> [s.a EXCEPT !.timer = TURNOS, !.clique = p]], p)
<1> DEFINE g == s.g
           m == IF g.ultimo \notin {NULO, p} THEN Move(g, p) ELSE g
           e == Desce(m, p)
           h == [e EXCEPT !.botao = 1, !.ultimo = p]
           n == s.a.formas
<1>0. n \in 1..(Len(lay.sub) + 1) /\ BibTipos(g) /\ PilhaBoa(g.pilha, n)
  BY DEF Tipos, ExeTipos
<1>1. g.botao = 0 /\ ~g.arrasto /\ g.movidas = {} /\ \A c \in DOMAIN Ctl : g.estado[c] # 2
  BY DEF Pressao
<1>2. Mouse(g, p, 1) = h
  BY <1>1 DEF Mouse
<1>3. /\ BibTipos(m) /\ m.filhos = g.filhos /\ m.legenda = g.legenda /\ m.texto = g.texto
      /\ m.rolagem = g.rolagem /\ m.movidas = g.movidas /\ m.marcado = g.marcado
      /\ m.pilha = g.pilha
      /\ \A c \in DOMAIN Ctl : m.estado[c] = 2 => g.estado[c] = 2
  <2>1. m = g \/ m = Paira(g, p)
    BY <1>1 DEF Move
  <2> HIDE DEF m
  <2> QED
    BY <1>0, <2>1, PairaIs
<1> HIDE DEF m
<1>4. Afunda(m, e, p) /\ PilhaBoa(e.pilha, n)
  BY <1>0, <1>3, DesceIs
<1> HIDE DEF e
<1>5. Afunda(g, e, p)
  BY <1>3, <1>4 DEF Afunda
<1>6. /\ Afunda(g, h, p) /\ PilhaBoa(h.pilha, n) /\ h.botao = 1 /\ h.ultimo = p
  <2>1. Bib(e)
    BY <1>5 DEF Afunda, BibTipos
  <2>2. MesmaBib(e, h) /\ h.foco = e.foco /\ h.botao = 1 /\ h.ultimo = p
    <3>1. PICK e1 : e1 = e
      OBVIOUS
    <3>2. PICK h1 : h1 = [e1 EXCEPT !.botao = 1, !.ultimo = p]
      OBVIOUS
    <3>3. Bib(e1) /\ h = h1
      BY <2>1, <3>1, <3>2
    <3>4. MesmaBib(e1, h1) /\ h1.foco = e1.foco /\ h1.botao = 1 /\ h1.ultimo = p
      BY ONLY <3>2, <3>3, ZenonT(30) DEF Bib, MesmaBib
    <3> HIDE DEF h
    <3> QED
      BY <3>1, <3>3, <3>4
  <2> HIDE DEF h
  <2> QED
    BY <1>4, <1>5, <2>2 DEF Afunda, BibTipos, MesmaBib
<1> HIDE DEF h
<1> DEFINE b == [s.a EXCEPT !.timer = TURNOS, !.clique = p]
           d == [g |-> h, a |-> b]
<1>7. TURNOS \in Nat \ {0}
  BY GuiAssumption
<1>8. ExeTipos(b, h.filhos) /\ b.timer = TURNOS /\ b.clique = p /\ b.formas = n
  <2>1. ExeTipos(s.a, h.filhos)
    BY <1>6 DEF Tipos, Afunda
  <2>2. MesmaExe(s.a, b) /\ b.timer = TURNOS /\ b.clique = p /\ b.rolagem = s.a.rolagem
    <3>1. PICK a1 : a1 = s.a
      OBVIOUS
    <3>2. PICK b1 : b1 = [a1 EXCEPT !.timer = TURNOS, !.clique = p]
      OBVIOUS
    <3>3. Exe(a1) /\ b = b1
      BY <2>1, <3>1, <3>2 DEF ExeTipos
    <3>4. MesmaExe(a1, b1) /\ b1.timer = TURNOS /\ b1.clique = p /\ b1.rolagem = a1.rolagem
      BY ONLY <3>2, <3>3 DEF Exe, MesmaExe
    <3> HIDE DEF b
    <3> QED
      BY <3>1, <3>3, <3>4
  <2> HIDE DEF b
  <2> QED
    BY <1>7, <2>1, <2>2 DEF ExeTipos, MesmaExe
<1> HIDE DEF b
<1>9. Tipos(d)
  BY <1>6, <1>8 DEF Tipos, Afunda
<1>10. Pressao(d)
  BY <1>1, <1>6, <1>7, <1>8 DEF Pressao, Afunda
<1> QED
  BY <1>2, <1>6, <1>9, <1>10 DEF Toque, b

-----------------------------------------------------------------------------
(* The loop's focus rule and its clicks *)

Meio(s, d, p) ==
  /\ Tipos(d) /\ Pressao(d) /\ d.a.timer > 0
  /\ d.g.filhos = s.g.filhos /\ d.g.legenda = s.g.legenda /\ d.g.texto = s.g.texto
  /\ d.a.registro = s.a.registro /\ d.a.marcado = s.a.marcado /\ d.a.item = s.a.item
  /\ d.a.memo = s.a.memo /\ d.a.aloc = s.a.aloc /\ d.a.buffer = s.a.buffer
  /\ \A c \in DOMAIN Ctl :
       /\ Tipo(c) = "check" => (c \in d.g.marcado <=> IF Sob(c, p) THEN c \notin s.g.marcado ELSE c \in s.g.marcado)
       /\ Tipo(c) = "radio" /\ c \in d.g.marcado
            => \/ Sob(c, p)
               \/ c \in s.g.marcado /\ \A d2 \in DOMAIN Ctl : Tipo(d2) = "radio" => ~Sob(d2, p)
       /\ Tipo(c) \in Digita /\ d.g.foco = c => Sob(c, p)

LEMMA FocaIs ==
  ASSUME lay \in Layouts, NEW s, Tipos(s), NEW p \in Pontos, NEW d, Toque(s, d, p)
  PROVE  Meio(s, Foca(d, p), p)
<1> DEFINE alvo == {c \in DOMAIN Ctl : Tipo(c) \in Digita /\ p \in Ctl[c].dentro}
           c == CHOOSE x \in alvo : TRUE
           r == IF d.a.rolagem < 2 THEN 0 ELSE d.a.rolagem - 2
<1>0. d = [g |-> d.g, a |-> d.a] /\ Bib(d.g) /\ Exe(d.a) /\ d.a.rolagem \in Nat
  BY DEF Toque, Tipos, BibTipos, ExeTipos
<1>1. \A x \in alvo : Sob(x, p) /\ x \in DOMAIN Ctl /\ d.g.foco = x
  BY LayoutIs DEF Toque, Afunda
<1>2. NULO \notin DOMAIN Ctl /\ \A x, y \in DOMAIN Ctl : Sob(x, p) /\ Sob(y, p) => x = y
  BY LayoutIs DEF NULO
<1>3. /\ d.a.registro = s.a.registro /\ d.a.marcado = s.a.marcado /\ d.a.item = s.a.item
      /\ d.a.memo = s.a.memo /\ d.a.aloc = s.a.aloc /\ d.a.buffer = s.a.buffer
      /\ d.a.timer = TURNOS /\ TURNOS \in Nat \ {0}
  BY GuiAssumption DEF Toque, Tipos, ExeTipos, Exe
<1>4. PICK f : f = Foca(d, p)
  OBVIOUS
<1>5. ASSUME NEW q \in Nat, NEW q2 \in Nat, NEW x,
             f.g = [d.g EXCEPT !.foco = x, !.rolagem = q], f.a = [d.a EXCEPT !.rolagem = q2],
             f = [g |-> f.g, a |-> f.a],
             \A y \in DOMAIN Ctl : Tipo(y) \in Digita /\ x = y => Sob(y, p)
      PROVE  Meio(s, f, p)
  <2>1. /\ Bib(f.g) /\ f.g.filhos = d.g.filhos /\ f.g.estado = d.g.estado /\ f.g.marcado = d.g.marcado
        /\ f.g.legenda = d.g.legenda /\ f.g.texto = d.g.texto /\ f.g.pilha = d.g.pilha
        /\ f.g.arrasto = d.g.arrasto /\ f.g.movidas = d.g.movidas /\ f.g.botao = d.g.botao
        /\ f.g.ultimo = d.g.ultimo /\ f.g.rolagem = q /\ f.g.foco = x
    BY <1>0, <1>5 DEF Bib
  <2>2. MesmaExe(d.a, f.a) /\ f.a.rolagem = q2 /\ f.a.timer = d.a.timer /\ f.a.clique = d.a.clique
    BY <1>0, <1>5 DEF Exe, MesmaExe
  <2>3. BibTipos(f.g) /\ ExeTipos(f.a, f.g.filhos)
    <3>1. BibTipos(d.g) /\ ExeTipos(d.a, d.g.filhos)
      BY DEF Toque, Tipos
    <3>2. BibTipos(f.g)
      BY <1>5, <2>1, <3>1 DEF BibTipos
    <3>3. ExeTipos(f.a, d.g.filhos)
      BY <1>5, <2>2, <3>1 DEF ExeTipos, MesmaExe
    <3> QED
      BY <2>1, <3>2, <3>3
  <2>4. Tipos(f)
    BY <1>5, <2>1, <2>2, <2>3 DEF Toque, Tipos, MesmaExe
  <2>5. Pressao(f)
    BY <2>1, <2>2 DEF Toque, Pressao
  <2> QED
    BY <1>3, <1>5, <2>1, <2>2, <2>4, <2>5 DEF Toque, Afunda, Meio, MesmaExe
<1>6. CASE alvo = {}
  <2>1. f = [g |-> [d.g EXCEPT !.foco = NULO], a |-> d.a]
    BY <1>0, <1>4, <1>6 DEF Foca, PropFoco
  <2>2. /\ f.g = [d.g EXCEPT !.foco = NULO, !.rolagem = d.g.rolagem]
        /\ f.a = [d.a EXCEPT !.rolagem = d.a.rolagem] /\ f = [g |-> f.g, a |-> f.a]
    BY <1>0, <2>1 DEF Bib, Exe
  <2>3. d.g.rolagem \in Nat
    BY DEF Toque, Tipos, BibTipos
  <2>4. PICK q \in Nat : q = d.g.rolagem
    BY <2>3
  <2>5. PICK q2 \in Nat : q2 = d.a.rolagem
    BY <1>0
  <2>6. \A y \in DOMAIN Ctl : Tipo(y) \in Digita /\ NULO = y => Sob(y, p)
    BY <1>2
  <2> QED
    BY <1>4, <1>5, <2>2, <2>4, <2>5, <2>6
<1>7. CASE alvo # {}
  <2>1. c \in alvo
    BY <1>7
  <2> HIDE DEF c
  <2>2. Sob(c, p) /\ c \in DOMAIN Ctl /\ d.g.foco = c
    BY <1>1, <2>1
  <2>3. \/ \E q \in Nat : f = [g |-> [d.g EXCEPT !.rolagem = q], a |-> [d.a EXCEPT !.rolagem = q]]
        \/ f = [g |-> [d.g EXCEPT !.foco = c], a |-> d.a]
    <3>1. f = IF p \in Ctl[c].sobe THEN MemoRola(d, r)
              ELSE IF p \in Ctl[c].desce THEN MemoRola(d, d.a.rolagem + 2)
              ELSE [d EXCEPT !.g = PropFoco(@, c)]
      BY <1>4, <1>7 DEF Foca, c
    <3>2. r \in Nat /\ d.a.rolagem + 2 \in Nat
      BY <1>0
    <3> HIDE DEF r
    <3>3. PICK q2 \in Nat : q2 = d.a.rolagem + 2
      BY <3>2
    <3> QED
      BY <1>0, <3>1, <3>2, <3>3 DEF MemoRola, PropFoco
  <2>4. \E q \in Nat, q2 \in Nat :
          /\ f.g = [d.g EXCEPT !.foco = c, !.rolagem = q] /\ f.a = [d.a EXCEPT !.rolagem = q2]
          /\ f = [g |-> f.g, a |-> f.a]
    <3>1. CASE f = [g |-> [d.g EXCEPT !.foco = c], a |-> d.a]
      <4>1. /\ f.g = [d.g EXCEPT !.foco = c, !.rolagem = d.g.rolagem]
            /\ f.a = [d.a EXCEPT !.rolagem = d.a.rolagem] /\ f = [g |-> f.g, a |-> f.a]
        BY <1>0, <3>1 DEF Bib, Exe
      <4>2. d.g.rolagem \in Nat
        BY DEF Toque, Tipos, BibTipos
      <4> QED
        BY <1>0, <4>1, <4>2
    <3>2. ASSUME NEW q \in Nat, f = [g |-> [d.g EXCEPT !.rolagem = q], a |-> [d.a EXCEPT !.rolagem = q]]
          PROVE  /\ f.g = [d.g EXCEPT !.foco = c, !.rolagem = q] /\ f.a = [d.a EXCEPT !.rolagem = q]
                 /\ f = [g |-> f.g, a |-> f.a]
      BY <1>0, <2>2, <3>2 DEF Bib
    <3> QED
      BY <2>3, <3>1, <3>2
  <2>5. \A y \in DOMAIN Ctl : Tipo(y) \in Digita /\ c = y => Sob(y, p)
    BY <2>2
  <2> QED
    BY <1>4, <1>5, <2>4, <2>5
<1> QED
  BY <1>6, <1>7

(* What the runtime must do with its side for the two to agree again. *)
Acompanha(d, f, p) ==
  /\ f = [g |-> f.g, a |-> f.a]
  /\ f.g = [d.g EXCEPT !.legenda = f.g.legenda]
  /\ f.a = [d.a EXCEPT !.foco = f.a.foco, !.marcado = f.a.marcado, !.item = f.a.item]
  /\ f.g.legenda = [c \in DOMAIN Ctl |-> f.g.legenda[c]]
  /\ f.a.item = [c \in DOMAIN Ctl |-> f.a.item[c]]
  /\ f.a.marcado \subseteq 1..d.g.filhos
  /\ f.a.foco = NULO \/ (f.a.foco \in DOMAIN Ctl /\ Tipo(f.a.foco) \in Digita)
  /\ \A c \in DOMAIN Ctl : Tipo(c) \in Digita /\ Sob(c, p) => f.a.foco = c
  /\ \A c \in 1..Len(d.a.registro) :
       /\ Tipo(c) = "check"
            => (c \in f.a.marcado <=> IF Sob(c, p) THEN c \notin d.a.marcado ELSE c \in d.a.marcado)
       /\ Tipo(c) = "radio"
            => \/ c \in f.a.marcado
               \/ ~Sob(c, p) /\ (c \notin d.a.marcado \/ \E r \in DOMAIN Ctl : Tipo(r) = "radio" /\ Sob(r, p))
       /\ Tipo(c) = "combo"
            => \/ f.g.legenda[c][1] = f.a.item[c] + 1
               \/ f.g.legenda[c] = d.g.legenda[c] /\ f.a.item[c] = d.a.item[c]

LEMMA AcompanhaIs ==
  ASSUME lay \in Layouts, NEW s, NEW p \in Pontos, NEW d, Meio(s, d, p),
         Gemeos(s), MemoVivo(s), NEW f, Acompanha(d, f, p)
  PROVE  Firme(f) /\ f.a.timer > 0 /\ f.g.filhos = d.g.filhos
<1>0. Tipos(d) /\ Pressao(d) /\ d.a.timer > 0 /\ BibTipos(d.g) /\ ExeTipos(d.a, d.g.filhos)
  BY DEF Meio, Tipos
<1>1. /\ Bib(f.g) /\ f.g.filhos = d.g.filhos /\ f.g.estado = d.g.estado /\ f.g.marcado = d.g.marcado
      /\ f.g.texto = d.g.texto /\ f.g.pilha = d.g.pilha /\ f.g.foco = d.g.foco
      /\ f.g.arrasto = d.g.arrasto /\ f.g.movidas = d.g.movidas /\ f.g.botao = d.g.botao
      /\ f.g.ultimo = d.g.ultimo /\ f.g.rolagem = d.g.rolagem
  <2>1. PICK h : h = f.g
    OBVIOUS
  <2>2. PICK g : g = d.g
    OBVIOUS
  <2>3. h = [g EXCEPT !.legenda = h.legenda] /\ Bib(g)
    BY <1>0, <2>1, <2>2 DEF Acompanha, BibTipos
  <2>4. /\ Bib(h) /\ h.filhos = g.filhos /\ h.estado = g.estado /\ h.marcado = g.marcado
        /\ h.texto = g.texto /\ h.pilha = g.pilha /\ h.foco = g.foco
        /\ h.arrasto = g.arrasto /\ h.movidas = g.movidas /\ h.botao = g.botao
        /\ h.ultimo = g.ultimo /\ h.rolagem = g.rolagem
    BY ONLY <2>3 DEF Bib
  <2> QED
    BY <2>1, <2>2, <2>4
<1>2. /\ Exe(f.a) /\ f.a.registro = d.a.registro /\ f.a.formas = d.a.formas /\ f.a.texto = d.a.texto
      /\ f.a.memo = d.a.memo /\ f.a.buffer = d.a.buffer /\ f.a.aloc = d.a.aloc
      /\ f.a.rolagem = d.a.rolagem /\ f.a.timer = d.a.timer /\ f.a.clique = d.a.clique
  <2>1. PICK b : b = f.a
    OBVIOUS
  <2>2. PICK a : a = d.a
    OBVIOUS
  <2>3. b = [a EXCEPT !.foco = b.foco, !.marcado = b.marcado, !.item = b.item] /\ Exe(a)
    BY <1>0, <2>1, <2>2 DEF Acompanha, ExeTipos
  <2>4. /\ Exe(b) /\ b.registro = a.registro /\ b.formas = a.formas /\ b.texto = a.texto
        /\ b.memo = a.memo /\ b.buffer = a.buffer /\ b.aloc = a.aloc
        /\ b.rolagem = a.rolagem /\ b.timer = a.timer /\ b.clique = a.clique
    BY ONLY <2>3 DEF Exe
  <2> QED
    BY <2>1, <2>2, <2>4
<1>3. BibTipos(f.g)
  BY <1>0, <1>1 DEF BibTipos, Acompanha
<1>4. ExeTipos(f.a, f.g.filhos)
  BY <1>0, <1>1, <1>2 DEF ExeTipos, Acompanha
<1>5. Tipos(f)
  BY <1>0, <1>1, <1>2, <1>3, <1>4 DEF Tipos, Acompanha
<1>6. Pressao(f)
  BY <1>0, <1>1, <1>2 DEF Pressao
<1>7. Cursor(f)
  BY <1>1 DEF Meio, Acompanha, Cursor
<1>8. MemoVivo(f)
  BY <1>1, <1>2 DEF Meio, MemoVivo
<1>9. ASSUME NEW c \in 1..Len(f.a.registro)
      PROVE  /\ Tipo(c) = "check" => (c \in f.g.marcado <=> c \in f.a.marcado)
             /\ Tipo(c) = "radio" => (c \in f.g.marcado => c \in f.a.marcado)
             /\ Tipo(c) = "combo" /\ Ctl[c].itens > 0 => f.g.legenda[c][1] = f.a.item[c] + 1
  <2>1. c \in DOMAIN Ctl /\ c \in 1..Len(d.a.registro) /\ c \in 1..Len(s.a.registro)
    <3>1. c \in 1..Len(d.a.registro) /\ d.a.registro = s.a.registro
      BY <1>2 DEF Meio
    <3>2. /\ MaxRegistro \in Nat /\ d.g.filhos \in 0..Len(Ctl)
          /\ Len(d.a.registro) = IF d.g.filhos < MaxRegistro THEN d.g.filhos ELSE MaxRegistro
      BY <1>0, GuiAssumption DEF ExeTipos, BibTipos
    <3>3. Len(Ctl) \in Nat /\ DOMAIN Ctl = 1..Len(Ctl)
      BY LayoutIs
    <3>4. c \in 1..Len(Ctl)
      BY <3>1, <3>2, <3>3
    <3> QED
      BY <3>1, <3>3, <3>4
  <2>2. /\ Tipo(c) = "check" => (c \in s.g.marcado <=> c \in s.a.marcado)
        /\ Tipo(c) = "radio" => (c \in s.g.marcado => c \in s.a.marcado)
        /\ Tipo(c) = "combo" /\ Ctl[c].itens > 0 => s.g.legenda[c][1] = s.a.item[c] + 1
    BY <2>1 DEF Gemeos
  <2>3. CASE Tipo(c) = "check"
    BY <1>1, <2>1, <2>2, <2>3 DEF Meio, Acompanha
  <2>4. CASE Tipo(c) = "radio"
    <3>1. c \in d.g.marcado => Sob(c, p) \/ (c \in d.a.marcado /\ \A r \in DOMAIN Ctl : Tipo(r) = "radio" => ~Sob(r, p))
      BY <2>1, <2>2, <2>4 DEF Meio
    <3> QED
      BY <1>1, <2>1, <2>4, <3>1 DEF Acompanha
  <2>5. CASE Tipo(c) = "combo"
    BY <2>1, <2>2, <2>5, ZenonT(30) DEF Meio, Acompanha
  <2> QED
    BY <2>3, <2>4, <2>5
<1>10. Gemeos(f)
  BY <1>9 DEF Gemeos
<1> QED
  BY <1>0, <1>1, <1>2, <1>5, <1>6, <1>7, <1>8, <1>10 DEF Firme

LEMMA ClicaIs ==
  ASSUME lay \in Layouts, NEW p \in Pontos, NEW d, Tipos(d), d.g.filhos = Len(Ctl)
  PROVE  Acompanha(d, ClicaControles(d, p), p)
<1> DEFINE z == [d EXCEPT !.a.foco = NULO]
           alvo == {i \in DOMAIN d.a.registro :
                      Dentro(d.a.registro[i], p) /\ Tipo(d.a.registro[i]) \notin {"botao", "painel"}}
           i == CHOOSE x \in alvo : \A y \in alvo : x <= y
           c == d.a.registro[i]
           ns == 1..Len(d.a.registro)
<1>0. /\ d = [g |-> d.g, a |-> d.a] /\ Bib(d.g) /\ Exe(d.a)
      /\ Len(d.a.registro) \in Nat /\ DOMAIN d.a.registro = ns
      /\ \A x \in ns : d.a.registro[x] = x
      /\ Len(d.a.registro) = IF Len(Ctl) < MaxRegistro THEN Len(Ctl) ELSE MaxRegistro
      /\ Len(Ctl) \in Nat /\ DOMAIN Ctl = 1..Len(Ctl) /\ MaxRegistro \in Nat
      /\ d.g.legenda = [x \in DOMAIN Ctl |-> d.g.legenda[x]]
      /\ d.a.item = [x \in DOMAIN Ctl |-> d.a.item[x]]
      /\ d.a.marcado \subseteq 1..d.g.filhos
  BY LayoutIs, GuiAssumption, SMTT(30) DEF Tipos, BibTipos, ExeTipos
<1>1. /\ ns \subseteq DOMAIN Ctl
      /\ \A x \in DOMAIN Ctl : Tipo(x) \in Digita => x \in ns
      /\ \A x, y \in DOMAIN Ctl : Sob(x, p) /\ Sob(y, p) => x = y
  <2>1. \A x \in DOMAIN Ctl : Tipo(x) \in Digita => x <= MaxRegistro
    BY LayoutIs
  <2> QED
    BY <1>0, <2>1, LayoutIs
<1>2. z = [g |-> d.g, a |-> [d.a EXCEPT !.foco = NULO]]
  BY <1>0
<1>3. alvo = {x \in ns : Sob(x, p) /\ Tipo(x) \notin {"botao", "painel"}}
  BY <1>0 DEF Dentro, Sob
<1>4. PICK f : f = ClicaControles(d, p)
  OBVIOUS
<1>5. CASE alvo = {}
  <2>1. f = [g |-> d.g, a |-> [d.a EXCEPT !.foco = NULO]]
    BY <1>2, <1>4, <1>5 DEF ClicaControles
  <2>2. /\ f = [g |-> f.g, a |-> f.a] /\ f.g = [d.g EXCEPT !.legenda = f.g.legenda]
        /\ f.a = [d.a EXCEPT !.foco = f.a.foco, !.marcado = f.a.marcado, !.item = f.a.item]
        /\ f.g.legenda = d.g.legenda /\ f.a.item = d.a.item /\ f.a.marcado = d.a.marcado /\ f.a.foco = NULO
    BY <1>0, <2>1 DEF Bib, Exe
  <2>3. \A x \in ns : Sob(x, p) => Tipo(x) \in {"botao", "painel"}
    BY <1>3, <1>5
  <2>4. \A x \in DOMAIN Ctl : Tipo(x) \in Digita => ~Sob(x, p)
    BY <1>1, <2>3 DEF Digita
  <2>5. \A x \in ns : Tipo(x) \in {"check", "radio", "combo"} => ~Sob(x, p)
    BY <2>3
  <2> QED
    BY <1>0, <1>4, <2>2, <2>4, <2>5 DEF Acompanha
<1>6. CASE alvo # {}
  <2>1. \E x \in alvo : \A y \in alvo : x <= y
    <3>1. alvo \subseteq Nat
      BY <1>3
    <3> HIDE DEF alvo
    <3> QED
      BY <1>6, <3>1, LeastOne
  <2>2. i \in alvo
    BY <2>1
  <2>3. c = i /\ c \in ns /\ Sob(c, p) /\ Tipo(c) \notin {"botao", "painel"} /\ c \in DOMAIN Ctl
    BY <1>0, <1>1, <1>3, <2>2, ZenonT(30)
  <2>4. /\ Tipo(c) = "combo" => f = Gira(z, c)
        /\ Tipo(c) = "check" => f = Alterna(z, c)
        /\ Tipo(c) = "radio" => f = Seleciona(z, c)
        /\ Tipo(c) \in Digita => f = [z EXCEPT !.a.foco = c]
        /\ Tipo(c) \notin Digita \cup {"combo", "check", "radio"} => f = z
    <3>1. f = CASE alvo = {} -> z
                [] alvo # {} /\ Tipo(c) = "combo" -> Gira(z, c)
                [] alvo # {} /\ Tipo(c) = "check" -> Alterna(z, c)
                [] alvo # {} /\ Tipo(c) = "radio" -> Seleciona(z, c)
                [] alvo # {} /\ Tipo(c) \in Digita -> [z EXCEPT !.a.foco = c]
                [] OTHER -> z
      BY <1>4, Zenon DEF ClicaControles
    <3> HIDE DEF c, z, alvo
    <3> QED
      BY <1>6, <3>1 DEF Digita
  <2> HIDE DEF c, z
  <2>5. \A x \in DOMAIN Ctl : Sob(x, p) <=> x = c
    BY <1>1, <2>3
  <2>6. CASE Tipo(c) = "combo"
    <3> DEFINE n == Ctl[c].itens
               j == (z.a.item[c] + 1) % n
    <3>1. f = IF n = 0 THEN z ELSE [g |-> Mostra(z.g, c, j, n), a |-> [z.a EXCEPT !.item[c] = j]]
      BY <2>4, <2>6 DEF Gira
    <3> HIDE DEF j, n
    <3>2. /\ f = [g |-> f.g, a |-> f.a] /\ f.g = [d.g EXCEPT !.legenda = f.g.legenda]
          /\ f.a = [d.a EXCEPT !.foco = f.a.foco, !.marcado = f.a.marcado, !.item = f.a.item]
          /\ f.a.marcado = d.a.marcado /\ f.a.foco = NULO
          /\ f.g.legenda = IF n = 0 THEN d.g.legenda ELSE [d.g.legenda EXCEPT ![c] = <<j + 1, n>>]
          /\ f.a.item = IF n = 0 THEN d.a.item ELSE [d.a.item EXCEPT ![c] = j]
      BY <1>0, <1>2, <3>1 DEF Bib, Exe, Mostra, PropLegenda
    <3>3. /\ f.g.legenda = [x \in DOMAIN Ctl |-> f.g.legenda[x]]
          /\ f.a.item = [x \in DOMAIN Ctl |-> f.a.item[x]]
      BY <1>0, <3>2
    <3>4. \A x \in ns : \/ f.g.legenda[x][1] = f.a.item[x] + 1
                        \/ f.g.legenda[x] = d.g.legenda[x] /\ f.a.item[x] = d.a.item[x]
      BY <1>0, <1>1, <3>2
    <3>5. \A x \in DOMAIN Ctl : Sob(x, p) => Tipo(x) = "combo"
      BY <2>5, <2>6
    <3> QED
      BY <1>0, <1>1, <1>4, <3>2, <3>3, <3>4, <3>5 DEF Acompanha, Digita
  <2>7. CASE Tipo(c) \in Marca
    <3>1. \E m : /\ f = [g |-> d.g, a |-> [d.a EXCEPT !.foco = NULO, !.marcado = m]]
                 /\ m \subseteq 1..d.g.filhos
                 /\ Tipo(c) = "check" => \A x \in ns : x \in m <=> IF x = c THEN x \notin d.a.marcado ELSE x \in d.a.marcado
                 /\ Tipo(c) = "radio" => c \in m /\ \A x \in ns : Tipo(x) # "radio" => (x \in m <=> x \in d.a.marcado)
      <4>1. CASE Tipo(c) = "check"
        <5> DEFINE m == SymDiff(d.a.marcado, {c})
        <5>1. f = [g |-> d.g, a |-> [d.a EXCEPT !.foco = NULO, !.marcado = m]]
          BY <1>0, <1>2, <2>4, <4>1 DEF Alterna, Exe
        <5>2. m \subseteq 1..d.g.filhos /\ \A x \in ns : x \in m <=> IF x = c THEN x \notin d.a.marcado ELSE x \in d.a.marcado
          BY <1>0, <2>3 DEF SymDiff
        <5> QED
          BY <4>1, <5>1, <5>2
      <4>2. CASE Tipo(c) = "radio"
        <5> DEFINE irmaos == {x \in Range(z.a.registro) : Tipo(x) = "radio" /\ Ctl[x].grupo = Ctl[c].grupo}
                   m == IF c \in d.a.marcado THEN d.a.marcado ELSE (d.a.marcado \ irmaos) \union {c}
        <5>1. f = [g |-> d.g, a |-> [d.a EXCEPT !.foco = NULO, !.marcado = m]]
          <6>1. f = IF c \in z.a.marcado THEN z ELSE [z EXCEPT !.a.marcado = (@ \ irmaos) \union {c}]
            BY <2>4, <4>2 DEF Seleciona
          <6> HIDE DEF irmaos
          <6> QED
            BY <1>0, <1>2, <6>1 DEF Exe
        <5>2. m \subseteq 1..d.g.filhos /\ c \in m
          <6>1. c \in 1..d.g.filhos
            BY <1>0, <2>3
          <6> HIDE DEF irmaos
          <6> QED
            BY <1>0, <6>1
        <5>3. \A x \in ns : Tipo(x) # "radio" => (x \in m <=> x \in d.a.marcado)
          BY <2>3, <4>2
        <5> HIDE DEF m
        <5> QED
          BY <4>2, <5>1, <5>2, <5>3
      <4> QED
        BY <2>7, <4>1, <4>2 DEF Marca
    <3>2. PICK m : /\ f = [g |-> d.g, a |-> [d.a EXCEPT !.foco = NULO, !.marcado = m]]
                   /\ m \subseteq 1..d.g.filhos
                   /\ Tipo(c) = "check" => \A x \in ns : x \in m <=> IF x = c THEN x \notin d.a.marcado ELSE x \in d.a.marcado
                   /\ Tipo(c) = "radio" => c \in m /\ \A x \in ns : Tipo(x) # "radio" => (x \in m <=> x \in d.a.marcado)
      BY <3>1
    <3>3. /\ f = [g |-> f.g, a |-> f.a] /\ f.g = [d.g EXCEPT !.legenda = f.g.legenda]
          /\ f.a = [d.a EXCEPT !.foco = f.a.foco, !.marcado = f.a.marcado, !.item = f.a.item]
          /\ f.g.legenda = d.g.legenda /\ f.a.item = d.a.item /\ f.a.marcado = m /\ f.a.foco = NULO
      BY <1>0, <3>2 DEF Bib, Exe
    <3>4. \A x \in DOMAIN Ctl : Sob(x, p) => Tipo(x) = Tipo(c)
      BY <2>5
    <3>5. \A x \in DOMAIN Ctl : Tipo(x) \in Digita => ~Sob(x, p)
      BY <2>7, <3>4 DEF Digita, Marca
    <3>6. ASSUME NEW x \in ns
          PROVE  /\ Tipo(x) = "check"
                      => (x \in m <=> IF Sob(x, p) THEN x \notin d.a.marcado ELSE x \in d.a.marcado)
                 /\ Tipo(x) = "radio"
                      => \/ x \in m
                         \/ ~Sob(x, p) /\ (x \notin d.a.marcado \/ \E r \in DOMAIN Ctl : Tipo(r) = "radio" /\ Sob(r, p))
      BY <1>1, <2>3, <2>5, <2>7, <3>2 DEF Marca
    <3> QED
      BY <1>0, <1>4, <3>2, <3>3, <3>5, <3>6 DEF Acompanha
  <2>8. CASE Tipo(c) \notin Marca /\ Tipo(c) # "combo"
    <3> DEFINE x == IF Tipo(c) \in Digita THEN c ELSE NULO
    <3>1. f = [g |-> d.g, a |-> [d.a EXCEPT !.foco = x]]
      <4>1. CASE Tipo(c) \in Digita
        <5>1. f = [z EXCEPT !.a.foco = c] /\ x = c
          BY <2>4, <4>1
        <5> HIDE DEF x
        <5> QED
          BY <1>0, <1>2, <5>1 DEF Exe
      <4>2. CASE Tipo(c) \notin Digita
        <5>1. f = z /\ x = NULO
          BY <2>4, <2>8, <4>2 DEF Marca
        <5> QED
          BY <1>2, <5>1
      <4> QED
        BY <4>1, <4>2
    <3> HIDE DEF x
    <3>2. /\ f = [g |-> f.g, a |-> f.a] /\ f.g = [d.g EXCEPT !.legenda = f.g.legenda]
          /\ f.a = [d.a EXCEPT !.foco = f.a.foco, !.marcado = f.a.marcado, !.item = f.a.item]
          /\ f.g.legenda = d.g.legenda /\ f.a.item = d.a.item /\ f.a.marcado = d.a.marcado /\ f.a.foco = x
      BY <1>0, <3>1 DEF Bib, Exe
    <3>3. /\ x = NULO \/ (x \in DOMAIN Ctl /\ Tipo(x) \in Digita)
          /\ \A y \in DOMAIN Ctl : Tipo(y) \in Digita /\ Sob(y, p) => x = y
      BY <2>3, <2>5 DEF x
    <3>4. \A y \in ns : Tipo(y) \in Marca => ~Sob(y, p)
      BY <1>1, <2>5, <2>8
    <3> QED
      BY <1>0, <1>4, <3>2, <3>3, <3>4 DEF Acompanha, Marca
  <2> QED
    BY <2>6, <2>7, <2>8
<1> QED
  BY <1>5, <1>6

-----------------------------------------------------------------------------
(* The handlers and the timer *)

LEMMA AfundaBotoes ==
  ASSUME NEW s, Firme(s), s.a.timer > 0, NEW b, b \subseteq Botoes
  PROVE  LET n == [s EXCEPT !.g.estado = [c \in DOMAIN Ctl |-> IF c \in b THEN 2 ELSE @[c]]]
         IN  Firme(n) /\ n.g.filhos = s.g.filhos /\ n.a = s.a
<1> DEFINE e == [c \in DOMAIN Ctl |-> IF c \in b THEN 2 ELSE s.g.estado[c]]
           h == [s.g EXCEPT !.estado = e]
           n == [g |-> h, a |-> s.a]
<1>0. Tipos(s) /\ Pressao(s) /\ BibTipos(s.g) /\ s = [g |-> s.g, a |-> s.a]
  BY DEF Firme, Tipos
<1>1. [s EXCEPT !.g.estado = [c \in DOMAIN Ctl |-> IF c \in b THEN 2 ELSE @[c]]] = n
  BY <1>0
<1>2. e \in [DOMAIN Ctl -> Nat] /\ \A c \in DOMAIN Ctl : e[c] = 2 => c \in b \/ s.g.estado[c] = 2
  BY <1>0 DEF BibTipos
<1> HIDE DEF e
<1>3. /\ Bib(h) /\ h.filhos = s.g.filhos /\ h.estado = e /\ h.marcado = s.g.marcado
      /\ h.legenda = s.g.legenda /\ h.texto = s.g.texto /\ h.rolagem = s.g.rolagem
      /\ h.pilha = s.g.pilha /\ h.foco = s.g.foco
      /\ h.arrasto = s.g.arrasto /\ h.movidas = s.g.movidas /\ h.botao = s.g.botao
      /\ h.ultimo = s.g.ultimo
  BY <1>0 DEF BibTipos, Bib
<1> HIDE DEF h
<1>4. Tipos(n)
  BY <1>0, <1>2, <1>3 DEF Tipos, BibTipos
<1>5. Pressao(n)
  BY <1>0, <1>2, <1>3 DEF Pressao
<1>6. Cursor(n) /\ Gemeos(n) /\ MemoVivo(n)
  BY <1>3 DEF Firme, Cursor, Gemeos, MemoVivo
<1> QED
  BY <1>1, <1>3, <1>4, <1>5, <1>6 DEF Firme

LEMMA TrataIs ==
  ASSUME lay \in Layouts, NEW s, Firme(s), s.a.timer > 0, NEW p, NEW ok, NEW feito
  PROVE  LET fim == Trata(s, p, ok, feito)
         IN  Firme(fim) /\ fim.a.timer = s.a.timer /\ fim.g.filhos = s.g.filhos
<1> DEFINE alvo == {c \in DOMAIN Ctl : Tipo(c) \in Marca \union {"botao", "combo"} /\ p \in Ctl[c].dentro}
           b == {c \in alvo : c \in Botoes}
           n == [s EXCEPT !.g.estado = [c \in DOMAIN Ctl |-> IF c \in b THEN 2 ELSE @[c]]]
           l == IF alvo = {} THEN n ELSE MemoFrase(n, ok)
           e == {c \in DOMAIN Ctl : Tipo(c) = "edit" /\ l.g.legenda[c] # <<>>}
           x == CHOOSE c \in e : TRUE
           t == IF b = {} \/ e = {} \/ ~feito THEN l ELSE [l EXCEPT !.g = PropLegenda(@, x, <<>>)]
<1>1. Trata(s, p, ok, feito) = t
  BY DEF Trata
<1>2. b \subseteq Botoes
  OBVIOUS
<1> HIDE DEF alvo, b
<1>3. Firme(n) /\ n.g.filhos = s.g.filhos /\ n.a = s.a
  BY <1>2, AfundaBotoes
<1> HIDE DEF n
<1>4. Escreve(n, l)
  BY <1>3, FraseIs, EscreveNada DEF Firme
<1>5. Firme(l) /\ l.g.filhos = s.g.filhos /\ l.a.timer = s.a.timer
  <2>1. Tipos(l) /\ MemoVivo(l) /\ Pressao(l) /\ Cursor(l) /\ Gemeos(l)
    BY <1>3, <1>4, EscreveKeeps DEF Firme
  <2> QED
    BY <1>3, <1>4, <2>1 DEF Firme, Escreve
<1> HIDE DEF l
<1>6. ASSUME e # {}
      PROVE  Escreve(l, [l EXCEPT !.g = PropLegenda(@, x, <<>>)])
  <2>1. x \in e
    BY <1>6
  <2>2. x \in DOMAIN Ctl /\ Tipo(x) = "edit"
    BY <2>1
  <2> HIDE DEF x
  <2> DEFINE k == [l.g.legenda EXCEPT ![x] = <<>>]
             h == [l.g EXCEPT !.legenda = k]
  <2>3. Bib(l.g) /\ l = [g |-> l.g, a |-> l.a]
    BY <1>5 DEF Firme, Tipos, BibTipos
  <2>4. [l EXCEPT !.g = PropLegenda(@, x, <<>>)] = [g |-> h, a |-> l.a]
    BY <2>3 DEF PropLegenda, Bib
  <2>5. k = [c \in DOMAIN Ctl |-> k[c]] /\ \A c \in DOMAIN Ctl : Tipo(c) # "edit" => k[c] = l.g.legenda[c]
    BY <1>5, <2>2 DEF Firme, Tipos, BibTipos
  <2> HIDE DEF k
  <2>6. /\ Bib(h) /\ h.filhos = l.g.filhos /\ h.estado = l.g.estado /\ h.marcado = l.g.marcado
        /\ h.legenda = k /\ h.texto = l.g.texto /\ h.rolagem = l.g.rolagem
        /\ h.pilha = l.g.pilha /\ h.foco = l.g.foco /\ h.ativa = l.g.ativa
        /\ h.arrasto = l.g.arrasto /\ h.movidas = l.g.movidas /\ h.botao = l.g.botao
        /\ h.ultimo = l.g.ultimo
    BY <2>3 DEF Bib
  <2> HIDE DEF h
  <2>7. Escreve(l, l)
    BY <1>5, EscreveNada DEF Firme
  <2>8. Escreve(l, [g |-> h, a |-> l.a])
    BY <2>5, <2>6, <2>7 DEF Escreve, MemoVivo
  <2> QED
    BY <2>4, <2>8
<1>7. Escreve(l, t)
  BY <1>5, <1>6, EscreveNada DEF Firme
<1> HIDE DEF t
<1>8. Tipos(t) /\ MemoVivo(t) /\ Pressao(t) /\ Cursor(t) /\ Gemeos(t)
  BY <1>5, <1>7, EscreveKeeps DEF Firme
<1> QED
  BY <1>1, <1>5, <1>7, <1>8 DEF Firme, Escreve

LEMMA RecebeIs ==
  ASSUME lay \in Layouts, NEW s, Firme(s), s.g.filhos = Len(Ctl), NEW p \in Pontos \cup {NULO},
         NEW ok, NEW feito
  PROVE  LET fim == Recebe(s, p, ok, feito)
         IN  Firme(fim) /\ fim.g.filhos = s.g.filhos
<1>1. CASE p = NULO \/ s.a.timer > 0
  BY <1>1 DEF Recebe
<1>2. CASE ~(p = NULO \/ s.a.timer > 0)
  <2> DEFINE d == [g |-> Mouse(s.g, p, 1), a |-> [s.a EXCEPT !.timer = TURNOS, !.clique = p]]
             e == Foca(d, p)
             f == ClicaControles(e, p)
             t == Trata(f, p, ok, feito)
  <2>1. p \in Pontos /\ s.a.timer = 0 /\ Tipos(s) /\ Pressao(s) /\ Gemeos(s) /\ MemoVivo(s)
    BY <1>2 DEF Firme, Tipos, ExeTipos
  <2>2. Recebe(s, p, ok, feito) = t
    BY <1>2 DEF Recebe
  <2>3. Toque(s, d, p)
    BY <2>1, ApertaIs
  <2> HIDE DEF d
  <2>4. Meio(s, e, p)
    BY <2>1, <2>3, FocaIs
  <2> HIDE DEF e
  <2>5. Tipos(e) /\ e.g.filhos = Len(Ctl)
    BY <2>4 DEF Meio
  <2>6. Acompanha(e, f, p)
    BY <2>5, ClicaIs, <2>1
  <2> HIDE DEF f
  <2>7. Firme(f) /\ f.a.timer > 0 /\ f.g.filhos = e.g.filhos
    BY <2>1, <2>4, <2>6, AcompanhaIs
  <2>8. Firme(t) /\ t.g.filhos = f.g.filhos
    BY <2>7, TrataIs
  <2> QED
    BY <2>2, <2>5, <2>7, <2>8
<1> QED
  BY <1>1, <1>2

(* The release sent at the timer's end reaches what the press sank: it lies under  *)
(* the click, where no other window is.                                            *)
LEMMA SoltaIs ==
  ASSUME lay \in Layouts, NEW g, BibTipos(g), g.filhos = Len(Ctl),
         NEW n \in 1..(Len(lay.sub) + 1), PilhaBoa(g.pilha, n),
         g.botao = 1, g.ultimo \in Pontos,
         \A c \in DOMAIN Ctl : g.estado[c] = 2 => Sob(c, g.ultimo)
  PROVE  LET h == Mouse(g, g.ultimo, 0)
         IN  /\ BibTipos(h) /\ h.filhos = g.filhos /\ h.legenda = g.legenda /\ h.texto = g.texto
             /\ h.rolagem = g.rolagem /\ h.movidas = g.movidas /\ h.marcado = g.marcado
             /\ h.pilha = g.pilha /\ h.foco = g.foco /\ h.botao = 0 /\ ~h.arrasto
             /\ \A c \in DOMAIN Ctl : h.estado[c] # 2
<1> DEFINE p == g.ultimo
           s == [g EXCEPT !.arrasto = FALSE]
           u == [c \in DOMAIN Ctl |-> IF c \in Filhos(s) /\ s.estado[c] = 2 THEN 1 ELSE s.estado[c]]
           e == IF Acha(s, p) = PRINCIPAL THEN u ELSE g.estado
           h == [g EXCEPT !.arrasto = FALSE, !.estado = e, !.botao = 0, !.ultimo = p]
<1>0. Bib(g) /\ DOMAIN Ctl = 1..Len(Ctl) /\ Len(Ctl) \in Nat
  BY LayoutIs DEF BibTipos
<1>1. Mouse(g, p, 0) = h
  <2>1. Mouse(g, p, 0) = [Sobe(g, p) EXCEPT !.botao = 0, !.ultimo = p]
    BY DEF Mouse
  <2>2. Sobe(g, p) = IF Acha(s, p) = PRINCIPAL THEN [s EXCEPT !.estado = u] ELSE s
    BY DEF Sobe, Libera, Acha
  <2> HIDE DEF u
  <2> QED
    BY <1>0, <2>1, <2>2, ZenonT(30) DEF Bib
<1>2. s.pilha = g.pilha /\ s.filhos = g.filhos /\ s.estado = g.estado
  BY ONLY <1>0 DEF Bib
<1>3. \A c \in DOMAIN Ctl : Sob(c, p) => Acha(s, p) = PRINCIPAL
  <2> HIDE DEF s
  <2> QED
    BY <1>2, AchaIs
<1> HIDE DEF s
<1>4. u \in [DOMAIN Ctl -> Nat] /\ \A c \in DOMAIN Ctl : u[c] # 2
  BY <1>0, <1>2 DEF Filhos, BibTipos
<1> HIDE DEF u
<1>5. e \in [DOMAIN Ctl -> Nat] /\ \A c \in DOMAIN Ctl : e[c] # 2
  BY <1>3, <1>4 DEF BibTipos
<1> HIDE DEF e
<1>6. /\ Bib(h) /\ h.filhos = g.filhos /\ h.estado = e /\ h.marcado = g.marcado
      /\ h.legenda = g.legenda /\ h.texto = g.texto /\ h.rolagem = g.rolagem
      /\ h.pilha = g.pilha /\ h.foco = g.foco /\ h.movidas = g.movidas
      /\ ~h.arrasto /\ h.botao = 0
  <2>1. PICK q : q = p
    OBVIOUS
  <2>2. h = [g EXCEPT !.arrasto = FALSE, !.estado = e, !.botao = 0, !.ultimo = q]
    BY <2>1
  <2>3. PICK y : y = [g EXCEPT !.arrasto = FALSE, !.estado = e, !.botao = 0, !.ultimo = q]
    OBVIOUS
  <2>4. /\ Bib(y) /\ y.filhos = g.filhos /\ y.estado = e /\ y.marcado = g.marcado
        /\ y.legenda = g.legenda /\ y.texto = g.texto /\ y.rolagem = g.rolagem
        /\ y.pilha = g.pilha /\ y.foco = g.foco /\ y.movidas = g.movidas
        /\ ~y.arrasto /\ y.botao = 0
    BY ONLY <1>0, <2>3 DEF Bib
  <2>5. h = y
    BY <2>2, <2>3
  <2> HIDE DEF h
  <2> QED
    BY <2>4, <2>5
<1> HIDE DEF h
<1> QED
  BY <1>1, <1>5, <1>6 DEF BibTipos

LEMMA SegueIs ==
  ASSUME lay \in Layouts, NEW s, Firme(s), s.g.filhos = Len(Ctl)
  PROVE  LET fim == Segue(s)
         IN  Firme(fim) /\ fim.g.filhos = s.g.filhos
<1>0. /\ Tipos(s) /\ Pressao(s) /\ BibTipos(s.g) /\ ExeTipos(s.a, s.g.filhos)
      /\ s = [g |-> s.g, a |-> s.a] /\ s.a.timer \in Nat
  BY DEF Firme, Tipos, ExeTipos
<1> DEFINE r == IF s.a.timer = 0 THEN 0 ELSE s.a.timer - 1
           a == [s.a EXCEPT !.timer = r]
<1>1. r \in Nat
  BY <1>0
<1>2. /\ Exe(a) /\ a.registro = s.a.registro /\ a.formas = s.a.formas /\ a.texto = s.a.texto
      /\ a.memo = s.a.memo /\ a.buffer = s.a.buffer /\ a.aloc = s.a.aloc /\ a.foco = s.a.foco
      /\ a.marcado = s.a.marcado /\ a.item = s.a.item
      /\ a.rolagem = s.a.rolagem /\ a.timer = r /\ a.clique = s.a.clique
  <2> HIDE DEF r
  <2>1. PICK x : x = s.a
    OBVIOUS
  <2>2. Exe(x)
    BY <1>0, <2>1 DEF ExeTipos
  <2>3. PICK y : y = [x EXCEPT !.timer = r]
    OBVIOUS
  <2>4. /\ Exe(y) /\ y.registro = x.registro /\ y.formas = x.formas /\ y.texto = x.texto
        /\ y.memo = x.memo /\ y.buffer = x.buffer /\ y.aloc = x.aloc /\ y.foco = x.foco
        /\ y.marcado = x.marcado /\ y.item = x.item
        /\ y.rolagem = x.rolagem /\ y.timer = r /\ y.clique = x.clique
    BY ONLY <2>2, <2>3 DEF Exe
  <2>5. a = y
    BY <2>1, <2>3
  <2> HIDE DEF a
  <2> QED
    BY <2>1, <2>4, <2>5
<1>3. CASE s.a.timer # 1
  <2> DEFINE t == [g |-> s.g, a |-> a]
  <2>1. Segue(s) = t
    BY <1>0, <1>3 DEF Segue
  <2> HIDE DEF a
  <2>2. ExeTipos(a, s.g.filhos)
    BY <1>0, <1>1, <1>2 DEF ExeTipos
  <2>3. Tipos(t)
    BY <1>0, <1>2, <2>2 DEF Tipos
  <2>4. Pressao(t)
    BY <1>0, <1>2, <1>3 DEF Pressao
  <2>5. Cursor(t) /\ Gemeos(t) /\ MemoVivo(t)
    BY <1>2 DEF Firme, Cursor, Gemeos, MemoVivo
  <2> QED
    BY <2>1, <2>3, <2>4, <2>5 DEF Firme
<1>4. CASE s.a.timer = 1
  <2> DEFINE e == [c \in DOMAIN Ctl |-> IF c \in Botoes THEN 0 ELSE s.g.estado[c]]
             b == [s.g EXCEPT !.estado = e]
             h == Mouse(b, s.a.clique, 0)
             t == [g |-> h, a |-> a]
  <2>1. r = 0 /\ a = [s.a EXCEPT !.timer = 0]
    BY <1>4
  <2>2. Segue(s) = t
    BY <1>4, <2>1 DEF Segue
  <2>3. /\ s.g.botao = 1 /\ s.g.ultimo = s.a.clique /\ s.a.clique \in Pontos /\ s.g.movidas = {}
        /\ \A c \in DOMAIN Ctl : s.g.estado[c] = 2 => c \in Botoes \/ Sob(c, s.a.clique)
    BY <1>0, <1>4 DEF Pressao
  <2>4. e \in [DOMAIN Ctl -> Nat] /\ \A c \in DOMAIN Ctl : e[c] = 2 => Sob(c, s.a.clique)
    BY <1>0, <2>3 DEF BibTipos
  <2> HIDE DEF e
  <2>5. /\ Bib(b) /\ b.filhos = s.g.filhos /\ b.estado = e /\ b.marcado = s.g.marcado
        /\ b.legenda = s.g.legenda /\ b.texto = s.g.texto /\ b.rolagem = s.g.rolagem
        /\ b.pilha = s.g.pilha /\ b.foco = s.g.foco /\ b.movidas = s.g.movidas
        /\ b.botao = s.g.botao /\ b.ultimo = s.g.ultimo
    BY <1>0 DEF BibTipos, Bib
  <2> HIDE DEF b
  <2>6. BibTipos(b)
    BY <1>0, <2>4, <2>5 DEF BibTipos
  <2>7. PICK n \in 1..(Len(lay.sub) + 1) : n = s.a.formas /\ PilhaBoa(b.pilha, n)
    BY <1>0, <2>5 DEF Tipos, ExeTipos
  <2>8. /\ BibTipos(h) /\ h.filhos = b.filhos /\ h.legenda = b.legenda /\ h.texto = b.texto
        /\ h.rolagem = b.rolagem /\ h.movidas = b.movidas /\ h.marcado = b.marcado
        /\ h.pilha = b.pilha /\ h.foco = b.foco /\ h.botao = 0 /\ ~h.arrasto
        /\ \A c \in DOMAIN Ctl : h.estado[c] # 2
    <3>1. b.ultimo = s.a.clique /\ b.ultimo \in Pontos /\ b.botao = 1 /\ b.filhos = Len(Ctl)
      BY <2>3, <2>5
    <3>2. \A c \in DOMAIN Ctl : b.estado[c] = 2 => Sob(c, b.ultimo)
      BY <2>4, <2>5, <3>1
    <3>3. h = Mouse(b, b.ultimo, 0)
      BY <3>1
    <3> HIDE DEF h
    <3> QED
      BY <2>6, <2>7, <3>1, <3>2, <3>3, SoltaIs
  <2> HIDE DEF h, a, r
  <2>9. ExeTipos(a, h.filhos)
    BY <1>0, <1>1, <1>2, <2>5, <2>8 DEF ExeTipos
  <2>10. Tipos(t)
    BY <1>0, <1>2, <2>5, <2>8, <2>9 DEF Tipos
  <2>11. Pressao(t)
    <3>1. t.g.movidas = {} /\ t.a.timer = 0 /\ t.g.botao = 0 /\ ~t.g.arrasto
      BY <1>2, <2>1, <2>3, <2>5, <2>8
    <3>2. \A c \in DOMAIN Ctl : t.g.estado[c] # 2
      BY <2>8
    <3> HIDE DEF t
    <3> QED
      BY <3>1, <3>2 DEF Pressao
  <2>12. Cursor(t) /\ Gemeos(t) /\ MemoVivo(t)
    BY <1>2, <2>5, <2>8 DEF Firme, Cursor, Gemeos, MemoVivo
  <2> QED
    BY <2>2, <2>5, <2>8, <2>10, <2>11, <2>12 DEF Firme
<1> QED
  BY <1>3, <1>4

LEMMA PintaIs ==
  ASSUME NEW s, Firme(s)
  PROVE  LET fim == [g |-> Pinta(s.g, s.a), a |-> s.a]
         IN  Firme(fim) /\ fim.g.filhos = s.g.filhos /\ Mostrado(fim)
<1> DEFINE x == TextoVisto(s.g, s.a)
           r == Trava(s.g.rolagem, x)
           h == [s.g EXCEPT !.rolagem = r]
           t == [g |-> h, a |-> s.a]
<1>0. Tipos(s) /\ Pressao(s) /\ BibTipos(s.g) /\ ExeTipos(s.a, s.g.filhos)
  BY DEF Firme, Tipos
<1>1. Pinta(s.g, s.a) = h
  BY DEF Pinta
<1>2. Len(x) \in Nat
  BY <1>0, LenProperties DEF TextoVisto, ExeTipos
<1>3. r \in Nat /\ r < Total(x)
  <2>1. s.g.rolagem \in Nat
    BY <1>0 DEF BibTipos
  <2> HIDE DEF x
  <2> QED
    BY <1>2, <2>1, TravaIs
<1> HIDE DEF r, x
<1>4. /\ Bib(h) /\ h.filhos = s.g.filhos /\ h.estado = s.g.estado /\ h.marcado = s.g.marcado
      /\ h.legenda = s.g.legenda /\ h.texto = s.g.texto /\ h.rolagem = r
      /\ h.pilha = s.g.pilha /\ h.foco = s.g.foco /\ h.movidas = s.g.movidas
      /\ h.arrasto = s.g.arrasto /\ h.botao = s.g.botao /\ h.ultimo = s.g.ultimo
  BY <1>0 DEF BibTipos, Bib
<1> HIDE DEF h
<1>5. TextoVisto(h, s.a) = x
  BY <1>4 DEF TextoVisto, x
<1>6. BibTipos(h)
  BY <1>0, <1>3, <1>4 DEF BibTipos
<1>7. Tipos(t)
  BY <1>0, <1>4, <1>6 DEF Tipos
<1>8. Pressao(t)
  BY <1>0, <1>4 DEF Pressao
<1>9. Cursor(t) /\ Gemeos(t) /\ MemoVivo(t)
  BY <1>4 DEF Firme, Cursor, Gemeos, MemoVivo
<1>10. Mostrado(t)
  BY <1>3, <1>4, <1>5 DEF Mostrado
<1> QED
  BY <1>1, <1>4, <1>7, <1>8, <1>9, <1>10 DEF Firme

-----------------------------------------------------------------------------
(* The steps *)

(* The next state's invariant, from that of its records. *)
LEMMA InvIs ==
  ASSUME lay \in Layouts, lay' = lay, NEW s, s = [g |-> gui', a |-> rt'],
         Firme(s), Inicio(s), Mostrado(s)
  PROVE  GuInv'
<1>0. s.g = gui' /\ s.a = rt'
  OBVIOUS
<1>1. Ctl' = Ctl
  BY DEF Ctl
<1>2. Tipos([g |-> gui, a |-> rt])'
  BY <1>0, ZenonT(30) DEF Firme, Tipos, BibTipos, ExeTipos, Bib, Exe, PilhaBoa, Ctl, Tipo
<1>3. Pressao([g |-> gui, a |-> rt])'
  BY <1>0 DEF Firme, Pressao, Ctl, Botoes, Tipo, Sob
<1>4. Cursor([g |-> gui, a |-> rt])'
  BY <1>0 DEF Firme, Cursor, Ctl, Tipo
<1>5. Gemeos([g |-> gui, a |-> rt])'
  BY <1>0 DEF Firme, Gemeos, Ctl, Tipo
<1>6. MemoVivo([g |-> gui, a |-> rt])'
  BY <1>0 DEF Firme, MemoVivo
<1>7. Inicio([g |-> gui, a |-> rt])'
  BY <1>0 DEF Inicio, Ctl
<1>8. Mostrado([g |-> gui, a |-> rt])'
  BY <1>0 DEF Mostrado, TextoVisto
<1> QED
  BY <1>2, <1>3, <1>4, <1>5, <1>6, <1>7, <1>8 DEF GuInv, Firme

(* A turn after its key. *)
Resto(t, p, ok, feito) ==
  LET v == Segue(Recebe(t, p, ok, feito)) IN [g |-> Pinta(v.g, v.a), a |-> v.a]

LEMMA RestoIs ==
  ASSUME lay \in Layouts, NEW t, Firme(t), t.g.filhos = Len(Ctl), NEW p \in Pontos \cup {NULO},
         NEW ok, NEW feito
  PROVE  LET fim == Resto(t, p, ok, feito)
         IN  Firme(fim) /\ Inicio(fim) /\ Mostrado(fim)
<1> DEFINE u == Recebe(t, p, ok, feito)
           v == Segue(u)
           w == [g |-> Pinta(v.g, v.a), a |-> v.a]
<1>1. Firme(u) /\ u.g.filhos = Len(Ctl)
  BY RecebeIs
<1> HIDE DEF u
<1>2. Firme(v) /\ v.g.filhos = Len(Ctl)
  BY <1>1, SegueIs
<1> HIDE DEF v
<1>3. Firme(w) /\ w.g.filhos = Len(Ctl) /\ Mostrado(w)
  BY <1>2, PintaIs
<1>4. Resto(t, p, ok, feito) = w
  BY DEF Resto, u, v
<1> HIDE DEF w
<1>5. Len(Ctl) \in Nat
  BY LayoutIs
<1>6. Inicio(w)
  BY <1>3, <1>5 DEF Inicio
<1> QED
  BY <1>3, <1>4, <1>6

LEMMA TurnoIs ==
  ASSUME GuInv, NEW k \in Chaves, NEW p \in Pontos \cup {NULO}, NEW ok, NEW feito,
         Turno(k, p, ok, feito)
  PROVE  GuInv'
<1> DEFINE s == [g |-> gui, a |-> rt]
           t == Teclado(s, k, ok)
           w == Resto(t, p, ok, feito)
<1>1. lay \in Layouts /\ Firme(s) /\ s.g.filhos = Len(Ctl)
  BY DEF GuInv, Turno, Pronto
<1>2. lay' = lay /\ w = [g |-> gui', a |-> rt']
  BY DEF Turno, Resto
<1> HIDE DEF s
<1>3. Escreve(s, t)
  BY <1>1, TecladoIs DEF Firme
<1> HIDE DEF t
<1>4. Firme(t) /\ t.g.filhos = Len(Ctl)
  <2>1. Tipos(t) /\ MemoVivo(t) /\ Pressao(t) /\ Cursor(t) /\ Gemeos(t)
    BY <1>1, <1>3, EscreveKeeps DEF Firme
  <2> QED
    BY <1>1, <1>3, <2>1 DEF Firme, Escreve
<1>5. Firme(w) /\ Inicio(w) /\ Mostrado(w)
  BY <1>1, <1>4, RestoIs
<1> HIDE DEF w
<1> QED
  BY <1>1, <1>2, <1>5, InvIs

(* What creating control c changes: a record and a twin more, with nothing in them *)
(* yet but the captions of edits and of combo boxes with items.                    *)
Cresceu(s, f, c) ==
  /\ f = [g |-> f.g, a |-> f.a] /\ Bib(f.g) /\ Exe(f.a)
  /\ f.g.filhos = c /\ f.g.estado = s.g.estado /\ f.g.marcado = s.g.marcado
  /\ f.g.foco = s.g.foco /\ f.g.texto = s.g.texto /\ f.g.rolagem = s.g.rolagem
  /\ f.g.pilha = s.g.pilha /\ f.g.arrasto = s.g.arrasto /\ f.g.movidas = s.g.movidas
  /\ f.g.botao = s.g.botao /\ f.g.ultimo = s.g.ultimo
  /\ f.g.legenda = [d \in DOMAIN Ctl |-> f.g.legenda[d]]
  /\ \A d \in DOMAIN Ctl : d # c => f.g.legenda[d] = s.g.legenda[d]
  /\ Tipo(c) = "combo" /\ Ctl[c].itens > 0 => f.g.legenda[c][1] = 1
  /\ f.a.registro = IF Len(s.a.registro) < MaxRegistro THEN Append(s.a.registro, c) ELSE s.a.registro
  /\ f.a.formas = s.a.formas /\ f.a.foco = s.a.foco /\ f.a.item = s.a.item
  /\ f.a.rolagem = s.a.rolagem /\ f.a.timer = s.a.timer /\ f.a.clique = s.a.clique
  /\ f.a.marcado = s.a.marcado \/ (Tipo(c) # "check" /\ f.a.marcado = s.a.marcado \union {c})
  /\ f.a.texto = [d \in DOMAIN Ctl |-> f.a.texto[d]]
  /\ f.a.memo = <<>> /\ f.a.aloc \in Nat \ {0} /\ f.a.buffer \in Nat \ {NULO}

LEMMA CresceuIs ==
  ASSUME lay \in Layouts, NEW s, Firme(s), Inicio(s), Mostrado(s), NEW c, c = s.g.filhos + 1,
         s.g.filhos < Len(Ctl), NEW f, Cresceu(s, f, c)
  PROVE  Firme(f) /\ Inicio(f) /\ Mostrado(f)
<1>0. /\ Tipos(s) /\ Pressao(s) /\ Cursor(s) /\ Gemeos(s)
      /\ BibTipos(s.g) /\ ExeTipos(s.a, s.g.filhos)
      /\ s.g.texto = NULO /\ s.g.rolagem = 0 /\ \A d \in DOMAIN Ctl : s.a.item[d] = 0
  BY DEF Firme, Tipos, Inicio
<1>1. /\ Len(Ctl) \in Nat /\ DOMAIN Ctl = 1..Len(Ctl) /\ c \in 1..Len(Ctl) /\ c \in DOMAIN Ctl
      /\ s.g.filhos \in Nat /\ c - 1 = s.g.filhos /\ MaxRegistro \in Nat
  BY <1>0, LayoutIs, GuiAssumption, SMTT(30) DEF BibTipos
<1>2. BibTipos(f.g)
  BY <1>0, <1>1, SMTT(30) DEF Cresceu, BibTipos
<1>3. /\ f.a.registro \in Seq(Nat)
      /\ Len(f.a.registro) = IF c < MaxRegistro THEN c ELSE MaxRegistro
      /\ \A i \in 1..Len(f.a.registro) : f.a.registro[i] = i
      /\ \A i \in 1..Len(f.a.registro) : i \in 1..Len(s.a.registro) \/ i = c
      /\ \A i \in 1..Len(f.a.registro) : i \in DOMAIN Ctl
  <2>1. /\ s.a.registro \in Seq(Nat) /\ Len(s.a.registro) \in Nat
        /\ Len(s.a.registro) = IF s.g.filhos < MaxRegistro THEN s.g.filhos ELSE MaxRegistro
        /\ \A i \in 1..Len(s.a.registro) : s.a.registro[i] = i
    BY <1>0 DEF ExeTipos
  <2>2. CASE Len(s.a.registro) < MaxRegistro
    <3>1. s.g.filhos < MaxRegistro /\ Len(s.a.registro) = c - 1
      BY <1>1, <2>1, <2>2
    <3>2. f.a.registro = Append(s.a.registro, c) /\ c \in Nat
      BY <1>1, <2>2, SMTT(30) DEF Cresceu
    <3>3. f.a.registro \in Seq(Nat) /\ Len(f.a.registro) = c
      BY <1>1, <2>1, <3>1, <3>2
    <3>4. \A i \in 1..c : f.a.registro[i] = IF i = c THEN c ELSE s.a.registro[i]
      BY <1>1, <2>1, <3>1, <3>2, SMTT(30)
    <3>5. \A i \in 1..c : f.a.registro[i] = i
      <4> SUFFICES ASSUME NEW i \in 1..c
                   PROVE  f.a.registro[i] = i
        OBVIOUS
      <4>1. i # c => i \in 1..Len(s.a.registro)
        BY <1>1, <3>1
      <4>2. i # c => s.a.registro[i] = i
        BY <2>1, <4>1
      <4> QED
        BY <3>4, <4>2
    <3>6. \A i \in 1..c : i \in 1..Len(s.a.registro) \/ i = c
      BY <1>1, <3>1
    <3>7. (IF c < MaxRegistro THEN c ELSE MaxRegistro) = c
      BY <1>1, <3>1
    <3>8. \A i \in 1..c : i \in DOMAIN Ctl
      BY <1>1
    <3> QED
      BY <3>3, <3>5, <3>6, <3>7, <3>8
  <2>3. CASE ~(Len(s.a.registro) < MaxRegistro)
    <3>1. Len(s.a.registro) = MaxRegistro /\ s.g.filhos >= MaxRegistro /\ f.a.registro = s.a.registro
      BY <1>1, <2>1, <2>3 DEF Cresceu
    <3> QED
      BY <1>1, <2>1, <3>1
  <2> QED
    BY <2>2, <2>3
<1>4. ExeTipos(f.a, f.g.filhos)
  <2>1. f.a.marcado \subseteq 1..c
    <3>1. s.a.marcado \subseteq 1..(c - 1)
      BY <1>0, <1>1 DEF ExeTipos
    <3> QED
      BY <1>1, <3>1 DEF Cresceu
  <2>2. f.a.memo \in Seq({"x", "n"})
    BY DEF Cresceu
  <2>3. /\ Exe(f.a) /\ f.g.filhos = c /\ f.a.formas = s.a.formas /\ f.a.foco = s.a.foco
        /\ f.a.item = s.a.item /\ f.a.rolagem = s.a.rolagem /\ f.a.timer = s.a.timer
        /\ f.a.texto = [d \in DOMAIN Ctl |-> f.a.texto[d]]
        /\ f.a.aloc \in Nat /\ f.a.buffer \in Nat \ {NULO}
    BY DEF Cresceu
  <2>4. /\ s.a.foco = NULO \/ (s.a.foco \in DOMAIN Ctl /\ Tipo(s.a.foco) \in Digita)
        /\ s.a.item = [d \in DOMAIN Ctl |-> s.a.item[d]]
        /\ s.a.rolagem \in Nat /\ s.a.timer \in Nat /\ s.a.formas \in 1..(Len(lay.sub) + 1)
    BY <1>0 DEF ExeTipos
  <2> QED
    BY ONLY <1>3, <2>1, <2>2, <2>3, <2>4 DEF ExeTipos
<1>5. Tipos(f)
  BY <1>0, <1>2, <1>4 DEF Cresceu, Tipos
<1>6. Pressao(f)
  BY <1>0 DEF Cresceu, Pressao
<1>7. Cursor(f)
  BY <1>0 DEF Cresceu, Cursor
<1>8. ASSUME NEW i \in 1..Len(f.a.registro)
      PROVE  /\ Tipo(i) = "check" => (i \in f.g.marcado <=> i \in f.a.marcado)
             /\ Tipo(i) = "radio" => (i \in f.g.marcado => i \in f.a.marcado)
             /\ Tipo(i) = "combo" /\ Ctl[i].itens > 0 => f.g.legenda[i][1] = f.a.item[i] + 1
  <2>1. i \in 1..Len(s.a.registro) \/ i = c
    BY <1>3
  <2>2. CASE i = c
    <3>1. c \notin s.g.marcado /\ c \notin s.a.marcado
      <4>1. s.g.marcado \subseteq 1..(c - 1)
        BY <1>0, <1>1 DEF BibTipos
      <4>2. s.a.marcado \subseteq 1..(c - 1)
        BY <1>0, <1>1 DEF ExeTipos
      <4>3. c \notin 1..(c - 1)
        BY <1>1
      <4> QED
        BY <4>1, <4>2, <4>3
    <3>2. /\ f.g.marcado = s.g.marcado /\ f.a.item = s.a.item
          /\ Tipo(c) = "check" => f.a.marcado = s.a.marcado
          /\ Tipo(c) = "combo" /\ Ctl[c].itens > 0 => f.g.legenda[c][1] = 1
      BY DEF Cresceu
    <3>3. f.a.item[c] = 0
      BY <1>0, <1>1, <3>2
    <3> QED
      BY <2>2, <3>1, <3>2, <3>3
  <2>3. CASE i # c
    <3>1. /\ Tipo(i) = "check" => (i \in s.g.marcado <=> i \in s.a.marcado)
          /\ Tipo(i) = "radio" => (i \in s.g.marcado => i \in s.a.marcado)
          /\ Tipo(i) = "combo" /\ Ctl[i].itens > 0 => s.g.legenda[i][1] = s.a.item[i] + 1
      BY <1>0, <2>1, <2>3 DEF Gemeos
    <3>2. i \in DOMAIN Ctl
      BY <1>3
    <3> QED
      BY <2>3, <3>1, <3>2 DEF Cresceu
  <2> QED
    BY <2>2, <2>3
<1>9. Gemeos(f)
  BY <1>8 DEF Gemeos
<1>10. MemoVivo(f)
  BY <1>0 DEF Cresceu, MemoVivo
<1>11. Inicio(f)
  BY <1>0 DEF Cresceu, Inicio
<1>12. Mostrado(f)
  <2>1. TextoVisto(f.g, f.a) = <<>> /\ f.g.rolagem = 0
    BY <1>0 DEF Cresceu, TextoVisto
  <2>2. Total(<<>>) \in Nat \ {0}
    BY TotalIs
  <2> QED
    BY <2>1, <2>2 DEF Mostrado
<1> QED
  BY <1>5, <1>6, <1>7, <1>9, <1>10, <1>11, <1>12 DEF Firme

LEMMA SimplesIs ==
  ASSUME lay \in Layouts, NEW s, Tipos(s), MemoVivo(s), Inicio(s), NEW c, c = s.g.filhos + 1,
         s.g.filhos < Len(Ctl), s.g.filhos < MaxFilhos
  PROVE  LET n == CriaSimples(s, c)
         IN  /\ n.g = [s.g EXCEPT !.filhos = c] /\ n = [g |-> n.g, a |-> n.a]
             /\ n.a = [s.a EXCEPT !.registro = n.a.registro]
             /\ n.a.registro = IF Len(s.a.registro) < MaxRegistro THEN Append(s.a.registro, c)
                               ELSE s.a.registro
BY DEF CriaSimples, Nasce, Registra, Tipos, BibTipos, ExeTipos, Bib, Exe

LEMMA CriaIs == GuInv /\ Cria => GuInv'
<1> SUFFICES ASSUME GuInv, Cria
             PROVE  GuInv'
  OBVIOUS
<1> DEFINE s == [g |-> gui, a |-> rt]
           c == gui.filhos + 1
           q == CriaSimples(s, c)
<1>1. /\ lay \in Layouts /\ lay' = lay /\ Firme(s) /\ Inicio(s) /\ Mostrado(s)
      /\ s.g.filhos < Len(Ctl) /\ s.g.filhos < MaxFilhos /\ c = s.g.filhos + 1
  BY DEF GuInv, Cria
<1>2. /\ Bib(s.g) /\ Exe(s.a) /\ Tipos(s) /\ MemoVivo(s)
      /\ s.g.legenda = [d \in DOMAIN Ctl |-> s.g.legenda[d]]
      /\ s.a.texto = [d \in DOMAIN Ctl |-> s.a.texto[d]]
      /\ s.a.memo = <<>> /\ s.a.aloc \in Nat \ {0} /\ s.a.buffer \in Nat \ {NULO}
  <2>1. s.a.memo = <<>> /\ s.a.aloc \in Nat /\ Len(s.a.memo) < s.a.aloc /\ Len(<<>>) = 0
    BY <1>1 DEF Firme, Tipos, ExeTipos, MemoVivo, Inicio
  <2>2. s.a.aloc \in Nat \ {0}
    BY <2>1
  <2> QED
    BY <1>1, <2>1, <2>2 DEF Firme, Tipos, BibTipos, ExeTipos
<1>3. PICK f : f = [g |-> gui', a |-> rt']
  OBVIOUS
<1>4. \/ Tipo(c) = "memo" /\ f = CriaMemo(s, c)
      \/ Tipo(c) = "edit" /\ f = CriaEdit(s, c)
      \/ Tipo(c) = "combo" /\ f = CriaCombo(s, c)
      \/ Tipo(c) = "check" /\ f = CriaCheck(s, c)
      \/ Tipo(c) = "radio" /\ f = CriaCheck(s, c)
      \/ Tipo(c) = "radio" /\ f = [CriaSimples(s, c) EXCEPT !.a.viva = FALSE]
      \/ Tipo(c) # "combo" /\ f = CriaSimples(s, c)
  <2>1. PICK n : /\ gui' = n.g /\ rt' = n.a
                 /\ \/ Tipo(c) = "memo" /\ n = CriaMemo(s, c)
                    \/ Tipo(c) = "edit" /\ n = CriaEdit(s, c)
                    \/ Tipo(c) = "combo" /\ n = CriaCombo(s, c)
                    \/ Tipo(c) = "check" /\ n = CriaCheck(s, c)
                    \/ Tipo(c) = "radio" /\ n = CriaCheck(s, c)
                    \/ Tipo(c) = "radio" /\ n = [CriaSimples(s, c) EXCEPT !.a.viva = FALSE]
                    \/ Tipo(c) # "combo" /\ n = CriaSimples(s, c)
    BY DEF Cria, CriaRadio
  <2>2. n = [g |-> n.g, a |-> n.a]
    <3>1. q = [g |-> q.g, a |-> q.a]
      BY DEF CriaSimples
    <3> HIDE DEF q, c, s
    <3> QED
      BY <2>1, <3>1 DEF CriaMemo, CriaEdit, CriaCombo, CriaCheck, q
  <2>3. f = n
    BY <1>3, <2>1, <2>2
  <2> QED
    BY <2>1, <2>3
<1> HIDE DEF c, s
<1>5. Cresceu(s, f, c)
  <2>1. /\ q.g = [s.g EXCEPT !.filhos = c] /\ q = [g |-> q.g, a |-> q.a]
        /\ q.a = [s.a EXCEPT !.registro = q.a.registro]
        /\ q.a.registro = IF Len(s.a.registro) < MaxRegistro THEN Append(s.a.registro, c) ELSE s.a.registro
    BY <1>1, <1>2, SimplesIs
  <2>2. /\ Bib(q.g) /\ q.g.filhos = c /\ q.g.estado = s.g.estado /\ q.g.marcado = s.g.marcado
        /\ q.g.foco = s.g.foco /\ q.g.texto = s.g.texto /\ q.g.rolagem = s.g.rolagem
        /\ q.g.pilha = s.g.pilha /\ q.g.arrasto = s.g.arrasto /\ q.g.movidas = s.g.movidas
        /\ q.g.botao = s.g.botao /\ q.g.ultimo = s.g.ultimo /\ q.g.legenda = s.g.legenda
    <3> HIDE DEF q
    <3> QED
      BY <1>2, <2>1 DEF Bib
  <2>3. /\ Exe(q.a) /\ q.a.formas = s.a.formas /\ q.a.foco = s.a.foco /\ q.a.item = s.a.item
        /\ q.a.rolagem = s.a.rolagem /\ q.a.timer = s.a.timer /\ q.a.clique = s.a.clique
        /\ q.a.marcado = s.a.marcado /\ q.a.texto = s.a.texto /\ q.a.memo = s.a.memo
        /\ q.a.aloc = s.a.aloc /\ q.a.buffer = s.a.buffer
    <3> HIDE DEF q
    <3> QED
      BY <1>2, <2>1 DEF Exe
  <2> HIDE DEF q
  <2>4. c \in DOMAIN Ctl
    BY <1>1, LayoutIs DEF Firme, Tipos, BibTipos
  <2>5. \/ Tipo(c) = "memo" /\ f = [q EXCEPT !.a.memo = <<>>, !.a.buffer = 1, !.a.aloc = AlocInicial]
        \/ Tipo(c) = "edit" /\ f = [g |-> PropLegenda(q.g, c, Ctl[c].texto),
                                    a |-> [q.a EXCEPT !.texto[c] = Ctl[c].texto]]
        \/ Tipo(c) = "combo" /\ f = IF Ctl[c].itens = 0 THEN q ELSE [q EXCEPT !.g = Mostra(@, c, 0, 1)]
        \/ /\ Tipo(c) # "combo"
           /\ \/ f = q \/ f = [q EXCEPT !.a.viva = FALSE]
              \/ Tipo(c) = "radio" /\ f = [q EXCEPT !.a.marcado = @ \union {c}]
    <3>1. Tipo(c) = "check" => ~Ctl[c].liga
      BY <1>1, <2>4, LayoutIs
    <3>2. CriaSimples(s, c) = q
      BY DEF q
    <3>3. Tipo(c) \in {"check", "radio"} /\ f = CriaCheck(s, c)
            => f = q \/ (Tipo(c) = "radio" /\ f = [q EXCEPT !.a.marcado = @ \union {c}])
      BY <3>1, <3>2 DEF CriaCheck
    <3>4. f = CriaMemo(s, c) => f = [q EXCEPT !.a.memo = <<>>, !.a.buffer = 1, !.a.aloc = AlocInicial]
      BY <3>2 DEF CriaMemo
    <3>5. f = CriaEdit(s, c) => f = [g |-> PropLegenda(q.g, c, Ctl[c].texto),
                                     a |-> [q.a EXCEPT !.texto[c] = Ctl[c].texto]]
      BY <3>2 DEF CriaEdit
    <3>6. f = CriaCombo(s, c) => f = IF Ctl[c].itens = 0 THEN q ELSE [q EXCEPT !.g = Mostra(@, c, 0, 1)]
      BY <3>2 DEF CriaCombo
    <3> QED
      BY <1>4, <3>2, <3>3, <3>4, <3>5, <3>6
  <2>6. CASE Tipo(c) = "memo" /\ f = [q EXCEPT !.a.memo = <<>>, !.a.buffer = 1, !.a.aloc = AlocInicial]
    <3>1. f = [g |-> q.g, a |-> [q.a EXCEPT !.memo = <<>>, !.buffer = 1, !.aloc = AlocInicial]]
      BY <2>1, <2>6
    <3>2. /\ f.g = q.g /\ f.a = [q.a EXCEPT !.memo = <<>>, !.buffer = 1, !.aloc = AlocInicial]
          /\ f = [g |-> f.g, a |-> f.a]
      BY <3>1
    <3>3. /\ Exe(f.a) /\ f.a.registro = q.a.registro /\ f.a.formas = q.a.formas /\ f.a.foco = q.a.foco
          /\ f.a.item = q.a.item /\ f.a.rolagem = q.a.rolagem /\ f.a.timer = q.a.timer
          /\ f.a.clique = q.a.clique /\ f.a.marcado = q.a.marcado /\ f.a.texto = q.a.texto
          /\ f.a.memo = <<>> /\ f.a.aloc = AlocInicial /\ f.a.buffer = 1
      BY <2>3, <3>2, ZenonT(30) DEF Exe
    <3>4. AlocInicial \in Nat \ {0} /\ 1 \in Nat \ {NULO}
      BY GuiAssumption DEF NULO
    <3>5. /\ f.g.legenda = [d \in DOMAIN Ctl |-> f.g.legenda[d]]
          /\ f.a.texto = [d \in DOMAIN Ctl |-> f.a.texto[d]]
          /\ f.g.legenda = s.g.legenda /\ Tipo(c) # "combo"
      BY <1>2, <2>2, <2>3, <2>6, <3>2, <3>3
    <3> QED
      BY <2>1, <2>2, <2>3, <3>2, <3>3, <3>4, <3>5 DEF Cresceu
  <2>7. CASE Tipo(c) = "edit" /\ f = [g |-> PropLegenda(q.g, c, Ctl[c].texto),
                                      a |-> [q.a EXCEPT !.texto[c] = Ctl[c].texto]]
    <3> DEFINE x == Ctl[c].texto
    <3>1. f.g = [q.g EXCEPT !.legenda[c] = x] /\ f.a = [q.a EXCEPT !.texto[c] = x] /\ f = [g |-> f.g, a |-> f.a]
      BY <2>7 DEF PropLegenda
    <3> HIDE DEF x
    <3>2. /\ Exe(f.a) /\ f.a.registro = q.a.registro /\ f.a.formas = q.a.formas /\ f.a.foco = q.a.foco
          /\ f.a.item = q.a.item /\ f.a.rolagem = q.a.rolagem /\ f.a.timer = q.a.timer
          /\ f.a.clique = q.a.clique /\ f.a.marcado = q.a.marcado /\ f.a.memo = q.a.memo
          /\ f.a.texto = [q.a.texto EXCEPT ![c] = x] /\ f.a.aloc = q.a.aloc /\ f.a.buffer = q.a.buffer
      BY <2>3, <3>1 DEF Exe
    <3>3. /\ Bib(f.g) /\ f.g.filhos = q.g.filhos /\ f.g.estado = q.g.estado /\ f.g.marcado = q.g.marcado
          /\ f.g.foco = q.g.foco /\ f.g.texto = q.g.texto /\ f.g.rolagem = q.g.rolagem
          /\ f.g.pilha = q.g.pilha /\ f.g.arrasto = q.g.arrasto /\ f.g.movidas = q.g.movidas
          /\ f.g.botao = q.g.botao /\ f.g.ultimo = q.g.ultimo
          /\ f.g.legenda = [q.g.legenda EXCEPT ![c] = x]
      BY <2>2, <3>1 DEF Bib
    <3>4. /\ f.a.texto = [d \in DOMAIN Ctl |-> f.a.texto[d]]
          /\ f.g.legenda = [d \in DOMAIN Ctl |-> f.g.legenda[d]]
          /\ \A d \in DOMAIN Ctl : d # c => f.g.legenda[d] = s.g.legenda[d]
      <4>1. f.a.texto = [d \in DOMAIN Ctl |-> IF d = c THEN x ELSE s.a.texto[d]]
        BY <1>2, <2>3, <3>2
      <4>2. f.g.legenda = [d \in DOMAIN Ctl |-> IF d = c THEN x ELSE s.g.legenda[d]]
        BY <1>2, <2>2, <3>3
      <4> QED
        BY <4>1, <4>2
    <3>5. Tipo(c) # "combo"
      BY <2>7
    <3> QED
      BY <1>2, <2>1, <2>2, <2>3, <3>1, <3>2, <3>3, <3>4, <3>5, ZenonT(30) DEF Cresceu
  <2>8. CASE Tipo(c) = "combo" /\ f = IF Ctl[c].itens = 0 THEN q ELSE [q EXCEPT !.g = Mostra(@, c, 0, 1)]
    <3> DEFINE x == IF Ctl[c].itens = 0 THEN q.g.legenda ELSE [q.g.legenda EXCEPT ![c] = <<1, 1>>]
    <3>1. f.g = [q.g EXCEPT !.legenda = x] /\ f.a = q.a /\ f = [g |-> f.g, a |-> f.a]
      <4>1. CASE Ctl[c].itens = 0
        <5>1. f = q /\ x = q.g.legenda
          BY <2>8, <4>1
        <5> HIDE DEF x
        <5> QED
          BY <2>1, <2>2, <5>1 DEF Bib
      <4>2. CASE Ctl[c].itens # 0
        <5>1. f = [q EXCEPT !.g = [q.g EXCEPT !.legenda[c] = <<1, 1>>]]
          BY <2>8, <4>2 DEF Mostra, PropLegenda
        <5>2. x = [q.g.legenda EXCEPT ![c] = <<1, 1>>]
          BY <4>2
        <5> HIDE DEF x
        <5> QED
          BY <2>1, <2>2, <5>1, <5>2 DEF Bib
      <4> QED
        BY <4>1, <4>2
    <3>2. /\ x = [d \in DOMAIN Ctl |-> x[d]]
          /\ \A d \in DOMAIN Ctl : d # c => x[d] = s.g.legenda[d]
          /\ Ctl[c].itens # 0 => x[c][1] = 1
      BY <1>2, <2>2, <2>4
    <3> HIDE DEF x
    <3>3. /\ Bib(f.g) /\ f.g.filhos = q.g.filhos /\ f.g.estado = q.g.estado /\ f.g.marcado = q.g.marcado
          /\ f.g.foco = q.g.foco /\ f.g.texto = q.g.texto /\ f.g.rolagem = q.g.rolagem
          /\ f.g.pilha = q.g.pilha /\ f.g.arrasto = q.g.arrasto /\ f.g.movidas = q.g.movidas
          /\ f.g.botao = q.g.botao /\ f.g.ultimo = q.g.ultimo /\ f.g.legenda = x
      BY <2>2, <3>1 DEF Bib
    <3>4. Ctl[c].itens > 0 => Ctl[c].itens # 0
      OBVIOUS
    <3>5. /\ f.g.legenda = [d \in DOMAIN Ctl |-> f.g.legenda[d]]
          /\ \A d \in DOMAIN Ctl : d # c => f.g.legenda[d] = s.g.legenda[d]
          /\ Tipo(c) = "combo" /\ Ctl[c].itens > 0 => f.g.legenda[c][1] = 1
      BY ONLY <3>2, <3>3, <3>4
    <3> QED
      BY <1>2, <2>1, <2>2, <2>3, <3>1, <3>3, <3>5 DEF Cresceu
  <2>9. ASSUME f = q \/ f = [q EXCEPT !.a.viva = FALSE]
               \/ (Tipo(c) = "radio" /\ f = [q EXCEPT !.a.marcado = @ \union {c}]),
               Tipo(c) # "combo"
        PROVE  Cresceu(s, f, c)
    <3>1. PICK m, v : /\ f = [g |-> q.g, a |-> [q.a EXCEPT !.marcado = m, !.viva = v]]
                      /\ m = q.a.marcado \/ (Tipo(c) = "radio" /\ m = q.a.marcado \union {c})
      <4>1. CASE f = q
        <5>1. q.a = [q.a EXCEPT !.marcado = q.a.marcado, !.viva = q.a.viva]
          BY <2>3 DEF Exe
        <5> QED
          BY <2>1, <4>1, <5>1
      <4>2. CASE f = [q EXCEPT !.a.viva = FALSE]
        <5>1. [q.a EXCEPT !.viva = FALSE] = [q.a EXCEPT !.marcado = q.a.marcado, !.viva = FALSE]
          BY <2>3 DEF Exe
        <5>2. f = [g |-> q.g, a |-> [q.a EXCEPT !.viva = FALSE]]
          BY <2>1, <4>2
        <5> QED
          BY <5>1, <5>2
      <4>3. CASE Tipo(c) = "radio" /\ f = [q EXCEPT !.a.marcado = @ \union {c}]
        <5> DEFINE m == q.a.marcado \union {c}
        <5>1. f = [g |-> q.g, a |-> [q.a EXCEPT !.marcado = m]]
          BY <2>1, <4>3
        <5>2. [q.a EXCEPT !.marcado = m] = [q.a EXCEPT !.marcado = m, !.viva = q.a.viva]
          <6> HIDE DEF m
          <6> QED
            BY <2>3 DEF Exe
        <5> QED
          BY <4>3, <5>1, <5>2
      <4> QED
        BY <2>9, <4>1, <4>2, <4>3
    <3>2. f.g = q.g /\ f.a = [q.a EXCEPT !.marcado = m, !.viva = v] /\ f = [g |-> f.g, a |-> f.a]
      BY <3>1
    <3>3. /\ Exe(f.a) /\ f.a.registro = q.a.registro /\ f.a.formas = q.a.formas /\ f.a.foco = q.a.foco
          /\ f.a.item = q.a.item /\ f.a.rolagem = q.a.rolagem /\ f.a.timer = q.a.timer
          /\ f.a.clique = q.a.clique /\ f.a.marcado = m /\ f.a.texto = q.a.texto
          /\ f.a.memo = q.a.memo /\ f.a.aloc = q.a.aloc /\ f.a.buffer = q.a.buffer
      BY <2>3, <3>2, ZenonT(30) DEF Exe
    <3>4. f.a.marcado = s.a.marcado \/ (Tipo(c) # "check" /\ f.a.marcado = s.a.marcado \union {c})
      BY <2>3, <3>1, <3>3
    <3> QED
      BY <1>2, <2>1, <2>2, <2>3, <2>9, <3>2, <3>3, <3>4 DEF Cresceu
  <2> QED
    BY <2>5, <2>6, <2>7, <2>8, <2>9
<1>6. Firme(f) /\ Inicio(f) /\ Mostrado(f)
  BY <1>1, <1>5, CresceuIs
<1> QED
  BY <1>1, <1>3, <1>6, InvIs

LEMMA AbreIs == GuInv /\ AbreForma => GuInv'
<1> SUFFICES ASSUME GuInv, AbreForma
             PROVE  GuInv'
  OBVIOUS
<1> DEFINE s == [g |-> gui, a |-> rt]
           m == rt.formas + 1
           z == IF Len(gui.pilha) < MaxJanelas THEN Append(gui.pilha, m) ELSE gui.pilha
<1>1. lay \in Layouts /\ lay' = lay /\ Firme(s) /\ Inicio(s) /\ Mostrado(s) /\ rt.formas <= Len(lay.sub)
  BY DEF GuInv, AbreForma
<1>2. /\ Tipos(s) /\ Pressao(s) /\ Cursor(s) /\ Gemeos(s) /\ MemoVivo(s) /\ Bib(gui) /\ Exe(rt)
      /\ BibTipos(gui) /\ ExeTipos(rt, gui.filhos) /\ PilhaBoa(gui.pilha, rt.formas)
  BY <1>1 DEF Firme, Tipos, BibTipos, ExeTipos
<1>3. gui' = [gui EXCEPT !.pilha = z, !.ativa = m] /\ rt' = [rt EXCEPT !.formas = m]
  <2>1. rt' = [rt EXCEPT !.formas = m]
    BY DEF AbreForma
  <2> QED
    BY <2>1 DEF AbreForma, Adiciona
<1>4. Len(lay.sub) \in Nat /\ rt.formas \in 1..(Len(lay.sub) + 1) /\ m \in 1..(Len(lay.sub) + 1)
  BY <1>1, <1>2, LayoutIs DEF ExeTipos
<1>5. PilhaBoa(z, m)
  <2>1. /\ gui.pilha \in Seq(Nat) /\ Len(gui.pilha) \in Nat
        /\ \A i \in 1..Len(gui.pilha) : gui.pilha[i] \in 1..rt.formas
    BY <1>2 DEF PilhaBoa
  <2>2. PICK k \in 1..Len(gui.pilha) : gui.pilha[k] = PRINCIPAL
    BY <1>2 DEF PilhaBoa
  <2>3. m \in Nat /\ \A i \in 1..rt.formas : i \in 1..m
    BY <1>4
  <2>4. CASE Len(gui.pilha) < MaxJanelas
    <3> DEFINE y == Append(gui.pilha, m)
    <3>1. /\ y \in Seq(Nat) /\ Len(y) = Len(gui.pilha) + 1 /\ DOMAIN y = 1..Len(y)
          /\ \A i \in 1..Len(y) : y[i] = IF i = Len(gui.pilha) + 1 THEN m ELSE gui.pilha[i]
      BY <2>1, <2>3, SMTT(30)
    <3>2. z = y
      BY <2>4
    <3> HIDE DEF y, z, m
    <3>3. \A i \in 1..Len(y) : y[i] \in 1..m
      <4> SUFFICES ASSUME NEW i \in 1..Len(y)
                   PROVE  y[i] \in 1..m
        OBVIOUS
      <4>1. i # Len(gui.pilha) + 1 => i \in 1..Len(gui.pilha)
        BY <2>1, <3>1
      <4>2. m \in 1..m
        BY <1>4
      <4> QED
        BY <2>1, <2>3, <3>1, <4>1, <4>2
    <3>4. k \in 1..Len(y) /\ y[k] = PRINCIPAL
      BY <2>1, <2>2, <3>1, SMTT(30)
    <3> QED
      BY <2>1, <3>1, <3>2, <3>3, <3>4, SMTT(30) DEF PilhaBoa
  <2>5. CASE ~(Len(gui.pilha) < MaxJanelas)
    <3>1. z = gui.pilha
      BY <2>5
    <3> HIDE DEF z, m
    <3> QED
      BY <1>2, <2>1, <2>3, <3>1 DEF PilhaBoa
  <2> QED
    BY <2>4, <2>5
<1> HIDE DEF z, m
<1>6. /\ Bib(gui') /\ gui'.filhos = gui.filhos /\ gui'.estado = gui.estado /\ gui'.marcado = gui.marcado
      /\ gui'.legenda = gui.legenda /\ gui'.foco = gui.foco /\ gui'.texto = gui.texto
      /\ gui'.rolagem = gui.rolagem /\ gui'.pilha = z /\ gui'.arrasto = gui.arrasto
      /\ gui'.movidas = gui.movidas /\ gui'.botao = gui.botao /\ gui'.ultimo = gui.ultimo
  BY <1>2, <1>3 DEF Bib
<1>7. /\ Exe(rt') /\ rt'.registro = rt.registro /\ rt'.formas = m /\ rt'.foco = rt.foco
      /\ rt'.marcado = rt.marcado /\ rt'.texto = rt.texto /\ rt'.item = rt.item /\ rt'.memo = rt.memo
      /\ rt'.buffer = rt.buffer /\ rt'.aloc = rt.aloc /\ rt'.rolagem = rt.rolagem
      /\ rt'.timer = rt.timer /\ rt'.clique = rt.clique
  BY <1>2, <1>3 DEF Exe
<1>8. PICK f : f = [g |-> gui', a |-> rt']
  OBVIOUS
<1>9. f = [g |-> f.g, a |-> f.a] /\ f.g = gui' /\ f.a = rt'
  BY <1>8
<1>10. BibTipos(f.g)
  BY <1>2, <1>6, <1>9 DEF BibTipos
<1>11. ExeTipos(f.a, f.g.filhos)
  BY <1>2, <1>4, <1>6, <1>7, <1>9 DEF ExeTipos
<1>12. Tipos(f)
  BY <1>5, <1>6, <1>7, <1>9, <1>10, <1>11 DEF Tipos
<1>13. Pressao(f)
  BY <1>2, <1>6, <1>7, <1>9 DEF Pressao
<1>14. Cursor(f) /\ MemoVivo(f)
  BY <1>2, <1>6, <1>7, <1>9 DEF Cursor, MemoVivo
<1>15. Gemeos(f)
  BY <1>2, <1>6, <1>7, <1>9 DEF Gemeos
<1>16. Inicio(f) /\ Mostrado(f)
  BY <1>1, <1>6, <1>7, <1>9 DEF Inicio, Mostrado, TextoVisto
<1> QED
  BY <1>1, <1>8, <1>12, <1>13, <1>14, <1>15, <1>16, InvIs DEF Firme

LEMMA GuInvInit == GuInit => GuInv
<1> SUFFICES ASSUME GuInit
             PROVE  GuInv
  OBVIOUS
<1> DEFINE f == [g |-> gui, a |-> rt]
<1>1. lay \in Layouts /\ Len(Ctl) \in Nat /\ DOMAIN Ctl = 1..Len(Ctl) /\ Len(lay.sub) \in Nat
  BY LayoutIs DEF GuInit
<1>2. /\ Bib(gui) /\ gui.filhos = 0 /\ gui.estado = [c \in DOMAIN Ctl |-> 0] /\ gui.marcado = {}
      /\ gui.legenda = [c \in DOMAIN Ctl |-> <<>>] /\ gui.foco = NULO /\ gui.texto = NULO
      /\ gui.rolagem = 0 /\ gui.pilha = <<PRINCIPAL>> /\ ~gui.arrasto
      /\ gui.movidas = {} /\ gui.botao = 0
  BY DEF GuInit, Bib
<1>3. /\ Exe(rt) /\ rt.registro = <<>> /\ rt.formas = 1 /\ rt.foco = NULO
      /\ rt.marcado = {} /\ rt.texto = [c \in DOMAIN Ctl |-> <<>>] /\ rt.item = [c \in DOMAIN Ctl |-> 0]
      /\ rt.memo = <<>> /\ rt.buffer = 1 /\ rt.aloc = AlocInicial /\ rt.rolagem = 0 /\ rt.timer = 0
  BY DEF GuInit, Exe
<1>4. BibTipos(gui)
  BY <1>1, <1>2 DEF BibTipos
<1>5. ExeTipos(rt, gui.filhos)
  <2>1. <<>> \in Seq(Nat) /\ Len(<<>>) = 0 /\ <<>> \in Seq({"x", "n"})
    OBVIOUS
  <2>2. Len(<<>>) = IF 0 < MaxRegistro THEN 0 ELSE MaxRegistro
    BY <2>1, GuiAssumption
  <2>3. 1 \in Nat \ {NULO} /\ 1 \in 1..(Len(lay.sub) + 1) /\ AlocInicial \in Nat
    BY <1>1, GuiAssumption DEF NULO
  <2> QED
    BY <1>2, <1>3, <2>1, <2>2, <2>3 DEF ExeTipos
<1>6. PilhaBoa(gui.pilha, rt.formas)
  BY <1>2, <1>3 DEF PilhaBoa, PRINCIPAL
<1>7. Tipos(f)
  BY <1>4, <1>5, <1>6 DEF Tipos
<1>8. Pressao(f)
  BY <1>1, <1>2, <1>3 DEF Pressao
<1>9. Cursor(f) /\ Gemeos(f)
  <2>1. NULO \notin DOMAIN Ctl
    BY <1>1 DEF NULO
  <2> QED
    BY <1>2, <1>3, <2>1 DEF Cursor, Gemeos
<1>10. MemoVivo(f)
  BY <1>2, <1>3, GuiAssumption DEF MemoVivo
<1>11. Inicio(f)
  BY <1>2, <1>3 DEF Inicio
<1>12. Mostrado(f)
  <2>1. TextoVisto(gui, rt) = <<>> /\ Total(<<>>) \in Nat \ {0}
    BY <1>3, TotalIs DEF TextoVisto
  <2> QED
    BY <1>2, <2>1 DEF Mostrado
<1> QED
  BY <1>1, <1>7, <1>8, <1>9, <1>10, <1>11, <1>12 DEF GuInv, Firme

LEMMA GuInvStep == GuInv /\ [GuNext]_guiVars => GuInv'
<1> SUFFICES ASSUME GuInv, [GuNext]_guiVars
             PROVE  GuInv'
  OBVIOUS
<1>1. ASSUME Tecla
      PROVE  GuInv'
  <2>1. PICK k \in {"x", "n", "bs"}, ok \in Realoca : Turno(k, NULO, ok, FALSE)
    BY <1>1 DEF Tecla
  <2>2. k \in Chaves /\ NULO \in Pontos \cup {NULO}
    BY Zenon DEF Chaves
  <2> QED
    BY <2>1, <2>2, TurnoIs, Zenon
<1>2. ASSUME Clique
      PROVE  GuInv'
  <2>1. PICK p \in Pontos, ok \in Realoca, feito \in BOOLEAN : Turno("", p, ok, feito)
    BY <1>2, Zenon DEF Clique
  <2>2. "" \in Chaves /\ p \in Pontos \cup {NULO}
    BY Zenon DEF Chaves
  <2> QED
    BY <2>1, <2>2, TurnoIs, Zenon
<1>3. ASSUME Ocioso
      PROVE  GuInv'
  <2>1. Turno("", NULO, TRUE, FALSE)
    BY <1>3, Zenon DEF Ocioso
  <2>2. "" \in Chaves /\ NULO \in Pontos \cup {NULO}
    BY Zenon DEF Chaves
  <2> QED
    BY <2>1, <2>2, TurnoIs, Zenon
<1>4. ASSUME UNCHANGED guiVars
      PROVE  GuInv'
  <2>1. lay' = lay /\ gui' = gui /\ rt' = rt
    BY <1>4 DEF guiVars
  <2>2. PICK s : s = [g |-> gui', a |-> rt'] /\ lay \in Layouts /\ Firme(s) /\ Inicio(s) /\ Mostrado(s)
    BY <2>1 DEF GuInv
  <2> QED
    BY <2>1, <2>2, InvIs
<1> QED
  BY <1>1, <1>2, <1>3, <1>4, CriaIs, AbreIs, Zenon DEF GuNext

-----------------------------------------------------------------------------
(* What holds at the end of every turn *)

(* Whatever the user clicks and types, the two records of every control, the window  *)
(* stack, what is pressed, the caret and the memo's text stay as GuInv says after     *)
(* each turn of the loop of test.c and tarefa.c.                                      *)
THEOREM GuCorrect == GuSpec => []GuInv
BY GuInvInit, GuInvStep, PTL DEF GuSpec

(* What a check box, a radio button or a combo box shows is what the application      *)
(* reads: gui_handle_mouse and OS_ProcessMouseClick toggle the same twins, although    *)
(* input_events.c and the loop each debounce the button for themselves.               *)
THEOREM TwinsAlwaysAgree == GuSpec => []TwinsAgree
<1>1. GuInv => TwinsAgree
  <2> SUFFICES ASSUME GuInv, NEW c \in Range(rt.registro)
               PROVE  /\ Tipo(c) = "check" => (MarcaPintada(c).marca <=> c \in rt.marcado)
                      /\ Tipo(c) = "radio" => (MarcaPintada(c).marca => c \in rt.marcado)
                      /\ Tipo(c) = "combo" /\ Ctl[c].itens > 0 => ComboPintado(c).texto[1] = rt.item[c] + 1
    BY DEF TwinsAgree
  <2>1. c \in 1..Len(rt.registro)
    <3>1. /\ rt.registro \in Seq(Nat) /\ \A i \in 1..Len(rt.registro) : rt.registro[i] = i
      BY DEF GuInv, Firme, Tipos, ExeTipos
    <3>2. PICK i \in 1..Len(rt.registro) : c = rt.registro[i]
      BY <3>1 DEF Range
    <3> QED
      BY <3>1, <3>2
  <2>2. Gemeos([g |-> gui, a |-> rt])
    BY DEF GuInv, Firme
  <2>3. /\ MarcaPintada(c).marca = (c \in gui.marcado)
        /\ ComboPintado(c).texto = gui.legenda[c]
    BY DEF MarcaPintada, ComboPintado
  <2> QED
    BY <2>1, <2>2, <2>3 DEF Gemeos
<1> QED
  BY <1>1, GuCorrect, PTL

(* When mouse_hold_timer has run out no button of the window is still sunk and no      *)
(* window is held or was dragged: the release the loop makes up (test.c:203-209)       *)
(* reaches what the press reached, for no window covers it meanwhile.                  *)
THEOREM ReleaseIsSeen == GuSpec => []NothingStaysPressed
<1>1. GuInv => NothingStaysPressed
  BY DEF GuInv, Firme, Pressao, NothingStaysPressed, BotaoPintado
<1> QED
  BY <1>1, GuCorrect, PTL

(* The caret is painted only where the keys go: wherever the press leaves              *)
(* g_focused_control, the loop's rule and OS_ProcessMouseClick take ActiveFocus there. *)
THEOREM KeysGoToTheCaret == GuSpec => []CaretWhereKeysGo
<1>1. GuInv => CaretWhereKeysGo
  BY DEF GuInv, Firme, Cursor, CaretWhereKeysGo, MemoPintado, EditPintado, Digita
<1> QED
  BY <1>1, GuCorrect, PTL

(* The memo the library paints is the live buffer, its text fits in it with the       *)
(* terminator, and some of its lines are in view, through every realloc of os_memo.c,  *)
(* its failures too, and every scroll of gui.c:436-490.                               *)
THEOREM MemoStaysSound == GuSpec => []MemoSound
<1>1. GuInv => MemoSound
  BY DEF GuInv, Firme, MemoVivo, Mostrado, MemoSound, MemoTextLive, MemoShowsText
<1> QED
  BY <1>1, GuCorrect, PTL
=============================================================================
