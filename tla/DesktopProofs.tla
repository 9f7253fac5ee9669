--------------------------- MODULE DesktopProofs ---------------------------
(***************************************************************************)
(* Proofs about the desktop: module Ipc, for any number of window slots    *)
(* and of applications, preempted anywhere, and module UserMalloc, for     *)
(* every size of the heap and whatever lengths an application asks for.    *)
(***************************************************************************)
EXTENDS Ipc, UserMalloc, WellFoundedInduction, TLAPS

(***************************************************************************)
(* The explorer and the windows                                            *)
(***************************************************************************)
Aberturas == {"carimba", "laco", "sair", "matar", "espera", "dorme"}
Janelas   == [is_active : BOOLEAN, pid : Apps \cup {0}, buffers : BOOLEAN, has_click : BOOLEAN]
Estados   == [pc : Aberturas \cup {"fora", "morto", "ocupa"}, slot : Slots \cup {SemSlot},
              timer : 0..Segura, alvo : Apps \cup {0}]

(* The types the proofs need; the window stack takes no part in them. *)
Tipos ==
  /\ lista \in [Slots -> Janelas]
  /\ ex = [pc |-> ex.pc, i |-> ex.i, alvo |-> ex.alvo]
  /\ ex.pc \in {"varre", "limpa", "mouse", "clica"}
  /\ ex.i \in Slots
  /\ ex.pc = "limpa" => ex.alvo \in Slots
  /\ app \in [Apps -> Estados]
  /\ \A p \in Apps : Rodando(p) => app[p].slot \in Slots
  /\ corrida \in BOOLEAN

(* An application that has taken its slot and still runs. *)
Dono(p) == app[p].pc \in Aberturas

(* A drag is in the focused window, and none goes on while a click is served. *)
ArrastoInv == DragIsFocused /\ (ex.pc = "clica" => dragging_slot = SemSlot)

(* While nobody met anybody: a slot about to be taken is still free, its owner is  *)
(* alone in it, and as long as the window is open it carries the owner's pid.      *)
JanelaInv ==
  ~corrida =>
    /\ \A p \in Apps : app[p].pc = "ocupa" => ~lista[app[p].slot].is_active
    /\ \A p, q \in Apps : p # q /\ Dono(p) /\ Dono(q) => app[p].slot # app[q].slot
    /\ \A p \in Apps : Dono(p) /\ app[p].pc # "carimba" /\ lista[app[p].slot].is_active
                       => lista[app[p].slot].pid = p /\ lista[app[p].slot].buffers
-----------------------------------------------------------------------------
(* Stores to one window or to one application keep the shape of the rest. *)

LEMMA ListaKeeps ==
  ASSUME lista \in [Slots -> Janelas], NEW s, NEW b \in BOOLEAN
  PROVE  /\ [lista EXCEPT ![s].has_click = b] \in [Slots -> Janelas]
         /\ [lista EXCEPT ![s].is_active = b] \in [Slots -> Janelas]
<1>1. \A w \in Janelas : /\ [w EXCEPT !.has_click = b] \in Janelas
                         /\ [w EXCEPT !.is_active = b] \in Janelas
  BY DEF Janelas
<1>2. CASE s \in Slots
  <2>1. lista[s] \in Janelas
    BY <1>2
  <2> QED
    BY <1>1, <2>1
<1>3. CASE s \notin Slots
  BY <1>3
<1> QED
  BY <1>2, <1>3

(* A click event, stored or cleared, leaves the rest of every window. *)
LEMMA CliqueSo ==
  ASSUME lista \in [Slots -> Janelas], NEW s, NEW b,
         lista' = lista \/ lista' = [lista EXCEPT ![s].has_click = b]
  PROVE  \A r \in Slots : /\ lista'[r].is_active = lista[r].is_active
                          /\ lista'[r].pid = lista[r].pid
                          /\ lista'[r].buffers = lista[r].buffers
BY DEF Janelas

LEMMA PcKeeps ==
  ASSUME app \in [Apps -> Estados], NEW p \in Apps, NEW pc \in Aberturas
  PROVE  [app EXCEPT ![p].pc = pc] \in [Apps -> Estados]
<1>1. [app[p] EXCEPT !.pc = pc] \in Estados
  BY DEF Estados
<1> QED
  BY <1>1

LEMMA SlotKeeps ==
  ASSUME app \in [Apps -> Estados], NEW p \in Apps, NEW s \in Slots
  PROVE  [app EXCEPT ![p].pc = "ocupa", ![p].slot = s] \in [Apps -> Estados]
<1>1. [app[p] EXCEPT !.pc = "ocupa", !.slot = s] \in Estados
  BY DEF Estados
<1> QED
  BY <1>1

LEMMA TimerKeeps ==
  ASSUME app \in [Apps -> Estados], NEW p \in Apps, NEW pc \in Aberturas, NEW t \in 0..Segura
  PROVE  [app EXCEPT ![p].pc = pc, ![p].timer = t] \in [Apps -> Estados]
<1>1. [app[p] EXCEPT !.pc = pc, !.timer = t] \in Estados
  BY DEF Estados
<1> QED
  BY <1>1

LEMMA AlvoKeeps ==
  ASSUME app \in [Apps -> Estados], NEW p \in Apps, NEW q \in Apps
  PROVE  [app EXCEPT ![p].pc = "espera", ![p].alvo = q] \in [Apps -> Estados]
<1>1. [app[p] EXCEPT !.pc = "espera", !.alvo = q] \in Estados
  BY DEF Estados, Aberturas
<1> QED
  BY <1>1

-----------------------------------------------------------------------------
(* Where the sweep goes on. *)
LEMMA AdianteIs ==
  ASSUME Tipos
  PROVE  /\ Adiante = [pc |-> Adiante.pc, i |-> Adiante.i, alvo |-> ex.alvo]
         /\ Adiante.pc \in {"varre", "mouse"}
         /\ Adiante.i \in Slots
<1>1. CASE ex.i + 1 \in Slots
  BY <1>1 DEF Tipos, Adiante
<1>2. CASE ex.i + 1 \notin Slots
  BY <1>2, IpcAssumption DEF Tipos, Adiante
<1> QED
  BY <1>1, <1>2
-----------------------------------------------------------------------------
(* Types *)

LEMMA TiposInit == IpInit => Tipos
<1> SUFFICES ASSUME IpInit
             PROVE  Tipos
  OBVIOUS
<1>1. Vazio_ \in Janelas /\ Parado_ \in Estados
  BY IpcAssumption DEF Vazio_, Parado_, Janelas, Estados
<1>2. \A p \in Apps : ~Rodando(p)
  BY DEF IpInit, Rodando, Parado_
<1> QED
  BY <1>1, <1>2, IpcAssumption DEF IpInit, Tipos

LEMMA TiposExplorer == Tipos /\ Explorer => Tipos'
<1> SUFFICES ASSUME Tipos, Explorer
             PROVE  Tipos'
  OBVIOUS
<1> USE DEF Tipos
<1>1. CASE Varre
  BY <1>1, AdianteIs DEF Varre, Rodando
<1>2. CASE Limpa
  <2>1. /\ ex' = [pc |-> ex'.pc, i |-> ex'.i, alvo |-> ex'.alvo]
        /\ ex'.pc \in {"varre", "mouse"} /\ ex'.i \in Slots
    BY <1>2, AdianteIs DEF Limpa
  <2>2. ex.alvo \in Slots /\ lista[ex.alvo] \in Janelas
    BY <1>2 DEF Limpa
  <2>3. lista' \in [Slots -> Janelas]
    BY <1>2, <2>2 DEF Limpa, Janelas
  <2>4. corrida' \in BOOLEAN
    BY <1>2, <2>2 DEF Limpa, Janelas
  <2> QED
    BY <1>2, <2>1, <2>3, <2>4 DEF Limpa, Rodando
<1>3. CASE Mouse_
  <2>1. /\ ex' = [pc |-> ex'.pc, i |-> ex'.i, alvo |-> ex'.alvo]
        /\ ex'.pc \in {"varre", "clica"} /\ ex'.i \in Slots
    BY <1>3 DEF Mouse_
  <2> QED
    BY <1>3, <2>1 DEF Mouse_, Rodando
<1>4. CASE Clica
  <2>1. lista' = lista \/ lista' = [lista EXCEPT ![ex.alvo].has_click = TRUE]
    BY <1>4 DEF Clica
  <2>2. [lista EXCEPT ![ex.alvo].has_click = TRUE] \in [Slots -> Janelas]
    BY ListaKeeps, Zenon
  <2> QED
    BY <1>4, <2>1, <2>2 DEF Clica, Rodando
<1> QED
  BY <1>1, <1>2, <1>3, <1>4 DEF Explorer

LEMMA MortoIs == Morto \in Estados /\ Morto.pc = "morto"
BY IpcAssumption DEF Morto, Parado_, Estados

LEMMA VaiKeeps ==
  ASSUME Tipos, NEW p \in Apps, Rodando(p), NEW onde \in Aberturas, Vai_(p, onde)
  PROVE  app' \in [Apps -> Estados] /\ \A q \in Apps : Rodando(q)' => app'[q].slot \in Slots
<1>1. app[p] \in Estados /\ app[p].slot \in Slots
  BY DEF Tipos
<1>2. app' = [app EXCEPT ![p].pc = onde]
  BY DEF Vai_
<1>3. app' \in [Apps -> Estados]
  <2>1. app \in [Apps -> Estados]
    BY DEF Tipos
  <2>2. [app EXCEPT ![p].pc = onde] \in [Apps -> Estados]
    BY <2>1, PcKeeps, Zenon
  <2> QED
    BY <1>2, <2>2
<1>4. \A q \in Apps : Rodando(q)' => app'[q].slot \in Slots
  BY <1>1, <1>2 DEF Tipos, Rodando, Estados
<1> QED
  BY <1>3, <1>4

(* A turn of the loop moves its program counter and its timer. *)
LEMMA LacoIs ==
  ASSUME Tipos, NEW p \in Apps, Laco(p)
  PROVE  \E faz \in {"laco", "sair", "matar"}, t \in 0..Segura :
           app' = [app EXCEPT ![p].pc = faz, ![p].timer = t]
<1>1. app[p].timer \in 0..Segura
  BY DEF Tipos, Estados
<1>2. \A t \in 0..Segura : t > 0 => t - 1 \in 0..Segura
  BY IpcAssumption
<1>3. Segura \in 0..Segura
  BY IpcAssumption
<1> QED
  BY <1>1, <1>2, <1>3 DEF Laco

(* The KILL button closes a window or none. *)
LEMMA CondenaIs ==
  ASSUME NEW p \in Apps, Condena(p)
  PROVE  \E s : lista' = lista \/ lista' = [lista EXCEPT ![s].is_active = FALSE]
BY DEF Condena

(* The killer goes back to its loop, the target is dead. *)
LEMMA MataIs ==
  ASSUME Tipos, NEW p \in Apps, Mata(p)
  PROVE  /\ app' \in [Apps -> Estados]
         /\ \A r \in Apps : Rodando(r)' => app'[r].slot \in Slots
         /\ \A r \in Apps : Rodando(r)' => Rodando(r) /\ app'[r].slot = app[r].slot
         /\ \A r \in Apps : r # p /\ Rodando(r)' => app'[r].pc = app[r].pc
<1> DEFINE a == app[p].alvo
           v == [app[p] EXCEPT !.pc = "laco", !.alvo = 0]
<1>1. /\ app \in [Apps -> Estados] /\ app[p] \in Estados
      /\ app[p].pc = "espera" /\ Rodando(p)
  BY DEF Tipos, Mata, Rodando
<1>2. v \in Estados /\ v.pc = "laco" /\ v.slot = app[p].slot
  BY <1>1 DEF Estados, Aberturas
<1>3. \A r \in Apps :
        \/ app'[r] = Morto
        \/ r = p /\ app'[r] = v
        \/ r # p /\ app'[r] = app[r]
  <2> DEFINE m == [app EXCEPT ![p] = v]
  <2>1. app' = [m EXCEPT ![a] = IF Rodando(a) THEN Morto ELSE m[a]]
    BY <1>1 DEF Mata
  <2>2. \A r \in Apps : r # a => app'[r] = m[r]
    BY <1>1, <2>1
  <2>3. a \in Apps => app'[a] \in {Morto, m[a]}
    BY <1>1, <2>1
  <2>4. m[p] = v /\ \A r \in Apps : r # p => m[r] = app[r]
    BY <1>1
  <2> HIDE DEF m, a, v
  <2> QED
    BY <2>2, <2>3, <2>4
<1>4. app' \in [Apps -> Estados]
  <2>1. \A r \in Apps : app'[r] \in Estados
    BY <1>1, <1>2, <1>3, MortoIs
  <2>2. app' = [r \in Apps |-> app'[r]]
    BY <1>1 DEF Mata
  <2> QED
    BY <2>1, <2>2
<1>5. \A r \in Apps : Rodando(r)' =>
        /\ Rodando(r) /\ app'[r].slot = app[r].slot
        /\ r # p => app'[r].pc = app[r].pc
  <2> HIDE DEF v
  <2> QED
    BY <1>1, <1>2, <1>3, MortoIs DEF Rodando
<1>6. \A r \in Apps : Rodando(r) => app[r].slot \in Slots
  BY DEF Tipos
<1> HIDE DEF v, a
<1> QED
  BY <1>4, <1>5, <1>6

LEMMA TiposAplicacao == ASSUME Tipos, NEW p \in Apps, Aplicacao(p) PROVE Tipos'
<1> USE DEF Tipos
<1>0. app[p] \in Estados
  OBVIOUS
<1>9. /\ {"carimba", "laco", "sair", "matar", "espera", "dorme"} \subseteq Aberturas
      /\ app[p].pc \in {"ocupa"} \cup Aberturas => Rodando(p)
  BY DEF Aberturas, Rodando
<1>1. CASE Procura(p)
  <2>1. CASE app' = [app EXCEPT ![p] = Morto]
    BY <1>1, <2>1, MortoIs DEF Procura, Rodando
  <2>2. ASSUME NEW s \in Slots, app' = [app EXCEPT ![p].pc = "ocupa", ![p].slot = s]
        PROVE  Tipos'
    <3>1. app' \in [Apps -> Estados]
      <4>1. [app EXCEPT ![p].pc = "ocupa", ![p].slot = s] \in [Apps -> Estados]
        BY SlotKeeps, Zenon
      <4> QED
        BY <2>2, <4>1
    <3>2. \A q \in Apps : Rodando(q)' => app'[q].slot \in Slots
      BY <2>2 DEF Rodando, Estados
    <3> QED
      BY <1>1, <3>1, <3>2 DEF Procura
  <2> QED
    BY <1>1, <2>1, <2>2 DEF Procura
<1>2. CASE Ocupa_(p)
  <2>1. app[p].slot \in Slots
    BY <1>2 DEF Ocupa_, Rodando
  <2>2. lista' \in [Slots -> Janelas] /\ corrida' \in BOOLEAN
    BY <1>2, <2>1 DEF Ocupa_, Janelas
  <2> QED
    BY <1>2, <2>2, <1>9, VaiKeeps DEF Ocupa_
<1>3. CASE Carimba(p)
  <2> DEFINE s == app[p].slot
             w == [lista[s] EXCEPT !.buffers = TRUE, !.has_click = FALSE, !.pid = p]
  <2>1. lista' \in [Slots -> Janelas]
    <3>1. s \in Slots /\ lista[s] \in Janelas
      BY <1>3 DEF Carimba, Rodando
    <3>2. w \in Janelas
      BY <3>1 DEF Janelas
    <3>3. lista' = [lista EXCEPT ![s] = w]
      BY <1>3 DEF Carimba
    <3> HIDE DEF w
    <3> QED
      BY <3>2, <3>3
  <2> QED
    BY <1>3, <2>1, <1>9, VaiKeeps DEF Carimba
<1>4. CASE Laco(p)
  <2>1. lista' \in [Slots -> Janelas]
    <3>1. lista' = lista \/ lista' = [lista EXCEPT ![app[p].slot].has_click = FALSE]
      BY <1>4 DEF Laco
    <3>2. [lista EXCEPT ![app[p].slot].has_click = FALSE] \in [Slots -> Janelas]
      BY ListaKeeps, Zenon
    <3> QED
      BY <3>1, <3>2
  <2>2. PICK faz \in {"laco", "sair", "matar"}, t \in 0..Segura :
          app' = [app EXCEPT ![p].pc = faz, ![p].timer = t]
    BY <1>0, <1>4, LacoIs
  <2>3. app' \in [Apps -> Estados]
    <3>1. [app EXCEPT ![p].pc = faz, ![p].timer = t] \in [Apps -> Estados]
      BY <1>9, TimerKeeps
    <3> QED
      BY <2>2, <3>1
  <2>4. \A q \in Apps : Rodando(q)' => app'[q].slot \in Slots
    BY <1>4, <2>2 DEF Laco, Rodando, Estados
  <2> QED
    BY <1>4, <2>1, <2>3, <2>4 DEF Laco
<1>5. CASE Fecha_(p)
  <2>1. lista' \in [Slots -> Janelas]
    BY <1>5, ListaKeeps DEF Fecha_
  <2> QED
    BY <1>5, <2>1, <1>9, VaiKeeps DEF Fecha_
<1>6. CASE Sai(p)
  BY <1>6, MortoIs DEF Sai, Rodando
<1>7. CASE Condena(p)
  <2>1. PICK q \in Apps : app' = [app EXCEPT ![p].pc = "espera", ![p].alvo = q]
    BY <1>7 DEF Condena
  <2>2. PICK s : lista' = lista \/ lista' = [lista EXCEPT ![s].is_active = FALSE]
    BY <1>7, CondenaIs
  <2>3. lista' \in [Slots -> Janelas]
    <3>1. [lista EXCEPT ![s].is_active = FALSE] \in [Slots -> Janelas]
      BY ListaKeeps, Zenon
    <3> QED
      BY <2>2, <3>1
  <2>4. app' \in [Apps -> Estados]
    <3>1. [app EXCEPT ![p].pc = "espera", ![p].alvo = q] \in [Apps -> Estados]
      BY AlvoKeeps, Zenon
    <3> QED
      BY <2>1, <3>1
  <2>5. \A r \in Apps : Rodando(r)' => app'[r].slot \in Slots
    BY <1>7, <2>1 DEF Condena, Rodando, Estados
  <2> QED
    BY <1>7, <2>3, <2>4, <2>5 DEF Condena
<1>8. CASE Mata(p)
  <2>1. app' \in [Apps -> Estados] /\ \A r \in Apps : Rodando(r)' => app'[r].slot \in Slots
    BY <1>8, MataIs
  <2> QED
    BY <1>8, <2>1 DEF Mata
<1> QED
  BY <1>1, <1>2, <1>3, <1>4, <1>5, <1>6, <1>7, <1>8 DEF Aplicacao
-----------------------------------------------------------------------------
(* The drag *)

LEMMA ArrastoInit == IpInit => ArrastoInv
BY DEF IpInit, ArrastoInv, DragIsFocused

LEMMA ArrastoStep == Tipos /\ ArrastoInv /\ [IpNext]_ipVars => ArrastoInv'
<1> SUFFICES ASSUME Tipos, ArrastoInv, [IpNext]_ipVars
             PROVE  ArrastoInv'
  OBVIOUS
<1> USE DEF ArrastoInv, DragIsFocused
<1>1. CASE Varre
  BY <1>1, AdianteIs DEF Varre, Tipos
<1>2. CASE Limpa
  <2>1. ex'.pc \in {"varre", "mouse"}
    BY <1>2, AdianteIs DEF Limpa
  <2> QED
    BY <1>2, <2>1 DEF Limpa, SoltaArrasto
<1>3. CASE Mouse_
  <2>1. CASE dragging_slot' = SemSlot
    BY <1>3, <2>1 DEF Mouse_
  <2>2. CASE dragging_slot # SemSlot /\ ex' = [ex EXCEPT !.pc = "varre"] /\ UNCHANGED dragging_slot
    BY <1>3, <2>2 DEF Mouse_, Tipos
  <2> QED
    BY <1>3, <2>1, <2>2 DEF Mouse_
<1>4. CASE Clica
  BY <1>4 DEF Clica, Tipos
<1>5. ASSUME NEW p \in Apps, Aplicacao(p)
      PROVE  ArrastoInv'
  <2>1. UNCHANGED <<foco_slot, dragging_slot, ex>>
    BY <1>5 DEF Aplicacao, Procura, Ocupa_, Carimba, Laco, Fecha_, Sai, Condena, Mata
  <2> QED
    BY <2>1
<1>6. CASE UNCHANGED ipVars
  BY <1>6 DEF ipVars
<1> QED
  BY <1>1, <1>2, <1>3, <1>4, <1>5, <1>6 DEF IpNext, Explorer
-----------------------------------------------------------------------------
(* The windows *)

LEMMA JanelaInit == IpInit => JanelaInv
BY DEF IpInit, JanelaInv, Dono, Aberturas, Parado_

(* What a step may do to a slot without touching the invariant: the applications *)
(* stay, and no window is opened, changes its owner or loses its buffers.        *)
LEMMA JanelaQuieta ==
  ASSUME JanelaInv, UNCHANGED <<app, corrida>>,
         \A s \in Slots : lista'[s].is_active
           => /\ lista[s].is_active
              /\ lista'[s].pid = lista[s].pid /\ lista'[s].buffers = lista[s].buffers,
         \A p \in Apps : Rodando(p) => app[p].slot \in Slots
  PROVE  JanelaInv'
<1>1. \A p \in Apps : app[p].pc = "ocupa" \/ Dono(p) => Rodando(p)
  BY DEF Dono, Aberturas, Rodando
<1> QED
  BY <1>1 DEF JanelaInv, Dono

LEMMA JanelaExplorer == Tipos /\ JanelaInv /\ Explorer => JanelaInv'
<1> SUFFICES ASSUME Tipos, JanelaInv, Explorer
             PROVE  JanelaInv'
  OBVIOUS
<1>0. \A p \in Apps : Rodando(p) => app[p].slot \in Slots
  BY DEF Tipos
<1>1. CASE Varre
  BY <1>0, <1>1, JanelaQuieta DEF Varre
<1>2. CASE Limpa
  <2>1. CASE corrida'
    BY <2>1 DEF JanelaInv
  <2>2. CASE ~corrida'
    <3>1. UNCHANGED <<app, corrida>> /\ ~lista[ex.alvo].is_active
      BY <1>2, <2>2 DEF Limpa, Tipos
    <3>2. \A s \in Slots : s # ex.alvo => lista'[s] = lista[s]
      BY <1>2 DEF Limpa, Tipos
    <3>3. \A s \in Slots : lista'[s].is_active = lista[s].is_active
      <4>1. ex.alvo \in Slots /\ lista[ex.alvo] \in Janelas /\ lista \in [Slots -> Janelas]
        BY <1>2 DEF Limpa, Tipos
      <4> QED
        BY <1>2, <4>1 DEF Limpa, Janelas
    <3> QED
      BY <1>0, <3>1, <3>2, <3>3, JanelaQuieta
  <2> QED
    BY <2>1, <2>2
<1>3. CASE Mouse_
  BY <1>0, <1>3, JanelaQuieta DEF Mouse_
<1>4. CASE Clica
  <2>1. \A s \in Slots : /\ lista'[s].is_active = lista[s].is_active
                         /\ lista'[s].pid = lista[s].pid
                         /\ lista'[s].buffers = lista[s].buffers
    BY <1>4, CliqueSo DEF Clica, Tipos
  <2> QED
    BY <1>0, <1>4, <2>1, JanelaQuieta DEF Clica
<1> QED
  BY <1>1, <1>2, <1>3, <1>4 DEF Explorer
-----------------------------------------------------------------------------
(* A step of an application that is past its registration: it may close windows,  *)
(* end or end others, and move on in its own loop.                               *)
LEMMA JanelaSegue ==
  ASSUME Tipos, JanelaInv, corrida' = corrida, NEW p \in Apps,
         app[p].pc \in {"laco", "sair", "matar", "espera", "dorme"}, app'[p].pc # "ocupa",
         \A s \in Slots : lista'[s].is_active
           => /\ lista[s].is_active
              /\ lista'[s].pid = lista[s].pid /\ lista'[s].buffers = lista[s].buffers,
         \A r \in Apps : Rodando(r)' => Rodando(r) /\ app'[r].slot = app[r].slot,
         \A r \in Apps : r # p /\ Rodando(r)' => app'[r].pc = app[r].pc
  PROVE  JanelaInv'
<1> SUFFICES ASSUME ~corrida
             PROVE  JanelaInv'
  BY DEF JanelaInv
<1>1. /\ \A r \in Apps : app'[r].pc = "ocupa" \/ Dono(r)' => Rodando(r)'
      /\ \A r \in Apps : Rodando(r) => app[r].slot \in Slots
  BY DEF Dono, Aberturas, Rodando, Tipos
<1>2. \A r \in Apps : app'[r].pc = "ocupa" => app[r].pc = "ocupa" /\ app'[r].slot = app[r].slot
  BY <1>1
<1>3. \A r \in Apps : Dono(r)' => Dono(r) /\ app'[r].slot = app[r].slot
  BY <1>1 DEF Dono, Aberturas
<1>4. \A r \in Apps : Dono(r)' /\ app'[r].pc # "carimba" => app[r].pc # "carimba"
  BY <1>1 DEF Dono, Aberturas
<1>5. \A r \in Apps : app'[r].pc = "ocupa" => ~lista'[app'[r].slot].is_active
  BY <1>1, <1>2 DEF JanelaInv
<1>6. \A q, r \in Apps : q # r /\ Dono(q)' /\ Dono(r)' => app'[q].slot # app'[r].slot
  BY <1>3 DEF JanelaInv
<1>7. \A r \in Apps : Dono(r)' /\ app'[r].pc # "carimba" /\ lista'[app'[r].slot].is_active
                     => lista'[app'[r].slot].pid = r /\ lista'[app'[r].slot].buffers
  BY <1>1, <1>3, <1>4 DEF JanelaInv
<1> QED
  BY <1>5, <1>6, <1>7 DEF JanelaInv

LEMMA JanelaProcura ==
  ASSUME Tipos, JanelaInv, NEW p \in Apps, Procura(p)
  PROVE  JanelaInv'
<1> SUFFICES ASSUME ~corrida
             PROVE  JanelaInv'
  BY DEF JanelaInv, Procura
<1>0. UNCHANGED <<lista, corrida>> /\ app \in [Apps -> Estados] /\ app[p] \in Estados
  BY DEF Procura, Tipos
<1>1. \A r \in Apps : r # p => app'[r] = app[r]
  BY <1>0 DEF Procura
<1>2. ~Dono(p)'
  <2>1. app'[p].pc \in {"morto", "ocupa"}
    BY <1>0, MortoIs DEF Procura, Estados
  <2> QED
    BY <2>1 DEF Dono, Aberturas
<1>3. app'[p].pc = "ocupa" => ~lista[app'[p].slot].is_active
  BY <1>0, MortoIs DEF Procura, Livre_, Estados
<1> QED
  BY <1>0, <1>1, <1>2, <1>3 DEF JanelaInv, Dono

LEMMA JanelaOcupa ==
  ASSUME Tipos, JanelaInv, NEW p \in Apps, Ocupa_(p)
  PROVE  JanelaInv'
<1> DEFINE s == app[p].slot
<1> SUFFICES ASSUME ~corrida'
             PROVE  JanelaInv'
  BY DEF JanelaInv
<1>0. /\ app \in [Apps -> Estados] /\ app[p] \in Estados /\ lista \in [Slots -> Janelas]
      /\ app[p].pc = "ocupa"
  BY DEF Ocupa_, Tipos
<1>1. ~corrida /\ ~lista[s].is_active
  BY <1>0 DEF Ocupa_, JanelaInv, Tipos
<1>2. \A q \in Apps \ {p} : Rodando(q) => app[q].slot # s
  BY <1>1 DEF Ocupa_
<1>3. /\ app'[p].pc = "carimba" /\ app'[p].slot = s
      /\ \A q \in Apps \ {p} : app'[q] = app[q]
  BY <1>0 DEF Ocupa_, Vai_, Estados
<1>4. \A q \in Apps \ {p} : Rodando(q) => lista'[app[q].slot] = lista[app[q].slot]
  <2>1. \A r \in Slots : r # s => lista'[r] = lista[r]
    BY <1>0 DEF Ocupa_
  <2>2. \A q \in Apps : Rodando(q) => app[q].slot \in Slots
    BY DEF Tipos
  <2> QED
    BY <1>2, <2>1, <2>2
<1>5. \A q \in Apps : app[q].pc = "ocupa" \/ Dono(q) => Rodando(q)
  BY DEF Dono, Aberturas, Rodando
<1>6. \A q \in Apps \ {p} : Dono(q)' <=> Dono(q)
  BY <1>3 DEF Dono
<1>7. \A q \in Apps : app'[q].pc = "ocupa" => ~lista'[app'[q].slot].is_active
  BY <1>1, <1>3, <1>4, <1>5 DEF JanelaInv
<1>8. \A q, r \in Apps : q # r /\ Dono(q)' /\ Dono(r)' => app'[q].slot # app'[r].slot
  BY <1>1, <1>2, <1>3, <1>5, <1>6 DEF JanelaInv
<1>9. \A q \in Apps : Dono(q)' /\ app'[q].pc # "carimba" /\ lista'[app'[q].slot].is_active
                     => lista'[app'[q].slot].pid = q /\ lista'[app'[q].slot].buffers
  BY <1>1, <1>3, <1>4, <1>5, <1>6 DEF JanelaInv
<1> QED
  BY <1>7, <1>8, <1>9 DEF JanelaInv

LEMMA JanelaCarimba ==
  ASSUME Tipos, JanelaInv, NEW p \in Apps, Carimba(p)
  PROVE  JanelaInv'
<1> DEFINE s == app[p].slot
<1> SUFFICES ASSUME ~corrida
             PROVE  JanelaInv'
  BY DEF JanelaInv, Carimba
<1>0. /\ app \in [Apps -> Estados] /\ app[p] \in Estados /\ lista \in [Slots -> Janelas]
      /\ app[p].pc = "carimba"
  BY DEF Carimba, Tipos
<1>1. s \in Slots /\ lista[s] \in Janelas
  BY <1>0 DEF Tipos, Rodando
<1>2. /\ app'[p].pc = "laco" /\ app'[p].slot = s
      /\ \A q \in Apps \ {p} : app'[q] = app[q]
  BY <1>0 DEF Carimba, Vai_, Estados
<1>3. /\ \A r \in Slots : r # s => lista'[r] = lista[r]
      /\ lista'[s].is_active = lista[s].is_active
      /\ lista'[s].pid = p /\ lista'[s].buffers
  BY <1>0, <1>1 DEF Carimba, Janelas
<1>4. Dono(p) /\ \A q \in Apps : Dono(q)' <=> Dono(q)
  BY <1>0, <1>2 DEF Dono, Aberturas
<1>5. \A q \in Apps : app[q].pc = "ocupa" \/ Dono(q) => app[q].slot \in Slots
  BY DEF Dono, Aberturas, Rodando, Tipos
<1>6. \A q \in Apps : app'[q].pc = "ocupa" => ~lista'[app'[q].slot].is_active
  BY <1>2, <1>3, <1>5 DEF JanelaInv
<1>7. \A q, r \in Apps : q # r /\ Dono(q)' /\ Dono(r)' => app'[q].slot # app'[r].slot
  BY <1>2, <1>4 DEF JanelaInv
<1>8. \A q \in Apps : Dono(q)' /\ app'[q].pc # "carimba" /\ lista'[app'[q].slot].is_active
                     => lista'[app'[q].slot].pid = q /\ lista'[app'[q].slot].buffers
  BY <1>2, <1>3, <1>4, <1>5 DEF JanelaInv
<1> QED
  BY <1>6, <1>7, <1>8, Zenon DEF JanelaInv, Carimba

LEMMA JanelaStep == Tipos /\ JanelaInv /\ [IpNext]_ipVars => JanelaInv'
<1> SUFFICES ASSUME Tipos, JanelaInv, [IpNext]_ipVars
             PROVE  JanelaInv'
  OBVIOUS
<1>1. ASSUME NEW p \in Apps, Aplicacao(p)
      PROVE  JanelaInv'
  <2>0. app \in [Apps -> Estados] /\ app[p] \in Estados /\ lista \in [Slots -> Janelas]
    BY DEF Tipos
  <2>1. CASE Laco(p)
    <3>1. PICK faz \in {"laco", "sair", "matar"}, t \in 0..Segura :
            app' = [app EXCEPT ![p].pc = faz, ![p].timer = t]
      BY <2>1, LacoIs
    <3>2. \A s \in Slots : /\ lista'[s].is_active = lista[s].is_active
                           /\ lista'[s].pid = lista[s].pid
                           /\ lista'[s].buffers = lista[s].buffers
      BY <2>0, <2>1, CliqueSo DEF Laco
    <3>3. /\ app'[p].pc = faz /\ app'[p].slot = app[p].slot
          /\ \A r \in Apps : r # p => app'[r] = app[r]
      BY <2>0, <3>1 DEF Estados
    <3> QED
      BY <2>1, <3>2, <3>3, JanelaSegue DEF Laco, Rodando
  <2>2. CASE Fecha_(p)
    <3>1. \A s \in Slots : lista'[s].is_active
            => /\ lista[s].is_active
               /\ lista'[s].pid = lista[s].pid /\ lista'[s].buffers = lista[s].buffers
      BY <2>0, <2>2 DEF Fecha_, Janelas
    <3>2. /\ app'[p].pc = "dorme" /\ app'[p].slot = app[p].slot
          /\ \A r \in Apps : r # p => app'[r] = app[r]
      BY <2>0, <2>2 DEF Fecha_, Vai_, Estados
    <3> QED
      BY <2>2, <3>1, <3>2, JanelaSegue DEF Fecha_, Rodando
  <2>3. CASE Sai(p)
    BY <2>0, <2>3, MortoIs, JanelaSegue DEF Sai, Rodando
  <2>4. CASE Condena(p)
    <3>1. PICK q \in Apps : app' = [app EXCEPT ![p].pc = "espera", ![p].alvo = q]
      BY <2>4 DEF Condena
    <3>2. PICK f : lista' = lista \/ lista' = [lista EXCEPT ![f].is_active = FALSE]
      BY <2>4, CondenaIs
    <3>3. \A s \in Slots : lista'[s].is_active
            => /\ lista[s].is_active
               /\ lista'[s].pid = lista[s].pid /\ lista'[s].buffers = lista[s].buffers
      BY <2>0, <3>2 DEF Janelas
    <3>4. /\ app'[p].pc = "espera" /\ app'[p].slot = app[p].slot
          /\ \A r \in Apps : r # p => app'[r] = app[r]
      BY <2>0, <3>1 DEF Estados
    <3> QED
      BY <2>4, <3>3, <3>4, JanelaSegue DEF Condena, Rodando
  <2>5. CASE Mata(p)
    <3>1. /\ \A r \in Apps : Rodando(r)' => Rodando(r) /\ app'[r].slot = app[r].slot
          /\ \A r \in Apps : r # p /\ Rodando(r)' => app'[r].pc = app[r].pc
      BY <2>5, MataIs
    <3>2. app'[p].pc # "ocupa"
      BY <2>0, <2>5, MortoIs DEF Mata, Estados
    <3> QED
      BY <2>5, <3>1, <3>2, JanelaSegue DEF Mata
  <2> QED
    BY <1>1, <2>1, <2>2, <2>3, <2>4, <2>5, JanelaProcura, JanelaOcupa, JanelaCarimba DEF Aplicacao
<1>2. CASE UNCHANGED ipVars
  BY <1>2 DEF ipVars, JanelaInv, Dono
<1> QED
  BY <1>1, <1>2, JanelaExplorer DEF IpNext
-----------------------------------------------------------------------------
(* The results *)

LEMMA TiposSempre == IpSpec => []Tipos
<1>1. Tipos /\ UNCHANGED ipVars => Tipos'
  BY DEF Tipos, ipVars, Rodando
<1>2. Tipos /\ [IpNext]_ipVars => Tipos'
  BY <1>1, TiposExplorer, TiposAplicacao DEF IpNext
<1> QED
  BY TiposInit, <1>2, PTL DEF IpSpec

(* No window is dragged but the one that has the focus, however the explorer, the *)
(* exits and the kills of the applications interleave.                           *)
THEOREM DragIsInFocus == IpSpec => []DragIsFocused
<1>1. ArrastoInv => DragIsFocused
  BY DEF ArrastoInv
<1> QED
  BY TiposSempre, ArrastoInit, ArrastoStep, <1>1, PTL DEF IpSpec

(* As long as nobody met anybody in a slot, an open window is drawn and read by   *)
(* the application whose pid it carries and by no other.                         *)
THEOREM WindowIsItsOwners == IpSpec => []OwnWindow
<1>1. Tipos /\ JanelaInv => OwnWindow
  <2> SUFFICES ASSUME Tipos, JanelaInv, ~corrida,
                      NEW p \in Apps,
                      app[p].pc \in {"laco", "sair", "matar", "espera"},
                      lista[app[p].slot].is_active
               PROVE  /\ lista[app[p].slot].pid = p /\ lista[app[p].slot].buffers
                      /\ \A q \in Apps \ {p} :
                           Rodando(q) /\ app[q].pc \notin {"ocupa"} => app[q].slot # app[p].slot
    BY DEF OwnWindow
  <2>1. \A q \in Apps : Rodando(q) /\ app[q].pc \notin {"ocupa"} => Dono(q)
    <3> SUFFICES ASSUME NEW q \in Apps, Rodando(q), app[q].pc \notin {"ocupa"}
                 PROVE  Dono(q)
      OBVIOUS
    <3>1. app[q] \in Estados
      BY DEF Tipos
    <3> QED
      BY <3>1 DEF Estados, Rodando, Dono
  <2>2. Dono(p) /\ app[p].pc # "carimba"
    BY DEF Dono, Aberturas
  <2> QED
    BY <2>1, <2>2 DEF JanelaInv
<1> QED
  BY TiposSempre, JanelaInit, JanelaStep, <1>1, PTL DEF IpSpec

-----------------------------------------------------------------------------
(***************************************************************************)
(* The heap of an application                                              *)
(***************************************************************************)
(* The headers and the list's two ends are of the right types. *)
Cabecalhos == [size : Nat, is_free : BOOLEAN, next : {0} \cup Unidades, prev : {0} \cup Unidades]
Listas == [b : [Unidades -> Cabecalhos], heap_start : {0} \cup Unidades,
           heap_end : {0} \cup Unidades]

(* Where the block at a ends. *)
FimDe(g, a) == a + HEADER + g.b[a].size

Seguinte(g, topo, x) ==
  \/ /\ x # g.heap_end
     /\ g.b[x].next = FimDe(g, x) /\ g.b[x].next \in Blocos(g) /\ g.b[g.b[x].next].prev = x
  \/ x = g.heap_end /\ g.b[x].next = 0 /\ FimDe(g, x) = topo

Anterior(g, x) ==
  \/ x = g.heap_start /\ g.b[x].prev = 0
  \/ x # g.heap_start /\ g.b[x].prev \in Blocos(g) /\ g.b[g.b[x].prev].next = x

(* What every function of malloc.c expects of list g, which ends at topo, and leaves behind. *)
Inteira(g, topo) ==
  /\ g \in Listas
  /\ \A x \in Blocos(g) : FimDe(g, x) <= topo
  /\ \A x, y \in Blocos(g) : x < y => FimDe(g, x) <= y
  /\ \A x \in Blocos(g) : Seguinte(g, topo, x)
  /\ \A x \in Blocos(g) : Anterior(g, x)
  /\ Blocos(g) # {} => g.heap_start = CHUNK /\ CHUNK \in Blocos(g) /\ g.heap_end \in Blocos(g)
  /\ Blocos(g) = {} => g.heap_start = 0 /\ g.heap_end = 0 /\ topo = CHUNK

(* g and k differ, of the blocks in use, in none but those of S. *)
Poupa(g, k, S) ==
  \A y \in Blocos(g) \ S :
    /\ y \in Blocos(k)
    /\ k.b[y].size = g.b[y].size /\ k.b[y].is_free = g.b[y].is_free

LEMMA UnitsAre ==
  /\ CHUNK \in Nat /\ CHUNK > 4 /\ MaxPaginas \in Nat
  /\ Limite \in Nat /\ CHUNK <= Limite
  /\ Unidades \subseteq Nat /\ 0 \notin Unidades
  /\ \A u \in Nat : u \in Unidades <=> CHUNK <= u /\ u < Limite
<1>1. CHUNK \in Nat /\ CHUNK > 4 /\ MaxPaginas \in Nat
  BY ChunkAssumption, PedidosAssumption DEF HEADER, MIN_SPLIT
<1>2. Limite \in Nat /\ CHUNK <= Limite
  BY <1>1 DEF Limite
<1> QED BY <1>1, <1>2 DEF Unidades

LEMMA HeaderTypes ==
  ASSUME NEW g \in Listas, NEW x \in Unidades
  PROVE  /\ g.b[x] \in Cabecalhos
         /\ g.b[x].size \in Nat /\ g.b[x].is_free \in BOOLEAN
         /\ g.b[x].next \in {0} \cup Unidades /\ g.b[x].prev \in {0} \cup Unidades
         /\ g.b[x] = [size |-> g.b[x].size, is_free |-> g.b[x].is_free,
                      next |-> g.b[x].next, prev |-> g.b[x].prev]
<1>1. g.b[x] \in Cabecalhos
  BY DEF Listas
<1> QED BY <1>1 DEF Cabecalhos

LEMMA ListTypes ==
  ASSUME NEW g \in Listas
  PROVE  /\ g.b \in [Unidades -> Cabecalhos]
         /\ g.heap_start \in {0} \cup Unidades /\ g.heap_end \in {0} \cup Unidades
         /\ g = [b |-> g.b, heap_start |-> g.heap_start, heap_end |-> g.heap_end]
BY DEF Listas

(* Building a list from its parts. *)
LEMMA ListFrom ==
  ASSUME NEW g, g = [b |-> g.b, heap_start |-> g.heap_start, heap_end |-> g.heap_end],
         g.b = [x \in Unidades |-> g.b[x]],
         \A x \in Unidades : g.b[x] \in Cabecalhos,
         g.heap_start \in {0} \cup Unidades, g.heap_end \in {0} \cup Unidades
  PROVE  g \in Listas
<1>1. g.b \in [Unidades -> Cabecalhos]
  OBVIOUS
<1> QED BY <1>1 DEF Listas

LEMMA BlockAre ==
  ASSUME NEW g \in Listas, NEW a \in Blocos(g)
  PROVE  /\ a \in Unidades /\ a \in Nat /\ a >= CHUNK /\ a # 0
         /\ g.b[a].size \in Nat /\ g.b[a].size > 0
         /\ FimDe(g, a) = a + 2 + g.b[a].size /\ FimDe(g, a) \in Nat
<1>1. a \in Unidades /\ g.b[a].size > 0
  BY DEF Blocos
<1>2. g.b[a].size \in Nat
  BY <1>1, HeaderTypes
<1> QED BY <1>1, <1>2, UnitsAre DEF FimDe, HEADER

(* A store to one header of the list. *)
Guarda(k, a, r) == [k EXCEPT !.b[a] = r]

Guardou(k, a, r, z) ==
  /\ z \in Listas /\ z.heap_start = k.heap_start /\ z.heap_end = k.heap_end
  /\ z.b[a] = r
  /\ \A y \in Unidades \ {a} : z.b[y] = k.b[y]

LEMMA GuardaDoes ==
  ASSUME NEW k \in Listas, NEW a \in Unidades, NEW r \in Cabecalhos
  PROVE  Guardou(k, a, r, Guarda(k, a, r))
<1>1. PICK f : f = [k.b EXCEPT ![a] = r]
  OBVIOUS
<1>2. f \in [Unidades -> Cabecalhos] /\ \A y \in Unidades : f[y] = IF y = a THEN r ELSE k.b[y]
  BY <1>1, ListTypes
<1>3. k = [b |-> k.b, heap_start |-> k.heap_start, heap_end |-> k.heap_end]
  BY ListTypes
<1>4. Guarda(k, a, r) = [b |-> f, heap_start |-> k.heap_start, heap_end |-> k.heap_end]
  BY <1>1, <1>3 DEF Guarda
<1> QED BY <1>2, <1>4, ListTypes DEF Listas, Guardou

(* A header, by its fields. *)
Cab(s, f, n, p) == [size |-> s, is_free |-> f, next |-> n, prev |-> p]

LEMMA CabIs ==
  ASSUME NEW s \in Nat, NEW f \in BOOLEAN, NEW n \in {0} \cup Unidades, NEW p \in {0} \cup Unidades
  PROVE  /\ Cab(s, f, n, p) \in Cabecalhos
         /\ Cab(s, f, n, p).size = s /\ Cab(s, f, n, p).is_free = f
         /\ Cab(s, f, n, p).next = n /\ Cab(s, f, n, p).prev = p
BY DEF Cab, Cabecalhos

LEMMA ZeroIs == Zero = Cab(0, FALSE, 0, 0)
BY DEF Zero, Cab

(* What Atras changes: one backward pointer, or the end of the list. *)
Atrasou(g, x, p, k) ==
  /\ k \in Listas /\ k.heap_start = g.heap_start
  /\ k.heap_end = IF x = 0 THEN p ELSE g.heap_end
  /\ \A y \in Unidades :
       /\ k.b[y].size = g.b[y].size /\ k.b[y].is_free = g.b[y].is_free
       /\ k.b[y].next = g.b[y].next
       /\ k.b[y].prev = IF y = x THEN p ELSE g.b[y].prev

LEMMA AtrasDoes ==
  ASSUME NEW g \in Listas, NEW x \in {0} \cup Unidades, NEW p \in Unidades
  PROVE  Atrasou(g, x, p, Atras(g, x, p))
<1>0. PICK k : k = Atras(g, x, p)
  OBVIOUS
<1>1. CASE x = 0
  <2>1. k = [g EXCEPT !.heap_end = p]
    BY <1>0, <1>1 DEF Atras
  <2>2. k.b = g.b /\ k.heap_start = g.heap_start /\ k.heap_end = p
    BY <2>1, ListTypes
  <2>3. k \in Listas
    BY <2>1, <2>2, ListTypes DEF Listas
  <2> QED BY <1>0, <1>1, <2>2, <2>3, UnitsAre DEF Atrasou
<1>2. CASE x # 0
  <2>1. x \in Unidades
    BY <1>2
  <2>2. PICK c \in Cabecalhos : c = g.b[x] /\ c = Cab(c.size, c.is_free, c.next, c.prev)
    BY <2>1, HeaderTypes DEF Cab
  <2>3. PICK r : r = Cab(c.size, c.is_free, c.next, p)
    OBVIOUS
  <2>4. r = [c EXCEPT !.prev = p] /\ r \in Cabecalhos
    BY <2>2, <2>3 DEF Cab, Cabecalhos
  <2>5. k = [g EXCEPT !.b[x].prev = p]
    BY <1>0, <1>2 DEF Atras
  <2>6. k = [g EXCEPT !.b[x] = r]
    BY <2>2, <2>4, <2>5, ListTypes
  <2>7. k = Guarda(g, x, r)
    BY <2>6 DEF Guarda
  <2>8. /\ k \in Listas /\ k.heap_start = g.heap_start /\ k.heap_end = g.heap_end
        /\ k.b[x] = r /\ \A y \in Unidades \ {x} : k.b[y] = g.b[y]
    <3>1. Guardou(g, x, r, k)
      BY <2>1, <2>4, <2>7, GuardaDoes
    <3> QED BY <3>1 DEF Guardou
  <2>9. r.size = c.size /\ r.is_free = c.is_free /\ r.next = c.next /\ r.prev = p
    BY <2>3 DEF Cab
  <2> QED BY <1>0, <1>2, <2>2, <2>8, <2>9 DEF Atrasou
<1> QED BY <1>1, <1>2

(* A store to the length and the successor of a block. *)
Mede(k, a, s, n) == [k EXCEPT !.b[a].size = s, !.b[a].next = n]

LEMMA MedeIs ==
  ASSUME NEW k \in Listas, NEW a \in Unidades, NEW s \in Nat, NEW n \in {0} \cup Unidades
  PROVE  /\ Mede(k, a, s, n) = Guarda(k, a, Cab(s, k.b[a].is_free, n, k.b[a].prev))
         /\ Cab(s, k.b[a].is_free, n, k.b[a].prev) \in Cabecalhos
<1>1. PICK c \in Cabecalhos : c = k.b[a] /\ c = Cab(c.size, c.is_free, c.next, c.prev)
  BY HeaderTypes DEF Cab
<1>2. c.is_free \in BOOLEAN /\ c.prev \in {0} \cup Unidades
  BY <1>1, HeaderTypes
<1>3. PICK r : r = Cab(s, c.is_free, n, c.prev)
  OBVIOUS
<1>4. PICK c1 : c1 = [c EXCEPT !.size = s]
  OBVIOUS
<1>5. r = [c1 EXCEPT !.next = n]
  <2>1. PICK f, p, q, o : c = Cab(q, f, o, p) /\ f = c.is_free /\ p = c.prev
    BY <1>1
  <2>2. c1 = Cab(s, f, o, p)
    BY <1>4, <2>1 DEF Cab
  <2>3. [Cab(s, f, o, p) EXCEPT !.next = n] = Cab(s, f, n, p)
    BY DEF Cab
  <2> QED BY <1>3, <2>1, <2>2, <2>3
<1>6. PICK z : z = Mede(k, a, s, n)
  OBVIOUS
<1>7. z = Guarda(k, a, r)
  <2>1. k = [b |-> k.b, heap_start |-> k.heap_start, heap_end |-> k.heap_end]
        /\ k.b \in [Unidades -> Cabecalhos]
    BY ListTypes
  <2>2. PICK k1 : k1 = [k EXCEPT !.b[a].size = s]
    OBVIOUS
  <2>3. z = [k1 EXCEPT !.b[a].next = n]
    BY <1>6, <2>2 DEF Mede
  <2>6. k1 = [k EXCEPT !.b[a] = c1]
    BY <1>1, <1>4, <2>1, <2>2
  <2>7. k1 = [b |-> [k.b EXCEPT ![a] = c1], heap_start |-> k.heap_start, heap_end |-> k.heap_end]
    BY <2>1, <2>6
  <2>8. k1.b[a] = c1
    BY <2>1, <2>7
  <2>9. z = [k1 EXCEPT !.b[a] = r]
    BY <1>5, <2>3, <2>8
  <2>10. z = [b |-> [[k.b EXCEPT ![a] = c1] EXCEPT ![a] = r], heap_start |-> k.heap_start, heap_end |-> k.heap_end]
    BY <2>7, <2>9
  <2>11. [[k.b EXCEPT ![a] = c1] EXCEPT ![a] = r] = [k.b EXCEPT ![a] = r]
    BY <2>1
  <2>12. z = [k EXCEPT !.b[a] = r]
    BY <2>1, <2>10, <2>11
  <2> QED BY <2>12 DEF Guarda
<1>8. r \in Cabecalhos
  BY <1>2, <1>3, CabIs
<1> QED BY <1>1, <1>3, <1>6, <1>7, <1>8

(* What it changes when block a takes in the one behind it. *)
Absorveu(g, a, x, n, k) ==
  /\ k \in Listas /\ k.heap_start = g.heap_start
  /\ k.heap_end = IF n = 0 THEN a ELSE g.heap_end
  /\ k.b[x].size = 0
  /\ k.b[a].size = g.b[a].size + 2 + g.b[x].size /\ k.b[a].is_free = g.b[a].is_free
  /\ k.b[a].next = n /\ k.b[a].prev = g.b[a].prev
  /\ \A y \in Unidades \ {a, x} :
       /\ k.b[y].size = g.b[y].size /\ k.b[y].is_free = g.b[y].is_free
       /\ k.b[y].next = g.b[y].next
       /\ k.b[y].prev = IF y = n THEN a ELSE g.b[y].prev

LEMMA AbsorveDoes ==
  ASSUME NEW g \in Listas, NEW a \in Unidades, NEW x \in Unidades, a # x,
         NEW n, n = g.b[x].next, n # a, n # x,
         NEW k, k = Absorve(g, a, x)
  PROVE  Absorveu(g, a, x, n, k)
<1>1. n \in {0} \cup Unidades /\ g.b[a].size \in Nat /\ g.b[x].size \in Nat
  BY HeaderTypes
<1>0. PICK k0 : k0 = Atras(g, n, a)
  OBVIOUS
<1>2. /\ k0 \in Listas /\ k0.heap_start = g.heap_start
      /\ k0.heap_end = IF n = 0 THEN a ELSE g.heap_end
      /\ \A y \in Unidades :
              /\ k0.b[y].size = g.b[y].size /\ k0.b[y].is_free = g.b[y].is_free
              /\ k0.b[y].next = g.b[y].next
              /\ k0.b[y].prev = IF y = n THEN a ELSE g.b[y].prev
  <2>1. Atrasou(g, n, a, k0)
    BY <1>0, <1>1, AtrasDoes, Zenon
  <2> QED BY <2>1 DEF Atrasou
<1>3. PICK s \in Nat : s = k0.b[a].size + HEADER + g.b[x].size /\ s = g.b[a].size + 2 + g.b[x].size
  BY <1>1, <1>2 DEF HEADER
<1>4. PICK r : r = Cab(s, k0.b[a].is_free, n, k0.b[a].prev)
  OBVIOUS
<1>5. r.size = s /\ r.is_free = g.b[a].is_free /\ r.next = n /\ r.prev = g.b[a].prev
  BY <1>2, <1>4 DEF Cab
<1>6. Mede(k0, a, s, n) = Guarda(k0, a, r) /\ r \in Cabecalhos
  BY <1>1, <1>2, <1>4, MedeIs, ZenonT(30)
<1>7. k = Guarda(Guarda(k0, a, r), x, Zero)
  <2>1. k = [k0 EXCEPT !.b[a].size = s, !.b[a].next = n, !.b[x] = Zero]
    BY <1>0, <1>3 DEF Absorve
  <2>2. k = Guarda(Mede(k0, a, s, n), x, Zero)
    BY <2>1 DEF Guarda, Mede
  <2> QED BY <1>6, <2>2
<1>8. Zero \in Cabecalhos
  BY ZeroIs, CabIs
<1>9. PICK k1 : k1 = Guarda(k0, a, r)
  OBVIOUS
<1>10. Guardou(k0, a, r, k1)
  BY <1>2, <1>6, <1>9, GuardaDoes
<1>11. Guardou(k1, x, Zero, k)
  <2>1. k1 \in Listas
    BY <1>10 DEF Guardou
  <2> QED BY <1>7, <1>8, <1>9, <2>1, GuardaDoes
<1>12. k.b[x].size = 0
  BY <1>11, ZeroIs DEF Cab, Guardou
<1>13. /\ k.b[a].size = g.b[a].size + 2 + g.b[x].size /\ k.b[a].is_free = g.b[a].is_free
       /\ k.b[a].next = n /\ k.b[a].prev = g.b[a].prev
  BY <1>3, <1>5, <1>10, <1>11 DEF Guardou
<1>14. \A y \in Unidades \ {a, x} : k.b[y] = k0.b[y]
  BY <1>10, <1>11 DEF Guardou
<1>15. k \in Listas /\ k.heap_start = k0.heap_start /\ k.heap_end = k0.heap_end
  BY <1>10, <1>11 DEF Guardou
<1> QED BY <1>2, <1>12, <1>13, <1>14, <1>15 DEF Absorveu

(* What splitting block a changes. *)
Dividiu(g, a, n, novo, d, k) ==
  /\ k \in Listas /\ k.heap_start = g.heap_start
  /\ k.heap_end = IF d = 0 THEN novo ELSE g.heap_end
  /\ k.b[novo].size = g.b[a].size - n - 2 /\ k.b[novo].is_free
  /\ k.b[novo].next = d /\ k.b[novo].prev = a
  /\ k.b[a].size = n /\ k.b[a].is_free = g.b[a].is_free
  /\ k.b[a].next = novo /\ k.b[a].prev = g.b[a].prev
  /\ \A y \in Unidades \ {a, novo} :
       /\ k.b[y].size = g.b[y].size /\ k.b[y].is_free = g.b[y].is_free
       /\ k.b[y].next = g.b[y].next
       /\ k.b[y].prev = IF y = d THEN novo ELSE g.b[y].prev

LEMMA DivideDoes ==
  ASSUME NEW g \in Listas, NEW a \in Unidades, NEW n \in Nat,
         g.b[a].size >= n + HEADER + MIN_SPLIT,
         NEW novo \in Unidades, novo = a + HEADER + n, a # novo,
         NEW d, d = g.b[a].next, d # a, d # novo,
         NEW k, k = Divide(g, a, n)
  PROVE  Dividiu(g, a, n, novo, d, k)
<1>1. d \in {0} \cup Unidades /\ g.b[a].size \in Nat
  BY HeaderTypes
<1>0. PICK k0 : k0 = Atras(g, d, novo)
  OBVIOUS
<1>2. /\ k0 \in Listas /\ k0.heap_start = g.heap_start
      /\ k0.heap_end = IF d = 0 THEN novo ELSE g.heap_end
      /\ \A y \in Unidades :
              /\ k0.b[y].size = g.b[y].size /\ k0.b[y].is_free = g.b[y].is_free
              /\ k0.b[y].next = g.b[y].next
              /\ k0.b[y].prev = IF y = d THEN novo ELSE g.b[y].prev
  <2>1. Atrasou(g, d, novo, k0)
    BY <1>0, <1>1, AtrasDoes, Zenon
  <2> QED BY <2>1 DEF Atrasou
<1>3. PICK s \in Nat : s = Resto(g.b[a].size, n) /\ s = g.b[a].size - n - 2
  BY <1>1 DEF HEADER, MIN_SPLIT, Resto
<1>4. PICK q : q = Cab(s, TRUE, d, a)
  OBVIOUS
<1>5. q.size = s /\ q.is_free /\ q.next = d /\ q.prev = a /\ q \in Cabecalhos
  BY <1>1, <1>4, CabIs DEF Cab
<1>6. PICK k1 : k1 = Guarda(k0, novo, q)
  OBVIOUS
<1>7. Guardou(k0, novo, q, k1)
  BY <1>2, <1>5, <1>6, GuardaDoes
<1>8. k1 \in Listas /\ k1.b[a] = k0.b[a]
  BY <1>7 DEF Guardou
<1>9. PICK r : r = Cab(n, k1.b[a].is_free, novo, k1.b[a].prev)
  OBVIOUS
<1>10. r.size = n /\ r.is_free = g.b[a].is_free /\ r.next = novo /\ r.prev = g.b[a].prev
  BY <1>2, <1>8, <1>9 DEF Cab
<1>11. Mede(k1, a, n, novo) = Guarda(k1, a, r) /\ r \in Cabecalhos
  BY <1>8, <1>9, MedeIs
<1>12. k = Mede(k1, a, n, novo)
  <2>1. k = [k0 EXCEPT !.b[novo] = q, !.b[a].size = n, !.b[a].next = novo]
    <3>1. ~(g.b[a].size < n + HEADER + MIN_SPLIT)
      BY <1>1 DEF HEADER, MIN_SPLIT
    <3>2. k = [Atras(g, g.b[a].next, a + HEADER + n) EXCEPT
                 !.b[a + HEADER + n] = Cab(Resto(g.b[a].size, n), TRUE, g.b[a].next, a),
                 !.b[a].size = n, !.b[a].next = a + HEADER + n]
      BY <3>1, Zenon DEF Divide, Cab
    <3>3. g.b[a].next = d /\ a + HEADER + n = novo /\ Resto(g.b[a].size, n) = s
      BY <1>3
    <3> QED BY <1>0, <1>4, <3>2, <3>3, Zenon
  <2> QED BY <1>6, <2>1 DEF Mede, Guarda
<1>13. Guardou(k1, a, r, k)
  BY <1>8, <1>11, <1>12, GuardaDoes
<1>14. /\ k.b[a].size = n /\ k.b[a].is_free = g.b[a].is_free
       /\ k.b[a].next = novo /\ k.b[a].prev = g.b[a].prev
  BY <1>10, <1>13 DEF Guardou
<1>15. k.b[novo] = q
  BY <1>7, <1>13 DEF Guardou
<1>16. \A y \in Unidades \ {a, novo} : k.b[y] = k0.b[y]
  BY <1>7, <1>13 DEF Guardou
<1>17. k \in Listas /\ k.heap_start = k0.heap_start /\ k.heap_end = k0.heap_end
  BY <1>7, <1>13 DEF Guardou
<1> QED BY <1>2, <1>3, <1>5, <1>14, <1>15, <1>16, <1>17 DEF Dividiu

(* Marking a block. *)
Marcou(g, a, f, k) ==
  /\ k \in Listas /\ k.heap_start = g.heap_start /\ k.heap_end = g.heap_end
  /\ k.b[a].is_free = f
  /\ \A y \in Unidades :
       /\ k.b[y].size = g.b[y].size /\ k.b[y].next = g.b[y].next /\ k.b[y].prev = g.b[y].prev
       /\ y # a => k.b[y].is_free = g.b[y].is_free

LEMMA MarcaDoes ==
  ASSUME NEW g \in Listas, NEW a \in Unidades, NEW f \in BOOLEAN,
         NEW k, k = [g EXCEPT !.b[a].is_free = f]
  PROVE  Marcou(g, a, f, k)
<1>1. PICK c \in Cabecalhos : c = g.b[a] /\ c = Cab(c.size, c.is_free, c.next, c.prev)
  BY HeaderTypes DEF Cab
<1>2. PICK r : r = [c EXCEPT !.is_free = f]
  OBVIOUS
<1>3. r = Cab(c.size, f, c.next, c.prev)
  BY <1>1, <1>2 DEF Cab
<1>4. r \in Cabecalhos
  BY <1>1, <1>3, HeaderTypes, CabIs
<1>5. k = Guarda(g, a, r)
  BY <1>1, <1>2, ListTypes DEF Guarda
<1>6. Guardou(g, a, r, k)
  BY <1>4, <1>5, GuardaDoes
<1>7. r.size = c.size /\ r.is_free = f /\ r.next = c.next /\ r.prev = c.prev
  BY <1>3 DEF Cab
<1> QED BY <1>1, <1>6, <1>7 DEF Guardou, Marcou

(* What a new block at a, behind the last one, changes. *)
Ancorou(g, a, size, k) ==
  /\ k \in Listas /\ k.heap_end = a
  /\ k.heap_start = IF g.heap_start = 0 THEN a ELSE g.heap_start
  /\ k.b[a].size = size /\ ~k.b[a].is_free /\ k.b[a].next = 0 /\ k.b[a].prev = g.heap_end
  /\ \A y \in Unidades \ {a} :
       /\ k.b[y].size = g.b[y].size /\ k.b[y].is_free = g.b[y].is_free
       /\ k.b[y].prev = g.b[y].prev
       /\ k.b[y].next = IF y = g.heap_end THEN a ELSE g.b[y].next

Pontas(g, s, a) == [[g EXCEPT !.heap_start = s] EXCEPT !.heap_end = a]

LEMMA EndStore ==
  ASSUME NEW g \in Listas, NEW s \in {0} \cup Unidades, NEW a \in Unidades,
         NEW k, k = Pontas(g, s, a)
  PROVE  k \in Listas /\ k.b = g.b /\ k.heap_start = s /\ k.heap_end = a
<1>1. PICK b, p, q : g = [b |-> b, heap_start |-> p, heap_end |-> q] /\ b \in [Unidades -> Cabecalhos] /\ b = g.b
  BY ListTypes
<1>2. k = [b |-> b, heap_start |-> s, heap_end |-> a]
  BY <1>1 DEF Pontas
<1> QED BY <1>1, <1>2 DEF Listas

LEMMA AncoraDoes ==
  ASSUME NEW g \in Listas, NEW a \in Unidades, NEW size \in Nat,
         g.heap_end # a, g.heap_start = 0 <=> g.heap_end = 0,
         NEW k, k = Ancora(g, a, size)
  PROVE  Ancorou(g, a, size, k)
<1>0. PICK z \in {0} \cup Unidades : z = g.heap_end
  BY ListTypes
<1>1. PICK r : r = Cab(size, FALSE, 0, z)
  OBVIOUS
<1>2. /\ r \in Cabecalhos
      /\ r.size = size /\ ~r.is_free /\ r.next = 0 /\ r.prev = z
  <2>1. FALSE \in BOOLEAN /\ 0 \in {0} \cup Unidades /\ z \in {0} \cup Unidades
    OBVIOUS
  <2>2. r \in Cabecalhos
    BY <1>1, <2>1, CabIs
  <2> QED BY <1>1, <2>2 DEF Cab
<1>3. PICK k1 : k1 = Guarda(g, a, r)
  OBVIOUS
<1>4. Guardou(g, a, r, k1)
  BY <1>2, <1>3, GuardaDoes
<1>5. /\ k1 \in Listas /\ k1.b[a] = r /\ k1.heap_start = g.heap_start
      /\ \A y \in Unidades \ {a} : k1.b[y] = g.b[y]
  BY <1>4 DEF Guardou
<1>6. CASE g.heap_start = 0
  <2>1. z = 0
    BY <1>0, <1>6
  <2>2. [[size |-> size, is_free |-> FALSE, next |-> 0, prev |-> z] EXCEPT !.prev = 0] = r
    <3>1. PICK f : f = FALSE
      OBVIOUS
    <3>2. [[size |-> size, is_free |-> f, next |-> 0, prev |-> z] EXCEPT !.prev = 0] = Cab(size, f, 0, 0)
      BY DEF Cab
    <3> QED BY <1>1, <2>1, <3>1, <3>2
  <2>3. k = [g EXCEPT !.b[a] = r, !.heap_start = a, !.heap_end = a]
    BY <1>0, <1>6, <2>2, Zenon DEF Ancora
  <2>4. k = Pontas(k1, a, a)
    BY <1>3, <2>3 DEF Guarda, Pontas
  <2>5. k \in Listas /\ k.b = k1.b /\ k.heap_start = a /\ k.heap_end = a
    <3>1. a \in {0} \cup Unidades
      OBVIOUS
    <3> QED BY <1>5, <2>4, <3>1, EndStore
  <2> QED BY <1>0, <1>2, <1>5, <1>6, <2>1, <2>5, UnitsAre DEF Ancorou
<1>7. CASE g.heap_start # 0
  <2>1. z \in Unidades /\ z # a
    BY <1>0, <1>7
  <2>2. k = [g EXCEPT !.b[a] = r, !.b[z].next = a, !.heap_end = a]
    BY <1>0, <1>1, <1>7, Zenon DEF Ancora, Cab
  <2>3. PICK c \in Cabecalhos : c = k1.b[z] /\ c = Cab(c.size, c.is_free, c.next, c.prev)
    BY <1>5, <2>1, HeaderTypes DEF Cab
  <2>4. PICK q : q = [c EXCEPT !.next = a]
    OBVIOUS
  <2>5. q = Cab(c.size, c.is_free, a, c.prev)
    BY <2>3, <2>4 DEF Cab
  <2>6. q \in Cabecalhos /\ q.size = c.size /\ q.is_free = c.is_free /\ q.next = a /\ q.prev = c.prev
    <3>1. a \in {0} \cup Unidades /\ z \in Unidades
      BY <2>1
    <3>2. c.size \in Nat /\ c.is_free \in BOOLEAN /\ c.prev \in {0} \cup Unidades
      BY <1>5, <2>3, <3>1, HeaderTypes
    <3>3. q \in Cabecalhos
      BY <2>5, <3>1, <3>2, CabIs
    <3> QED BY <2>5, <3>3 DEF Cab
  <2>7. PICK k2 : k2 = Guarda(k1, z, q)
    OBVIOUS
  <2>8. Guardou(k1, z, q, k2)
    BY <1>5, <2>1, <2>6, <2>7, GuardaDoes
  <2>9. /\ k2 \in Listas /\ k2.b[z] = q /\ k2.heap_start = g.heap_start
        /\ \A y \in Unidades \ {z} : k2.b[y] = k1.b[y]
    <3>1. k2 \in Listas /\ k2.heap_start = k1.heap_start
      BY <2>8 DEF Guardou
    <3>2. k2.b[z] = q /\ \A y \in Unidades \ {z} : k2.b[y] = k1.b[y]
      BY <2>8 DEF Guardou
    <3> QED BY <1>5, <3>1, <3>2
  <2>10. k2 = [k1 EXCEPT !.b[z].next = a]
    BY <1>5, <2>3, <2>4, <2>7, ListTypes DEF Guarda
  <2>11. k = [k2 EXCEPT !.heap_end = a]
    BY <1>3, <2>2, <2>10 DEF Guarda
  <2>12. k2 = [k2 EXCEPT !.heap_start = g.heap_start]
    <3>1. PICK b, p, e : k2 = [b |-> b, heap_start |-> p, heap_end |-> e]
      BY <2>9, ListTypes
    <3>2. p = g.heap_start
      BY <2>9, <3>1
    <3> QED BY <3>1, <3>2
  <2>13. k = Pontas(k2, g.heap_start, a)
    BY <2>11, <2>12 DEF Pontas
  <2>14. k \in Listas /\ k.b = k2.b /\ k.heap_start = g.heap_start /\ k.heap_end = a
    <3>1. g.heap_start \in {0} \cup Unidades
      BY ListTypes
    <3>2. PICK s \in {0} \cup Unidades : s = g.heap_start
      BY <3>1
    <3>3. k = Pontas(k2, s, a)
      BY <2>13, <3>2
    <3> QED BY <2>9, <3>2, <3>3, EndStore
  <2>15. k.b[a] = r
    BY <1>5, <2>1, <2>9, <2>14
  <2>16. k.b[z] = q /\ c = g.b[z]
    BY <1>5, <2>1, <2>3, <2>9, <2>14
  <2>17. ASSUME NEW y \in Unidades \ {a}
         PROVE  /\ k.b[y].size = g.b[y].size /\ k.b[y].is_free = g.b[y].is_free
                /\ k.b[y].prev = g.b[y].prev
                /\ k.b[y].next = IF y = z THEN a ELSE g.b[y].next
    <3>1. CASE y = z
      BY <2>6, <2>16, <3>1
    <3>2. CASE y # z
      BY <1>5, <2>9, <2>14, <3>2
    <3> QED BY <3>1, <3>2
  <2> QED BY <1>0, <1>2, <1>7, <2>14, <2>15, <2>17 DEF Ancorou
<1> QED BY <1>6, <1>7

-----------------------------------------------------------------------------
(* The whole list *)

(* The block behind a block. *)
LEMMA NextBlock ==
  ASSUME NEW g, NEW topo \in Nat, Inteira(g, topo),
         NEW a \in Blocos(g), NEW x, x = g.b[a].next, x # 0
  PROVE  /\ x \in Blocos(g) /\ x = FimDe(g, a) /\ g.b[x].prev = a
         /\ a < x /\ a # g.heap_end /\ x # g.heap_start
<1>1. g \in Listas /\ Seguinte(g, topo, a)
  BY DEF Inteira
<1>2. x \in Blocos(g) /\ x = FimDe(g, a) /\ g.b[x].prev = a /\ a # g.heap_end
  BY <1>1 DEF Seguinte
<1>3. a < x
  BY <1>1, <1>2, BlockAre
<1>4. Anterior(g, x)
  BY <1>2 DEF Inteira
<1>5. x # g.heap_start
  BY <1>1, <1>2, <1>4, BlockAre DEF Anterior
<1> QED BY <1>2, <1>3, <1>5

(* The block before a block. *)
LEMMA PreviousBlock ==
  ASSUME NEW g, NEW topo \in Nat, Inteira(g, topo),
         NEW a \in Blocos(g), NEW x, x = g.b[a].prev, x # 0
  PROVE  x \in Blocos(g) /\ g.b[x].next = a /\ x # a /\ a # 0
<1>1. g \in Listas /\ Anterior(g, a)
  BY DEF Inteira
<1>2. x \in Blocos(g) /\ g.b[x].next = a /\ a # 0
  BY <1>1, BlockAre DEF Anterior
<1>3. x < a
  BY <1>2, NextBlock
<1> QED BY <1>1, <1>2, <1>3, BlockAre

(* The parts of Inteira, for facts about one block. *)
LEMMA WholeParts ==
  ASSUME NEW g, NEW topo, Inteira(g, topo), NEW y \in Blocos(g)
  PROVE  /\ g \in Listas /\ FimDe(g, y) <= topo
         /\ Seguinte(g, topo, y) /\ Anterior(g, y)
         /\ g.heap_start = CHUNK /\ CHUNK \in Blocos(g) /\ g.heap_end \in Blocos(g)
BY DEF Inteira

(* A list is whole when its blocks, one by one, are. *)
LEMMA WholeFrom ==
  ASSUME NEW g \in Listas, NEW topo \in Nat, Blocos(g) # {},
         g.heap_start = CHUNK, CHUNK \in Blocos(g), g.heap_end \in Blocos(g),
         \A y \in Blocos(g) : FimDe(g, y) <= topo /\ Seguinte(g, topo, y) /\ Anterior(g, y),
         \A y, z \in Blocos(g) : y < z => FimDe(g, y) <= z
  PROVE  Inteira(g, topo)
BY DEF Inteira

LEMMA AbsorveKeeps ==
  ASSUME NEW g, NEW topo \in Nat, Inteira(g, topo),
         NEW a \in Blocos(g), NEW x, x = g.b[a].next, x # 0,
         NEW k, k = Absorve(g, a, x)
  PROVE  /\ Inteira(k, topo) /\ Blocos(k) = Blocos(g) \ {x} /\ Poupa(g, k, {a, x})
         /\ k.b[a].size = g.b[a].size + 2 + g.b[x].size /\ k.b[a].is_free = g.b[a].is_free
         /\ k.b[a].prev = g.b[a].prev
<1>1. /\ x \in Blocos(g) /\ x = FimDe(g, a) /\ g.b[x].prev = a /\ a < x
      /\ a # g.heap_end /\ x # g.heap_start
  BY NextBlock
<1>2. g \in Listas
  BY DEF Inteira
<1>3. /\ a \in Unidades /\ x \in Unidades /\ a # x /\ a \in Nat /\ x \in Nat
      /\ g.b[a].size \in Nat /\ g.b[x].size \in Nat /\ g.b[a].size > 0 /\ g.b[x].size > 0
      /\ x = a + 2 + g.b[a].size /\ FimDe(g, x) = x + 2 + g.b[x].size /\ x # 0 /\ a # 0
  BY <1>1, <1>2, BlockAre
<1>4. PICK n : n = g.b[x].next
  OBVIOUS
<1>5. /\ n \in {0} \cup Unidades /\ n # a /\ n # x
      /\ n # 0 => n \in Blocos(g) /\ n = FimDe(g, x) /\ g.b[n].prev = x /\ x < n /\ x # g.heap_end
      /\ n = 0 => x = g.heap_end /\ FimDe(g, x) = topo
  <2>1. n \in {0} \cup Unidades
    BY <1>2, <1>3, <1>4, HeaderTypes
  <2>2. n # 0 => n \in Blocos(g) /\ n = FimDe(g, x) /\ g.b[n].prev = x /\ x < n /\ x # g.heap_end
    BY <1>1, <1>4, NextBlock
  <2>3. n = 0 => x = g.heap_end /\ FimDe(g, x) = topo
    <3>1. Seguinte(g, topo, x)
      BY <1>1, WholeParts
    <3>2. 0 \notin Blocos(g)
      BY <1>2, BlockAre
    <3> QED BY <1>4, <3>1, <3>2 DEF Seguinte
  <2> QED BY <1>3, <2>1, <2>2, <2>3
<1>6. Absorveu(g, a, x, n, k)
  BY <1>2, <1>3, <1>4, <1>5, AbsorveDoes
<1>7. /\ k \in Listas /\ k.heap_start = g.heap_start
      /\ k.heap_end = IF n = 0 THEN a ELSE g.heap_end
      /\ k.b[x].size = 0
      /\ k.b[a].size = g.b[a].size + 2 + g.b[x].size /\ k.b[a].is_free = g.b[a].is_free
      /\ k.b[a].next = n /\ k.b[a].prev = g.b[a].prev
  BY <1>6 DEF Absorveu
<1>8. ASSUME NEW y \in Unidades, y # a, y # x
      PROVE  /\ k.b[y].size = g.b[y].size /\ k.b[y].is_free = g.b[y].is_free
             /\ k.b[y].next = g.b[y].next
             /\ k.b[y].prev = IF y = n THEN a ELSE g.b[y].prev
  BY <1>6, <1>8 DEF Absorveu
<1>9. Blocos(k) = Blocos(g) \ {x}
  <2>1. k.b[a].size > 0 /\ ~(k.b[x].size > 0)
    BY ONLY <1>3, <1>7
  <2> QED BY <1>1, <1>3, <1>8, <2>1 DEF Blocos
<1>10. FimDe(k, a) = FimDe(g, x)
  BY <1>3, <1>7 DEF FimDe, HEADER
<1>11. ASSUME NEW y \in Blocos(k), y # a
       PROVE  y \in Blocos(g) /\ y \in Unidades /\ y # x /\ FimDe(k, y) = FimDe(g, y) /\ y # 0
  BY <1>2, <1>8, <1>9, <1>11, BlockAre DEF FimDe
<1>12. ASSUME NEW y \in Blocos(k)
       PROVE  FimDe(k, y) <= topo /\ Seguinte(k, topo, y) /\ Anterior(k, y)
  <2>1. CASE y = a
    <3>1. FimDe(k, a) <= topo
      BY <1>1, <1>10, WholeParts
    <3>2. Seguinte(k, topo, a)
      <4>1. CASE n = 0
        BY <1>5, <1>7, <1>10, <4>1 DEF Seguinte
      <4>2. CASE n # 0
        <5>1. n \in Unidades /\ n \in Blocos(k)
          BY <1>2, <1>5, <1>9, <4>2, BlockAre
        <5>2. k.b[n].prev = a
          BY <1>5, <1>8, <5>1
        <5> QED BY <1>1, <1>5, <1>7, <1>10, <4>2, <5>1, <5>2 DEF Seguinte
      <4> QED BY <4>1, <4>2
    <3>3. Anterior(k, a)
      <4>1. Anterior(g, a)
        BY WholeParts
      <4>2. CASE a = g.heap_start
        BY <1>7, <4>1, <4>2, <1>2, <1>3, PreviousBlock DEF Anterior
      <4>3. CASE a # g.heap_start
        <5>1. PICK p : p = g.b[a].prev /\ p \in Blocos(g) /\ g.b[p].next = a
          BY <4>1, <4>3 DEF Anterior
        <5>2. p # x /\ p # a /\ p \in Unidades
          BY <1>2, <1>3, <1>4, <1>5, <5>1, BlockAre, NextBlock, ZenonT(30)
        <5>3. p \in Blocos(k) /\ k.b[p].next = a
          BY <1>8, <1>9, <5>1, <5>2
        <5> QED BY <1>7, <4>3, <5>1, <5>3 DEF Anterior
      <4> QED BY <4>2, <4>3
    <3> QED BY <2>1, <3>1, <3>2, <3>3
  <2>2. CASE y # a
    <3>1. y \in Blocos(g) /\ y \in Unidades /\ y # x /\ FimDe(k, y) = FimDe(g, y) /\ y # 0
      BY <1>11, <2>2
    <3>2. FimDe(g, y) <= topo /\ Seguinte(g, topo, y) /\ Anterior(g, y)
      BY <3>1, WholeParts
    <3>3. /\ k.b[y].next = g.b[y].next
          /\ k.b[y].prev = IF y = n THEN a ELSE g.b[y].prev
      BY <1>8, <2>2, <3>1
    <3>4. Seguinte(k, topo, y)
      <4>1. CASE y = g.heap_end
        <5>1. n # 0
          BY <1>5, <3>1, <4>1
        <5> QED BY <1>7, <3>1, <3>2, <3>3, <4>1, <5>1 DEF Seguinte
      <4>2. CASE y # g.heap_end
        <5>1. PICK z : z = g.b[y].next /\ z = FimDe(g, y) /\ z \in Blocos(g) /\ g.b[z].prev = y
          BY <3>2, <4>2 DEF Seguinte
        <5>2. z # x /\ z # n /\ z \in Unidades
          <6>1. z # x
            BY <1>1, <2>2, <5>1
          <6>2. z # n
            <7>1. CASE n = 0
              BY <1>2, <5>1, <7>1, BlockAre
            <7>2. CASE n # 0
              BY <1>5, <3>1, <5>1, <7>2
            <7> QED BY <7>1, <7>2
          <6> QED BY <1>2, <5>1, <6>1, <6>2, BlockAre
        <5>3. k.b[z].prev = y
          BY <1>7, <1>8, <5>1, <5>2
        <5>4. z \in Blocos(k) /\ y # k.heap_end
          BY <1>7, <1>9, <2>2, <4>2, <5>1, <5>2
        <5> QED BY <3>1, <3>3, <5>1, <5>3, <5>4 DEF Seguinte
      <4> QED BY <4>1, <4>2
    <3>5. Anterior(k, y)
      <4>1. CASE y = n
        <5>1. y # g.heap_start
          BY <1>1, <1>4, <1>5, <3>1, <4>1, NextBlock
        <5>2. a \in Blocos(k) /\ k.b[a].next = y
          BY <1>3, <1>7, <1>9, <4>1
        <5> QED BY <1>7, <3>3, <4>1, <5>1, <5>2 DEF Anterior
      <4>2. CASE y # n /\ y = g.heap_start
        BY <1>2, <1>7, <3>2, <3>3, <4>2 DEF Anterior
      <4>3. CASE y # n /\ y # g.heap_start
        <5>1. PICK p : p = g.b[y].prev /\ p \in Blocos(g) /\ g.b[p].next = y
          BY <3>2, <4>3 DEF Anterior
        <5>2. p # a /\ p # x /\ p \in Unidades
          BY <1>2, <1>4, <3>1, <4>3, <5>1, BlockAre
        <5>3. p \in Blocos(k) /\ k.b[p].next = y
          BY <1>8, <1>9, <5>1, <5>2
        <5> QED BY <1>7, <3>3, <4>3, <5>1, <5>3 DEF Anterior
      <4> QED BY <4>1, <4>2, <4>3
    <3> QED BY <3>1, <3>2, <3>4, <3>5
  <2> QED BY <2>1, <2>2
<1>13. ASSUME NEW y \in Blocos(k), NEW z \in Blocos(k), y < z
       PROVE  FimDe(k, y) <= z
  <2>1. y \in Blocos(g) /\ z \in Blocos(g) /\ z # x /\ z \in Nat /\ y \in Nat
    BY <1>2, <1>9, BlockAre
  <2>2. \A u, v \in Blocos(g) : u < v => FimDe(g, u) <= v
    BY DEF Inteira
  <2>3. CASE y = a
    <3>1. x <= z
      BY <1>1, <1>13, <2>1, <2>2, <2>3
    <3>2. x < z
      BY <1>3, <2>1, <3>1
    <3> QED BY <1>1, <1>10, <2>1, <2>2, <2>3, <3>2
  <2>4. CASE y # a
    BY <1>11, <1>13, <2>1, <2>2, <2>4
  <2> QED BY <2>3, <2>4
<1>14. Inteira(k, topo)
  <2>1. g.heap_start = CHUNK /\ CHUNK \in Blocos(g) /\ g.heap_end \in Blocos(g)
    BY WholeParts
  <2>2. k.heap_end \in Blocos(k) /\ k.heap_start = CHUNK /\ CHUNK \in Blocos(k) /\ Blocos(k) # {}
    BY <1>1, <1>3, <1>5, <1>7, <1>9, <2>1
  <2> QED BY <1>7, <1>12, <1>13, <2>2, WholeFrom
<1>15. Poupa(g, k, {a, x})
  <2> SUFFICES ASSUME NEW y \in Blocos(g) \ {a, x}
               PROVE  y \in Blocos(k) /\ k.b[y].size = g.b[y].size /\ k.b[y].is_free = g.b[y].is_free
    BY DEF Poupa
  <2>1. y \in Unidades /\ y # a /\ y # x
    BY <1>2, BlockAre
  <2> QED BY <1>8, <1>9, <2>1
<1> QED BY <1>7, <1>9, <1>14, <1>15

(* Splitting block a, or leaving it as it is when the rest is too small. *)
LEMMA DivideKeeps ==
  ASSUME NEW g, NEW topo \in Nat, Inteira(g, topo),
         topo <= Limite,
         NEW a \in Blocos(g), NEW n \in Nat, n > 0, g.b[a].size >= n,
         NEW k, k = Divide(g, a, n)
  PROVE  /\ Inteira(k, topo) /\ Poupa(g, k, {a}) /\ a \in Blocos(k)
         /\ k.b[a].size >= n /\ k.b[a].is_free = g.b[a].is_free
<1>1. g \in Listas
  BY DEF Inteira
<1>2. CASE g.b[a].size < n + HEADER + MIN_SPLIT
  <2>1. k = g
    BY <1>2 DEF Divide
  <2> QED BY <2>1 DEF Poupa
<1>3. CASE ~(g.b[a].size < n + HEADER + MIN_SPLIT)
  <2>1. /\ a \in Unidades /\ a \in Nat /\ g.b[a].size \in Nat /\ a # 0 /\ a >= CHUNK
        /\ FimDe(g, a) = a + 2 + g.b[a].size /\ FimDe(g, a) <= topo
    BY <1>1, BlockAre, WholeParts
  <2>2. g.b[a].size >= n + 4
    BY <1>3, <2>1 DEF HEADER, MIN_SPLIT
  <2>3. PICK novo : novo = a + HEADER + n /\ novo = a + 2 + n /\ novo \in Nat
    BY <2>1 DEF HEADER
  <2>4. PICK d : d = g.b[a].next
    OBVIOUS
  <2>5. /\ d \in {0} \cup Unidades /\ d # a
        /\ d # 0 => /\ d \in Blocos(g) /\ d = FimDe(g, a) /\ g.b[d].prev = a
                    /\ a # g.heap_end /\ d # g.heap_start /\ d \in Unidades
        /\ d = 0 => a = g.heap_end /\ FimDe(g, a) = topo
    <3>1. d \in {0} \cup Unidades
      BY <1>1, <2>1, <2>4, HeaderTypes
    <3>2. d # 0 => /\ d \in Blocos(g) /\ d = FimDe(g, a) /\ g.b[d].prev = a
                   /\ a # g.heap_end /\ d # g.heap_start /\ a < d
      BY <2>4, NextBlock
    <3>3. d = 0 => a = g.heap_end /\ FimDe(g, a) = topo
      <4>1. Seguinte(g, topo, a) /\ 0 \notin Blocos(g)
        BY <1>1, WholeParts, BlockAre
      <4> QED BY <2>4, <4>1 DEF Seguinte
    <3> QED BY <2>1, <3>1, <3>2, <3>3
  <2>6. novo \in Unidades /\ a < novo /\ novo < FimDe(g, a) /\ novo # d /\ novo # 0
    <3>1. a < novo /\ novo < FimDe(g, a) /\ novo # 0
      BY <2>1, <2>2, <2>3
    <3>2. FimDe(g, a) <= Limite
      BY <2>1, UnitsAre
    <3>3. novo < Limite /\ CHUNK <= novo
      BY <2>1, <2>3, <3>1, <3>2, UnitsAre
    <3> QED BY <2>1, <2>3, <2>5, <3>1, <3>3, UnitsAre
  <2>7. Dividiu(g, a, n, novo, d, k)
    BY <1>1, <1>3, <2>1, <2>3, <2>4, <2>5, <2>6, DivideDoes DEF HEADER, MIN_SPLIT
  <2>8. /\ k \in Listas /\ k.heap_start = g.heap_start
        /\ k.heap_end = IF d = 0 THEN novo ELSE g.heap_end
        /\ k.b[novo].size = g.b[a].size - n - 2
        /\ k.b[novo].next = d /\ k.b[novo].prev = a
        /\ k.b[a].size = n /\ k.b[a].is_free = g.b[a].is_free
        /\ k.b[a].next = novo /\ k.b[a].prev = g.b[a].prev
    BY <2>7 DEF Dividiu
  <2>9. ASSUME NEW y \in Unidades, y # a, y # novo
        PROVE  /\ k.b[y].size = g.b[y].size /\ k.b[y].is_free = g.b[y].is_free
               /\ k.b[y].next = g.b[y].next
               /\ k.b[y].prev = IF y = d THEN novo ELSE g.b[y].prev
    BY <2>7, <2>9 DEF Dividiu
  <2>10. \A u, v \in Blocos(g) : u < v => FimDe(g, u) <= v
    BY DEF Inteira
  <2>11. novo \notin Blocos(g)
    <3>1. SUFFICES ASSUME novo \in Blocos(g) PROVE FALSE
      OBVIOUS
    <3>2. FimDe(g, a) <= novo
      BY <2>6, <2>10, <3>1
    <3> QED BY <2>1, <2>3, <2>6, <3>2
  <2>12. Blocos(k) = Blocos(g) \cup {novo}
    <3>1. k.b[a].size > 0 /\ k.b[novo].size > 0
      BY <2>1, <2>2, <2>8
    <3> QED BY <2>1, <2>6, <2>9, <3>1 DEF Blocos
  <2>13. FimDe(k, a) = novo /\ FimDe(k, novo) = FimDe(g, a)
    BY <2>1, <2>3, <2>8 DEF FimDe, HEADER
  <2>14. ASSUME NEW y \in Blocos(k), y # a, y # novo
         PROVE  y \in Blocos(g) /\ y \in Unidades /\ FimDe(k, y) = FimDe(g, y) /\ y # 0
    BY <1>1, <2>9, <2>12, <2>14, BlockAre DEF FimDe
  <2>15. ASSUME NEW y \in Blocos(k)
         PROVE  FimDe(k, y) <= topo /\ Seguinte(k, topo, y) /\ Anterior(k, y)
    <3>1. CASE y = a
      <4>1. FimDe(k, a) <= topo
        BY <2>1, <2>3, <2>6, <2>13
      <4>2. Seguinte(k, topo, a)
        <5>1. a # k.heap_end
          BY <2>5, <2>6, <2>8, <2>1
        <5> QED BY <2>8, <2>12, <2>13, <5>1 DEF Seguinte
      <4>3. Anterior(k, a)
        <5>1. Anterior(g, a)
          BY WholeParts
        <5>2. CASE a = g.heap_start
          BY <2>8, <5>1, <5>2, <2>1, PreviousBlock DEF Anterior
        <5>3. CASE a # g.heap_start
          <6>1. PICK p : p = g.b[a].prev /\ p \in Blocos(g) /\ g.b[p].next = a
            BY <5>1, <5>3 DEF Anterior
          <6>2. p # a /\ p # novo /\ p \in Unidades
            BY <1>1, <2>4, <2>5, <2>11, <6>1, BlockAre
          <6>3. p \in Blocos(k) /\ k.b[p].next = a
            BY <2>9, <2>12, <6>1, <6>2
          <6> QED BY <2>8, <5>3, <6>1, <6>3 DEF Anterior
        <5> QED BY <5>2, <5>3
      <4> QED BY <3>1, <4>1, <4>2, <4>3
    <3>2. CASE y = novo
      <4>1. FimDe(k, novo) <= topo
        BY <2>1, <2>13
      <4>2. Seguinte(k, topo, novo)
        <5>1. CASE d = 0
          BY <2>5, <2>8, <2>13, <5>1 DEF Seguinte
        <5>2. CASE d # 0
          <6>1. d \in Blocos(k) /\ k.b[d].prev = novo
            BY <2>5, <2>6, <2>9, <2>12, <5>2
          <6>2. novo # g.heap_end
            BY <2>11, WholeParts
          <6> QED BY <2>5, <2>8, <2>13, <5>2, <6>1, <6>2 DEF Seguinte
        <5> QED BY <5>1, <5>2
      <4>3. Anterior(k, novo)
        <5>1. novo # g.heap_start
          BY <2>11, WholeParts
        <5> QED BY <2>8, <2>12, <5>1 DEF Anterior
      <4> QED BY <3>2, <4>1, <4>2, <4>3
    <3>3. CASE y # a /\ y # novo
      <4>1. y \in Blocos(g) /\ y \in Unidades /\ FimDe(k, y) = FimDe(g, y) /\ y # 0
        BY <2>14, <3>3
      <4>2. FimDe(g, y) <= topo /\ Seguinte(g, topo, y) /\ Anterior(g, y)
        BY <4>1, WholeParts
      <4>3. /\ k.b[y].next = g.b[y].next
            /\ k.b[y].prev = IF y = d THEN novo ELSE g.b[y].prev
        BY <2>9, <3>3, <4>1
      <4>4. Seguinte(k, topo, y)
        <5>1. CASE y = g.heap_end
          <6>1. d # 0
            BY <2>5, <3>3, <5>1
          <6> QED BY <2>8, <4>1, <4>2, <4>3, <5>1, <6>1 DEF Seguinte
        <5>2. CASE y # g.heap_end
          <6>1. PICK z : z = g.b[y].next /\ z = FimDe(g, y) /\ z \in Blocos(g) /\ g.b[z].prev = y
            BY <4>2, <5>2 DEF Seguinte
          <6>2. z # d
            <7>1. CASE d = 0
              BY <1>1, <6>1, <7>1, BlockAre
            <7>2. CASE d # 0
              BY <2>5, <3>3, <6>1, <7>2
            <7> QED BY <7>1, <7>2
          <6>3. z # novo /\ z \in Unidades
            BY <1>1, <2>11, <6>1, BlockAre
          <6>4. k.b[z].prev = y
            <7>1. CASE z = a
              BY <2>8, <6>1, <7>1
            <7>2. CASE z # a
              BY <2>9, <6>1, <6>2, <6>3, <7>2
            <7> QED BY <7>1, <7>2
          <6>5. z \in Blocos(k) /\ y # k.heap_end
            BY <2>8, <2>12, <3>3, <5>2, <6>1
          <6> QED BY <4>1, <4>3, <6>1, <6>4, <6>5 DEF Seguinte
        <5> QED BY <5>1, <5>2
      <4>5. Anterior(k, y)
        <5>1. CASE y = d
          <6>1. y # g.heap_start
            BY <2>5, <4>1, <5>1
          <6>2. novo \in Blocos(k) /\ k.b[novo].next = y
            BY <2>8, <2>12, <5>1
          <6> QED BY <2>8, <4>3, <5>1, <6>1, <6>2 DEF Anterior
        <5>2. CASE y # d /\ y = g.heap_start
          <6>1. g.b[y].prev = 0
            BY <4>2, <5>2 DEF Anterior
          <6> QED BY <2>8, <4>3, <5>2, <6>1 DEF Anterior
        <5>3. CASE y # d /\ y # g.heap_start
          <6>1. PICK p : p = g.b[y].prev /\ p \in Blocos(g) /\ g.b[p].next = y
            BY <4>2, <5>3 DEF Anterior
          <6>2. p # a /\ p # novo /\ p \in Unidades
            BY <1>1, <2>4, <2>11, <5>3, <6>1, BlockAre
          <6>3. p \in Blocos(k) /\ k.b[p].next = y
            BY <2>9, <2>12, <6>1, <6>2
          <6> QED BY <2>8, <4>3, <5>3, <6>1, <6>3 DEF Anterior
        <5> QED BY <5>1, <5>2, <5>3
      <4> QED BY <4>1, <4>2, <4>4, <4>5
    <3> QED BY <3>1, <3>2, <3>3
  <2>16. ASSUME NEW y \in Blocos(k), NEW z \in Blocos(k), y < z
         PROVE  FimDe(k, y) <= z
    <3>1. y \in Nat /\ z \in Nat /\ y \in Unidades /\ z \in Unidades
      BY <2>8, BlockAre
    <3>2. CASE y = a
      <4>1. CASE z = novo
        BY <2>13, <3>1, <3>2, <4>1
      <4>2. CASE z # novo
        <5>1. z \in Blocos(g)
          BY <2>12, <4>2
        <5>2. FimDe(g, a) <= z
          BY <2>10, <2>16, <3>2, <5>1
        <5> QED BY <2>1, <2>3, <2>6, <2>13, <3>1, <3>2, <5>2
      <4> QED BY <4>1, <4>2
    <3>3. CASE y = novo
      <4>1. z \in Blocos(g) /\ a < z
        BY <2>1, <2>3, <2>6, <2>12, <2>16, <3>1, <3>3
      <4> QED BY <2>10, <2>13, <3>3, <4>1
    <3>4. CASE y # a /\ y # novo /\ z = novo
      <4>1. y \in Blocos(g) /\ FimDe(k, y) = FimDe(g, y) /\ FimDe(g, y) \in Nat
        BY <1>1, <2>14, <3>4, BlockAre
      <4>2. y < a
        <5>1. SUFFICES ASSUME a < y PROVE FALSE
          BY <2>1, <3>1, <3>4
        <5>2. FimDe(g, a) <= y
          BY <2>10, <4>1, <5>1
        <5> QED BY <2>1, <2>3, <2>6, <2>16, <3>1, <3>4, <5>2
      <4>3. FimDe(g, y) <= a
        BY <2>10, <4>1, <4>2
      <4> QED BY <2>1, <2>3, <2>6, <3>4, <4>1, <4>3
    <3>5. CASE y # a /\ y # novo /\ z # novo
      <4>1. y \in Blocos(g) /\ FimDe(k, y) = FimDe(g, y) /\ z \in Blocos(g)
        BY <2>12, <2>14, <3>5
      <4> QED BY <2>10, <2>16, <4>1
    <3> QED BY <3>2, <3>3, <3>4, <3>5
  <2>17. Inteira(k, topo)
    <3>1. g.heap_start = CHUNK /\ CHUNK \in Blocos(g) /\ g.heap_end \in Blocos(g)
      BY WholeParts
    <3>2. k.heap_end \in Blocos(k) /\ k.heap_start = CHUNK /\ CHUNK \in Blocos(k) /\ Blocos(k) # {}
      BY <2>8, <2>12, <3>1
    <3> QED BY <2>8, <2>15, <2>16, <3>2, WholeFrom
  <2>18. Poupa(g, k, {a})
    <3> SUFFICES ASSUME NEW y \in Blocos(g) \ {a}
                 PROVE  y \in Blocos(k) /\ k.b[y].size = g.b[y].size /\ k.b[y].is_free = g.b[y].is_free
      BY DEF Poupa
    <3>1. y \in Unidades /\ y # a /\ y # novo
      BY <1>1, <2>11, BlockAre
    <3> QED BY <2>9, <2>12, <3>1
  <2> QED BY <2>8, <2>12, <2>17, <2>18
<1> QED BY <1>2, <1>3

(* A new block where the list ended. *)
LEMMA AncoraKeeps ==
  ASSUME NEW g, NEW topo \in Unidades, Inteira(g, topo), NEW size \in Nat, size > 0,
         NEW fim, fim = topo + HEADER + size,
         NEW k, k = Ancora(g, topo, size)
  PROVE  /\ Inteira(k, fim) /\ Poupa(g, k, {}) /\ topo \notin Blocos(g)
         /\ topo \in Blocos(k) /\ k.b[topo].size = size /\ ~k.b[topo].is_free
<1>1. g \in Listas
  BY DEF Inteira
<1>2. topo \in Nat /\ topo # 0 /\ topo >= CHUNK /\ fim \in Nat /\ fim = topo + 2 + size /\ topo < fim
  BY UnitsAre DEF HEADER
<1>3. ASSUME NEW y \in Blocos(g)
      PROVE  y < topo /\ y # topo /\ y \in Unidades /\ FimDe(g, y) <= topo /\ y # 0
  BY <1>1, <1>2, WholeParts, BlockAre
<1>4. /\ g.heap_end # topo /\ (g.heap_start = 0 <=> g.heap_end = 0)
      /\ Blocos(g) = {} => g.heap_start = 0 /\ g.heap_end = 0 /\ topo = CHUNK
      /\ Blocos(g) # {} => /\ g.heap_start = CHUNK /\ CHUNK \in Blocos(g)
                           /\ g.heap_end \in Blocos(g) /\ g.heap_start # 0 /\ g.heap_end # 0
  <2>1. CASE Blocos(g) = {}
    BY <1>2, <2>1 DEF Inteira
  <2>2. CASE Blocos(g) # {}
    <3>1. g.heap_start = CHUNK /\ CHUNK \in Blocos(g) /\ g.heap_end \in Blocos(g)
      BY <2>2 DEF Inteira
    <3> QED BY <1>3, <2>2, <3>1
  <2> QED BY <2>1, <2>2
<1>5. Ancorou(g, topo, size, k)
  BY <1>1, <1>4, AncoraDoes
<1>6. /\ k \in Listas /\ k.heap_end = topo
      /\ k.heap_start = IF g.heap_start = 0 THEN topo ELSE g.heap_start
      /\ k.b[topo].size = size /\ ~k.b[topo].is_free /\ k.b[topo].next = 0
      /\ k.b[topo].prev = g.heap_end
  BY <1>5 DEF Ancorou
<1>7. ASSUME NEW y \in Unidades, y # topo
      PROVE  /\ k.b[y].size = g.b[y].size /\ k.b[y].is_free = g.b[y].is_free
             /\ k.b[y].prev = g.b[y].prev
             /\ k.b[y].next = IF y = g.heap_end THEN topo ELSE g.b[y].next
  BY <1>5, <1>7 DEF Ancorou
<1>8. Blocos(k) = Blocos(g) \cup {topo} /\ topo \notin Blocos(g)
  <2>1. topo \notin Blocos(g)
    BY <1>3
  <2>2. k.b[topo].size > 0
    BY <1>6
  <2> QED BY <1>7, <2>1, <2>2 DEF Blocos
<1>9. FimDe(k, topo) = fim /\ k.heap_start = CHUNK
  BY <1>2, <1>4, <1>6 DEF FimDe, HEADER
<1>10. ASSUME NEW y \in Blocos(k), y # topo
       PROVE  /\ y \in Blocos(g) /\ y \in Unidades /\ FimDe(k, y) = FimDe(g, y)
              /\ FimDe(g, y) <= topo /\ FimDe(g, y) \in Nat
  <2>1. y \in Blocos(g) /\ y \in Unidades /\ FimDe(g, y) <= topo
    BY <1>3, <1>8, <1>10
  <2> QED BY <1>1, <1>7, <1>10, <2>1, BlockAre DEF FimDe
<1>11. ASSUME NEW y \in Blocos(k)
       PROVE  FimDe(k, y) <= fim /\ Seguinte(k, fim, y) /\ Anterior(k, y)
  <2>1. CASE y = topo
    <3>1. FimDe(k, topo) <= fim /\ Seguinte(k, fim, topo)
      BY <1>2, <1>6, <1>9 DEF Seguinte
    <3>2. Anterior(k, topo)
      <4>1. CASE Blocos(g) = {}
        BY <1>4, <1>6, <4>1 DEF Anterior
      <4>2. CASE Blocos(g) # {}
        <5>1. PICK z \in Blocos(g) : z = g.heap_end
          BY <1>4, <4>2
        <5>2. z \in Blocos(k) /\ k.b[z].next = topo
          BY <1>3, <1>7, <1>8, <5>1
        <5>3. topo # k.heap_start
          BY <1>3, <1>4, <1>9, <4>2
        <5> QED BY <1>6, <5>1, <5>2, <5>3 DEF Anterior
      <4> QED BY <4>1, <4>2
    <3> QED BY <2>1, <3>1, <3>2
  <2>2. CASE y # topo
    <3>1. /\ y \in Blocos(g) /\ y \in Unidades /\ FimDe(k, y) = FimDe(g, y)
          /\ FimDe(g, y) <= topo /\ FimDe(g, y) \in Nat /\ Blocos(g) # {}
      BY <1>10, <2>2
    <3>2. Seguinte(g, topo, y) /\ Anterior(g, y)
      BY <3>1, WholeParts
    <3>3. /\ k.b[y].prev = g.b[y].prev
          /\ k.b[y].next = IF y = g.heap_end THEN topo ELSE g.b[y].next
      BY <1>7, <2>2, <3>1
    <3>4. FimDe(k, y) <= fim
      BY <1>2, <3>1
    <3>5. Seguinte(k, fim, y)
      <4>1. CASE y = g.heap_end
        <5>1. FimDe(g, y) = topo
          BY <3>2, <4>1 DEF Seguinte
        <5> QED BY <1>6, <1>8, <2>2, <3>1, <3>3, <4>1, <5>1 DEF Seguinte
      <4>2. CASE y # g.heap_end
        <5>1. PICK z : z = g.b[y].next /\ z = FimDe(g, y) /\ z \in Blocos(g) /\ g.b[z].prev = y
          BY <3>2, <4>2 DEF Seguinte
        <5>2. z \in Blocos(k) /\ k.b[z].prev = y
          BY <1>3, <1>7, <1>8, <5>1
        <5> QED BY <1>6, <2>2, <3>1, <3>3, <4>2, <5>1, <5>2 DEF Seguinte
      <4> QED BY <4>1, <4>2
    <3>6. Anterior(k, y)
      <4>1. k.heap_start = g.heap_start
        BY <1>4, <1>6, <3>1
      <4>2. CASE y = g.heap_start
        <5>1. g.b[y].prev = 0
          <6>1. ASSUME g.b[y].prev # 0, y # g.heap_start PROVE FALSE
            BY <4>2, <6>1
          <6> QED BY <3>2, <4>2 DEF Anterior
        <5> QED BY <3>3, <4>1, <4>2, <5>1 DEF Anterior
      <4>3. CASE y # g.heap_start
        <5>1. PICK p : p = g.b[y].prev /\ p \in Blocos(g) /\ g.b[p].next = y
          BY <3>2, <4>3 DEF Anterior
        <5>2. p # g.heap_end /\ p \in Unidades /\ p # topo
          <6>1. p \in Unidades /\ p # topo /\ y # 0
            BY <1>3, <3>1, <5>1
          <6>2. p # g.heap_end
            <7>1. Seguinte(g, topo, p)
              BY <5>1, WholeParts
            <7> QED BY <5>1, <6>1, <7>1 DEF Seguinte
          <6> QED BY <6>1, <6>2
        <5>3. p \in Blocos(k) /\ k.b[p].next = y
          BY <1>7, <1>8, <5>1, <5>2
        <5> QED BY <3>3, <4>1, <4>3, <5>1, <5>3 DEF Anterior
      <4> QED BY <4>2, <4>3
    <3> QED BY <3>4, <3>5, <3>6
  <2> QED BY <2>1, <2>2
<1>12. ASSUME NEW y \in Blocos(k), NEW z \in Blocos(k), y < z
       PROVE  FimDe(k, y) <= z
  <2>1. y \in Nat /\ z \in Nat
    BY <1>6, BlockAre
  <2>2. \A u, v \in Blocos(g) : u < v => FimDe(g, u) <= v
    BY DEF Inteira
  <2>3. CASE y = topo
    <3>1. z < topo
      BY <1>2, <1>3, <1>8, <1>12, <2>1, <2>3
    <3> QED BY <1>2, <1>12, <2>1, <2>3, <3>1
  <2>4. CASE y # topo /\ z = topo
    BY <1>10, <2>4
  <2>5. CASE y # topo /\ z # topo
    BY <1>8, <1>10, <1>12, <2>2, <2>5
  <2> QED BY <2>3, <2>4, <2>5
<1>13. Inteira(k, fim)
  <2>1. k.heap_end \in Blocos(k) /\ CHUNK \in Blocos(k) /\ Blocos(k) # {}
    BY <1>4, <1>6, <1>8
  <2> QED BY <1>2, <1>6, <1>9, <1>11, <1>12, <2>1, WholeFrom
<1>14. Poupa(g, k, {})
  <2> SUFFICES ASSUME NEW y \in Blocos(g)
               PROVE  y \in Blocos(k) /\ k.b[y].size = g.b[y].size /\ k.b[y].is_free = g.b[y].is_free
    BY DEF Poupa
  <2> QED BY <1>3, <1>7, <1>8
<1> QED BY <1>6, <1>8, <1>13, <1>14

(* Marking a block changes nothing else. *)
Marca_(g, a, f) == [g EXCEPT !.b[a].is_free = f]

LEMMA MarcaKeeps ==
  ASSUME NEW g, NEW topo \in Nat, Inteira(g, topo),
         NEW a \in Blocos(g), NEW f \in BOOLEAN,
         NEW k, k = Marca_(g, a, f)
  PROVE  /\ Inteira(k, topo) /\ Poupa(g, k, {a}) /\ Blocos(k) = Blocos(g)
         /\ k.b[a].size = g.b[a].size /\ k.b[a].is_free = f
<1>1. g \in Listas
  BY DEF Inteira
<1>2. a \in Unidades
  BY <1>1, BlockAre
<1>3. Marcou(g, a, f, k)
  BY <1>1, <1>2, MarcaDoes DEF Marca_
<1>4. k \in Listas /\ k.heap_start = g.heap_start /\ k.heap_end = g.heap_end /\ k.b[a].is_free = f
  BY <1>3 DEF Marcou
<1>5. ASSUME NEW y \in Unidades
      PROVE  /\ k.b[y].size = g.b[y].size /\ k.b[y].next = g.b[y].next /\ k.b[y].prev = g.b[y].prev
             /\ y # a => k.b[y].is_free = g.b[y].is_free
  BY <1>3 DEF Marcou
<1>6. Blocos(k) = Blocos(g)
  BY <1>5 DEF Blocos
<1>7. ASSUME NEW y \in Blocos(g) PROVE y \in Unidades /\ FimDe(k, y) = FimDe(g, y)
  BY <1>1, <1>5, BlockAre DEF FimDe
<1>8. ASSUME NEW y \in Blocos(k)
      PROVE  FimDe(k, y) <= topo /\ Seguinte(k, topo, y) /\ Anterior(k, y)
  <2>1. FimDe(g, y) <= topo /\ Seguinte(g, topo, y) /\ Anterior(g, y)
    BY <1>6, WholeParts
  <2>2. Seguinte(k, topo, y)
    BY <1>4, <1>5, <1>6, <1>7, <2>1 DEF Seguinte
  <2>3. Anterior(k, y)
    BY <1>4, <1>5, <1>6, <1>7, <2>1 DEF Anterior
  <2> QED BY <1>6, <1>7, <2>1, <2>2, <2>3
<1>9. \A y, z \in Blocos(k) : y < z => FimDe(k, y) <= z
  BY <1>6, <1>7 DEF Inteira
<1>10. Inteira(k, topo)
  <2>1. g.heap_start = CHUNK /\ CHUNK \in Blocos(g) /\ g.heap_end \in Blocos(g)
    BY WholeParts
  <2> QED BY <1>4, <1>6, <1>8, <1>9, <2>1, WholeFrom
<1>11. Poupa(g, k, {a})
  BY <1>5, <1>6, <1>7 DEF Poupa
<1> QED BY <1>2, <1>4, <1>5, <1>6, <1>10, <1>11

(* What a call leaves of the blocks in use: all but those of S. *)
Preserva(g, k, S) ==
  \A y \in Blocos(g) \ S : ~g.b[y].is_free =>
    /\ y \in Blocos(k) /\ ~k.b[y].is_free /\ k.b[y].size = g.b[y].size

(* free() frees one block and merges it with its neighbours. *)
LEMMA SoltaKeeps ==
  ASSUME NEW g, NEW topo \in Nat, Inteira(g, topo),
         NEW ptr, NEW a \in Blocos(g), a = ptr - HEADER,
         NEW k, k = Solta(g, ptr)
  PROVE  Inteira(k, topo) /\ Preserva(g, k, {a})
<1>1. PICK m : m = Marca_(g, a, TRUE)
  OBVIOUS
<1>2. /\ Inteira(m, topo) /\ Poupa(g, m, {a}) /\ Blocos(m) = Blocos(g)
  <2>1. PICK f \in BOOLEAN : f = TRUE
    OBVIOUS
  <2>2. m = Marca_(g, a, f)
    BY <1>1, <2>1
  <2> QED BY <2>2, MarcaKeeps
<1>3. PICK x : x = m.b[a].next
  OBVIOUS
<1>4. PICK g1 : g1 = IF LivreEm(m, x) THEN Absorve(m, a, x) ELSE m
  OBVIOUS
<1>5. Inteira(g1, topo) /\ Preserva(m, g1, {a}) /\ a \in Blocos(g1)
  <2>1. CASE LivreEm(m, x)
    <3>1. x # 0 /\ m.b[x].is_free
      BY <2>1 DEF LivreEm
    <3>2. Inteira(g1, topo) /\ Blocos(g1) = Blocos(m) \ {x} /\ Poupa(m, g1, {a, x})
      <4>1. Inteira(m, topo) /\ a \in Blocos(m) /\ x = m.b[a].next /\ x # 0 /\ g1 = Absorve(m, a, x)
        BY <1>2, <1>3, <1>4, <2>1, <3>1
      <4> QED BY ONLY <4>1, AbsorveKeeps, topo \in Nat
    <3>3. x # a
      BY <1>2, <1>3, <3>1, NextBlock, BlockAre DEF Inteira
    <3> QED BY <1>2, <3>1, <3>2, <3>3 DEF Preserva, Poupa
  <2>2. CASE ~LivreEm(m, x)
    BY <1>2, <1>4, <2>2 DEF Preserva
  <2> QED BY <2>1, <2>2
<1>6. PICK p : p = g1.b[a].prev
  OBVIOUS
<1>7. k = IF LivreEm(g1, p) THEN Absorve(g1, p, a) ELSE g1
  BY <1>1, <1>3, <1>4, <1>6, SMTT(30) DEF Solta, Junta, Marca_
<1>8. Inteira(k, topo) /\ Preserva(g1, k, {a})
  <2>1. CASE LivreEm(g1, p)
    <3>1. p # 0 /\ g1.b[p].is_free
      BY <2>1 DEF LivreEm
    <3>2. p \in Blocos(g1) /\ g1.b[p].next = a /\ a # 0
      <4>1. Inteira(g1, topo) /\ a \in Blocos(g1) /\ p = g1.b[a].prev /\ p # 0
      BY <1>5, <1>6, <3>1
    <4> QED BY ONLY <4>1, PreviousBlock, topo \in Nat
    <3>3. Inteira(k, topo) /\ Poupa(g1, k, {p, a})
      <4>1. Inteira(g1, topo) /\ p \in Blocos(g1) /\ a = g1.b[p].next /\ a # 0 /\ k = Absorve(g1, p, a)
        BY <1>5, <1>7, <2>1, <3>2
      <4> QED BY ONLY <4>1, AbsorveKeeps, topo \in Nat
    <3> QED BY <3>1, <3>3 DEF Preserva, Poupa
  <2>2. CASE ~LivreEm(g1, p)
    BY <1>5, <1>7, <2>2 DEF Preserva
  <2> QED BY <2>1, <2>2
<1>9. Preserva(g, m, {a})
  BY <1>2 DEF Preserva, Poupa
<1> QED BY <1>5, <1>8, <1>9 DEF Preserva

-----------------------------------------------------------------------------
(* The regions of the application and its data *)

Regioes == [id : Ids, ptr : Unidades, tam : Nat, cheio : Nat]

(* Region r lives in a block in use of list g, which is large enough. *)
Mora(g, r) ==
  /\ r \in Regioes /\ r.cheio <= r.tam
  /\ r.ptr - HEADER \in Blocos(g)
  /\ ~g.b[r.ptr - HEADER].is_free
  /\ r.tam <= g.b[r.ptr - HEADER].size

(* The data of r is there. *)
Guardado(m, r) == \A j \in 0..(r.cheio - 1) : m[r.ptr + j] = r.id

(* The inductive invariant: the list is whole, what is below the break is mapped, each  *)
(* region has a block in use of its own, and its data.                                  *)
HeapInv ==
  /\ Inteira(h, brk)
  /\ brk \in CHUNK..Limite
  /\ mapeadas \subseteq 1..MaxPaginas /\ Paginas(CHUNK, brk) \subseteq mapeadas
  /\ \A r \in regioes : Mora(h, r) /\ Guardado(mem, r)
  /\ \A r, s \in regioes : r.ptr = s.ptr => r = s

LEMMA RegionTypes ==
  ASSUME NEW g, NEW r, Mora(g, r)
  PROVE  /\ r.id \in Ids /\ r.ptr \in Unidades /\ r.tam \in Nat /\ r.cheio \in Nat
         /\ r.cheio <= r.tam /\ r.ptr \in Nat
BY UnitsAre DEF Mora, Regioes

(* The units of a region lie in the payload of its block. *)
LEMMA RegionUnits ==
  ASSUME NEW g, NEW topo \in Nat, Inteira(g, topo), topo <= Limite,
         NEW r, Mora(g, r), NEW j \in 0..(r.cheio - 1),
         NEW a, a = r.ptr - HEADER
  PROVE  /\ r.ptr + j \in Unidades /\ r.ptr + j \in Nat /\ a \in Blocos(g)
         /\ a + 2 <= r.ptr + j /\ r.ptr + j < FimDe(g, a) /\ r.ptr = a + 2
<1>1. a \in Blocos(g) /\ r.tam <= g.b[a].size /\ g \in Listas
  BY DEF Mora, Inteira
<1>2. r.ptr \in Nat /\ r.cheio \in Nat /\ r.tam \in Nat /\ r.cheio <= r.tam
  BY RegionTypes
<1>3. /\ a \in Nat /\ a >= CHUNK /\ g.b[a].size \in Nat /\ FimDe(g, a) = a + 2 + g.b[a].size
      /\ FimDe(g, a) <= topo
  BY <1>1, BlockAre, WholeParts
<1>4. r.ptr = a + 2
  BY <1>2, <1>3 DEF HEADER
<1>5. r.ptr + j \in Nat /\ a + 2 <= r.ptr + j /\ r.ptr + j < FimDe(g, a)
  BY <1>1, <1>2, <1>3, <1>4
<1>6. CHUNK <= r.ptr + j /\ r.ptr + j < Limite
  BY <1>3, <1>5, UnitsAre
<1> QED BY <1>1, <1>4, <1>5, <1>6, UnitsAre

(* A unit of a block's payload is in no header and in no other block's payload. *)
LEMMA PayloadIsOwn ==
  ASSUME NEW g, NEW topo \in Nat, Inteira(g, topo),
         NEW a \in Blocos(g), NEW u \in Nat, a + 2 <= u, u < FimDe(g, a),
         NEW c \in Blocos(g)
  PROVE  /\ u \notin c..(c + HEADER - 1)
         /\ c # a => ~(c + 2 <= u /\ u < FimDe(g, c))
<1>1. /\ a \in Nat /\ FimDe(g, a) = a + 2 + g.b[a].size /\ g.b[a].size \in Nat
      /\ c \in Nat /\ FimDe(g, c) = c + 2 + g.b[c].size /\ g.b[c].size \in Nat
  BY BlockAre DEF Inteira
<1>2. (a < c => FimDe(g, a) <= c) /\ (c < a => FimDe(g, c) <= a)
  BY DEF Inteira
<1>3. CASE c = a
  BY <1>1, <1>3 DEF HEADER
<1>4. CASE c # a
  BY <1>1, <1>2, <1>4 DEF HEADER
<1> QED BY <1>3, <1>4

(* Writing the headers of list g and zeroing pages above unit u leaves u alone. *)
LEMMA EscritaSpares ==
  ASSUME NEW g, NEW topo \in Nat, Inteira(g, topo),
         NEW a \in Blocos(g), NEW u \in Unidades, u \in Nat, a + 2 <= u, u < FimDe(g, a),
         NEW nps, \A p \in nps : p \in Nat /\ u < p * CHUNK,
         NEW m
  PROVE  Escrita(m, g, nps)[u] = m[u]
<1>1. u \notin UNION {c..(c + HEADER - 1) : c \in Blocos(g)}
  BY PayloadIsOwn
<1>2. (u \div CHUNK) \notin nps
  <2>1. SUFFICES ASSUME NEW p \in nps, p = u \div CHUNK PROVE FALSE
    OBVIOUS
  <2>2. p \in Nat /\ u < p * CHUNK
    OBVIOUS
  <2>3. CHUNK \in Nat /\ CHUNK > 0
    BY UnitsAre
  <2>4. p * CHUNK <= u
    BY <2>1, <2>2, <2>3
  <2>5. p * CHUNK \in Nat
    BY <2>2, <2>3
  <2> QED BY <2>2, <2>4, <2>5
<1> QED BY <1>1, <1>2 DEF Escrita

(* A region lives on in a list that preserves its block. *)
LEMMA RegionStays ==
  ASSUME NEW g, NEW k, NEW S, Preserva(g, k, S), NEW r, Mora(g, r), r.ptr - HEADER \notin S
  PROVE  Mora(k, r)
<1>1. PICK a : a = r.ptr - HEADER
  OBVIOUS
<1>2. a \in Blocos(g) /\ ~g.b[a].is_free /\ r.tam <= g.b[a].size /\ r \in Regioes /\ r.cheio <= r.tam
  BY <1>1 DEF Mora
<1>3. a \in Blocos(k) /\ ~k.b[a].is_free /\ k.b[a].size = g.b[a].size
  BY <1>1, <1>2 DEF Preserva
<1> QED BY <1>1, <1>2, <1>3 DEF Mora

LEMMA HeapInit == UmInit => HeapInv
<1> SUFFICES ASSUME UmInit PROVE HeapInv
  OBVIOUS
<1>1. /\ h.b = [a \in Unidades |-> Zero] /\ h.heap_start = 0 /\ h.heap_end = 0
      /\ h = [b |-> h.b, heap_start |-> h.heap_start, heap_end |-> h.heap_end]
      /\ brk = CHUNK /\ mapeadas = {} /\ regioes = {}
  BY DEF UmInit
<1>2. Zero \in Cabecalhos /\ Zero.size = 0
  <2>1. FALSE \in BOOLEAN
    OBVIOUS
  <2>2. Zero \in Cabecalhos
    BY <2>1, ZeroIs, CabIs
  <2> QED BY <2>2, ZeroIs DEF Cab
<1>3. h \in Listas
  BY <1>1, <1>2, ListFrom
<1>4. Blocos(h) = {}
  BY <1>1, <1>2 DEF Blocos
<1>5. Inteira(h, brk)
  BY <1>1, <1>3, <1>4 DEF Inteira
<1>6. Paginas(CHUNK, brk) = {}
  <2> SUFFICES ASSUME NEW p \in Paginas(CHUNK, brk) PROVE FALSE
    OBVIOUS
  <2>1. p \in Nat /\ p * CHUNK >= CHUNK /\ p * CHUNK < CHUNK
    BY <1>1, UnitsAre DEF Paginas
  <2>2. p * CHUNK \in Nat
    BY <2>1, UnitsAre
  <2> QED BY <2>1, <2>2, UnitsAre
<1> QED BY <1>1, <1>5, <1>6, UnitsAre DEF HeapInv

-----------------------------------------------------------------------------
(* Asking for memory *)

LEMMA AumentoIs ==
  ASSUME NEW n \in Nat, n > 0
  PROVE  /\ Aumento(n) - HEADER \in Nat /\ Aumento(n) - HEADER >= n /\ Aumento(n) \in Nat
         /\ brk \in Nat => brk + HEADER + (Aumento(n) - HEADER) = brk + Aumento(n)
BY UnitsAre DEF Aumento, HEADER

LEMMA MinExists ==
  ASSUME NEW T, T \subseteq Nat, T # {}
  PROVE  \E a \in T : \A x \in T : a <= x
<1>1. PICK a \in T : \A y \in T : ~(<<y, a>> \in OpToRel(<, Nat))
  BY NatLessThanWellFounded, WFMin, Zenon
<1>2. \A y \in T : ~(y < a)
  BY <1>1, Zenon DEF OpToRel
<1> QED BY <1>2

(* First fit finds a free block that is large enough, or none. *)
LEMMA CabeGives ==
  ASSUME NEW g \in Listas, NEW n \in Nat, Cabe(g, n) # 0
  PROVE  /\ Cabe(g, n) \in Blocos(g)
         /\ g.b[Cabe(g, n)].is_free /\ g.b[Cabe(g, n)].size >= n
<1> DEFINE as == {a \in Blocos(g) : g.b[a].is_free /\ g.b[a].size >= n}
<1>1. as # {} /\ Cabe(g, n) = CHOOSE a \in as : \A x \in as : a <= x
  BY DEF Cabe
<1>2. as \subseteq Nat
  BY BlockAre
<1>3. \E a \in as : \A x \in as : a <= x
  BY <1>1, <1>2, MinExists
<1>4. Cabe(g, n) \in as
  BY <1>1, <1>3
<1> QED BY <1>4

(* What a request o leaves: a whole list with every block in use, the data of all of    *)
(* them, and, when it was granted, a block for it that was nobody's.                    *)
Obtido(n, o) ==
  /\ Inteira(o.h, o.brk) /\ o.brk \in CHUNK..Limite
  /\ o.mapeadas \subseteq 1..MaxPaginas /\ Paginas(CHUNK, o.brk) \subseteq o.mapeadas
  /\ Preserva(h, o.h, {})
  /\ \A a \in Blocos(h) : ~h.b[a].is_free =>
        \A u \in Unidades : a + 2 <= u /\ u < FimDe(h, a) => o.mem[u] = mem[u]
  /\ o.ptr # 0 => /\ o.ptr \in Unidades /\ o.ptr - HEADER \in Blocos(o.h)
                  /\ ~o.h.b[o.ptr - HEADER].is_free /\ o.h.b[o.ptr - HEADER].size >= n
                  /\ o.ptr - HEADER \in Blocos(h) => h.b[o.ptr - HEADER].is_free

(* Writing headers and zeroing pages above the break keeps what is in use. *)
LEMMA MemSpared ==
  ASSUME NEW topo \in Nat, brk \in CHUNK..Limite, Inteira(h, brk), NEW g, Inteira(g, topo), Preserva(h, g, {}),
         NEW nps, \A p \in nps : p \in Nat /\ brk <= p * CHUNK,
         NEW a \in Blocos(h), ~h.b[a].is_free,
         NEW u \in Unidades, a + 2 <= u, u < FimDe(h, a)
  PROVE  Escrita(mem, g, nps)[u] = mem[u]
<1>1. a \in Blocos(g) /\ g.b[a].size = h.b[a].size
  BY DEF Preserva
<1>2. FimDe(g, a) = FimDe(h, a)
  BY <1>1 DEF FimDe
<1>3. FimDe(h, a) <= brk /\ FimDe(h, a) \in Nat /\ u \in Nat /\ brk \in Nat
  BY WholeParts, BlockAre, UnitsAre
<1>4. \A p \in nps : p \in Nat /\ u < p * CHUNK
  <2> SUFFICES ASSUME NEW p \in nps PROVE p \in Nat /\ u < p * CHUNK
    OBVIOUS
  <2>1. PICK q \in Nat : q = p * CHUNK
    BY UnitsAre
  <2> QED BY <1>3, <2>1
<1> QED BY <1>1, <1>2, <1>3, <1>4, EscritaSpares

LEMMA ObtemGives ==
  ASSUME HeapInv, NEW n \in Nat, n > 0, NEW o \in Obtem(n)
  PROVE  Obtido(n, o)
<1>1. /\ Inteira(h, brk) /\ h \in Listas /\ brk \in CHUNK..Limite /\ brk \in Nat /\ brk <= Limite /\ CHUNK <= brk
      /\ mapeadas \subseteq 1..MaxPaginas /\ Paginas(CHUNK, brk) \subseteq mapeadas
  BY UnitsAre DEF HeapInv, Inteira
<1>2. PICK a : a = Cabe(h, n)
  OBVIOUS
<1>3. PICK novo \in Nat : novo = brk + Aumento(n)
  BY <1>1, AumentoIs
<1>4. PICK ps : ps = NovasPaginas(brk, novo)
  OBVIOUS
<1>5. \A p \in ps : p \in Nat /\ brk <= p * CHUNK /\ p \in 1..MaxPaginas
  <2>1. \A p \in ps : p \in 1..MaxPaginas /\ p * CHUNK >= brk
    BY <1>4 DEF NovasPaginas, Paginas
  <2>2. ASSUME NEW p \in ps PROVE brk <= p * CHUNK
    <3>1. PICK q \in Nat : q = p * CHUNK
      BY <2>1, UnitsAre
    <3> QED BY <1>1, <2>1, <3>1
  <2> QED BY <2>1, <2>2, UnitsAre
<1>6. CASE a # 0
  <2>1. a \in Blocos(h) /\ h.b[a].is_free /\ h.b[a].size >= n
    BY <1>1, <1>2, <1>6, CabeGives
  <2>2. PICK h0 : h0 = Divide(h, a, n)
    OBVIOUS
  <2>3. /\ Inteira(h0, brk) /\ Preserva(h, h0, {a}) /\ a \in Blocos(h0) /\ h0.b[a].size >= n
    <3>1. /\ Inteira(h0, brk) /\ Poupa(h, h0, {a}) /\ a \in Blocos(h0) /\ h0.b[a].size >= n
      BY <1>1, <2>1, <2>2, DivideKeeps
    <3> QED BY <3>1 DEF Poupa, Preserva
  <2>4. PICK f \in BOOLEAN : f = FALSE
    OBVIOUS
  <2>5. PICK h1 : h1 = Marca_(h0, a, f)
    OBVIOUS
  <2>6. /\ Inteira(h1, brk) /\ Poupa(h0, h1, {a}) /\ Blocos(h1) = Blocos(h0)
        /\ h1.b[a].size = h0.b[a].size /\ h1.b[a].is_free = f
    BY <1>1, <2>3, <2>5, MarcaKeeps
  <2>7. Preserva(h, h1, {})
    <3>1. Preserva(h, h1, {a})
      BY <2>3, <2>6 DEF Poupa, Preserva
    <3> QED BY <2>1, <3>1 DEF Preserva
  <2>8. o = [ptr |-> a + HEADER, h |-> h1, mem |-> Escrita(mem, h1, {}), brk |-> brk,
             mapeadas |-> mapeadas \cup {}]
    <3>1. h1 = [Divide(h, a, n) EXCEPT !.b[a].is_free = FALSE]
      BY <2>2, <2>4, <2>5 DEF Marca_
    <3> QED BY <1>2, <1>6, <3>1 DEF Obtem
  <2>9. a + HEADER \in Unidades /\ (a + HEADER) - HEADER = a
    <3>1. a \in Nat /\ a >= CHUNK /\ FimDe(h, a) = a + 2 + h.b[a].size /\ FimDe(h, a) <= brk /\ h.b[a].size \in Nat
      BY <1>1, <2>1, BlockAre, WholeParts
    <3>2. a + 2 \in Nat /\ CHUNK <= a + 2 /\ a + 2 < Limite
      BY <1>1, <2>1, <3>1, UnitsAre
    <3> QED BY <3>1, <3>2, UnitsAre DEF HEADER
  <2>10. ASSUME NEW c \in Blocos(h), ~h.b[c].is_free, NEW u \in Unidades, c + 2 <= u, u < FimDe(h, c)
         PROVE  o.mem[u] = mem[u]
    BY <1>1, <2>6, <2>7, <2>8, <2>10, MemSpared
  <2>11. o.ptr = a + HEADER /\ o.h = h1 /\ o.brk = brk /\ o.mapeadas = mapeadas
    BY <2>8
  <2>12. ~h1.b[a].is_free /\ h1.b[a].size >= n /\ a \in Blocos(h1)
    BY <2>3, <2>4, <2>6
  <2>13. /\ Inteira(o.h, o.brk) /\ o.brk \in CHUNK..Limite /\ Preserva(h, o.h, {})
         /\ o.mapeadas \subseteq 1..MaxPaginas /\ Paginas(CHUNK, o.brk) \subseteq o.mapeadas
    BY <1>1, <2>6, <2>7, <2>11
  <2>14. /\ o.ptr \in Unidades /\ o.ptr - HEADER \in Blocos(o.h)
         /\ ~o.h.b[o.ptr - HEADER].is_free /\ o.h.b[o.ptr - HEADER].size >= n
         /\ h.b[o.ptr - HEADER].is_free
    <3>1. o.ptr - HEADER = a /\ o.ptr \in Unidades
      BY <2>9, <2>11, Zenon
    <3> QED BY <2>1, <2>11, <2>12, <3>1, Zenon
  <2> QED BY <2>10, <2>13, <2>14, Zenon DEF Obtido
<1>7. ASSUME NEW z, z \subseteq ps, o = [ptr |-> 0, h |-> h, mem |-> Escrita(mem, h, z), brk |-> brk,
                                        mapeadas |-> mapeadas \cup z]
      PROVE  Obtido(n, o)
  <2>1. o.ptr = 0 /\ o.h = h /\ o.brk = brk /\ o.mapeadas = mapeadas \cup z /\ o.mem = Escrita(mem, h, z)
    BY <1>7
  <2>2. Preserva(h, h, {})
    BY DEF Preserva
  <2>3. \A p \in z : p \in Nat /\ brk <= p * CHUNK /\ p \in 1..MaxPaginas
    BY <1>5, <1>7
  <2>4. ASSUME NEW c \in Blocos(h), ~h.b[c].is_free, NEW u \in Unidades, c + 2 <= u, u < FimDe(h, c)
        PROVE  o.mem[u] = mem[u]
    BY <1>1, <2>1, <2>2, <2>3, <2>4, MemSpared
  <2>5. o.mapeadas \subseteq 1..MaxPaginas /\ Paginas(CHUNK, brk) \subseteq o.mapeadas
    BY <1>1, <2>1, <2>3
  <2> QED BY <1>1, <2>1, <2>2, <2>4, <2>5 DEF Obtido
<1>8. ASSUME novo <= Limite,
             NEW h2, h2 = Divide(Ancora(h, brk, Aumento(n) - HEADER), brk, n),
             o = [ptr |-> brk + HEADER, h |-> h2, mem |-> Escrita(mem, h2, ps), brk |-> novo,
                  mapeadas |-> mapeadas \cup ps]
      PROVE  Obtido(n, o)
  <2>1. /\ o.ptr = brk + HEADER /\ o.h = h2 /\ o.brk = novo /\ o.mapeadas = mapeadas \cup ps
        /\ o.mem = Escrita(mem, h2, ps)
    BY <1>8
  <2>2. PICK size \in Nat : size = Aumento(n) - HEADER /\ size >= n /\ size > 0 /\ novo = brk + HEADER + size
    BY <1>1, <1>3, AumentoIs
  <2>3. brk \in Unidades /\ brk + HEADER \in Unidades /\ (brk + HEADER) - HEADER = brk
    BY <1>1, <1>8, <2>2, UnitsAre DEF HEADER
  <2>4. PICK h1 : h1 = Ancora(h, brk, size)
    OBVIOUS
  <2>5. /\ Inteira(h1, novo) /\ Poupa(h, h1, {}) /\ brk \notin Blocos(h)
        /\ brk \in Blocos(h1) /\ h1.b[brk].size = size /\ ~h1.b[brk].is_free
    BY <1>1, <2>2, <2>3, <2>4, AncoraKeeps
  <2>6. /\ Inteira(h2, novo) /\ Poupa(h1, h2, {brk}) /\ brk \in Blocos(h2)
        /\ h2.b[brk].size >= n /\ h2.b[brk].is_free = h1.b[brk].is_free
    <3>1. h2 = Divide(h1, brk, n) /\ h1.b[brk].size >= n
      BY <1>8, <2>2, <2>4, <2>5
    <3>2. novo \in Nat /\ novo <= Limite /\ Inteira(h1, novo) /\ brk \in Blocos(h1)
      BY <1>8, <2>5
    <3> QED BY ONLY <3>1, <3>2, n \in Nat, n > 0, DivideKeeps
  <2>7. Preserva(h, h2, {})
    BY <2>5, <2>6 DEF Poupa, Preserva
  <2>8. ASSUME NEW c \in Blocos(h), ~h.b[c].is_free, NEW u \in Unidades, c + 2 <= u, u < FimDe(h, c)
        PROVE  o.mem[u] = mem[u]
    <3>1. Escrita(mem, h2, ps)[u] = mem[u]
      <4>1. novo \in Nat /\ brk \in CHUNK..Limite /\ Inteira(h, brk) /\ Inteira(h2, novo) /\ Preserva(h, h2, {})
        BY <1>1, <2>6, <2>7
      <4>2. \A p \in ps : p \in Nat /\ brk <= p * CHUNK
        BY <1>5
      <4> QED BY <2>8, <4>1, <4>2, MemSpared, ZenonT(30)
    <3> QED BY <2>1, <3>1
  <2>9. o.mapeadas \subseteq 1..MaxPaginas /\ Paginas(CHUNK, novo) \subseteq o.mapeadas
    <3>1. ASSUME NEW p \in Paginas(CHUNK, novo) PROVE p \in mapeadas \cup ps
      <4>1. p \in 1..MaxPaginas /\ p * CHUNK >= CHUNK /\ p * CHUNK < novo
        BY DEF Paginas
      <4>2. PICK q \in Nat : q = p * CHUNK
        BY <4>1, UnitsAre
      <4>3. CASE q < brk
        <5>1. p * CHUNK < brk
          BY <4>2, <4>3
        <5>2. p \in Paginas(CHUNK, brk)
          BY <4>1, <5>1 DEF Paginas
        <5> QED BY <1>1, <5>2
      <4>4. CASE ~(q < brk)
        <5>1. p * CHUNK >= brk
          BY <1>1, <4>2, <4>4
        <5> QED BY <1>4, <4>1, <5>1 DEF NovasPaginas, Paginas
      <4> QED BY <4>3, <4>4
    <3> QED BY <1>1, <1>5, <2>1, <3>1
  <2>10. novo \in CHUNK..Limite
    BY <1>1, <1>8, <2>2, UnitsAre DEF HEADER
  <2>11. /\ Inteira(o.h, o.brk) /\ o.brk \in CHUNK..Limite /\ Preserva(h, o.h, {})
         /\ o.mapeadas \subseteq 1..MaxPaginas /\ Paginas(CHUNK, o.brk) \subseteq o.mapeadas
    BY <2>1, <2>6, <2>7, <2>9, <2>10
  <2>12. /\ o.ptr \in Unidades /\ o.ptr - HEADER \in Blocos(o.h)
         /\ ~o.h.b[o.ptr - HEADER].is_free /\ o.h.b[o.ptr - HEADER].size >= n
         /\ o.ptr - HEADER \notin Blocos(h)
    <3>1. o.ptr - HEADER = brk /\ o.ptr \in Unidades
      BY <2>1, <2>3, Zenon
    <3>2. ~h2.b[brk].is_free
      BY <2>5, <2>6
    <3> QED BY <2>1, <2>5, <2>6, <3>1, <3>2, Zenon
  <2> QED BY <2>8, <2>11, <2>12, Zenon DEF Obtido
<1>9. CASE a = 0
  <2>1. PICK h2 : h2 = Divide(Ancora(h, brk, Aumento(n) - HEADER), brk, n)
    OBVIOUS
  <2>2. \/ \E z : /\ z \subseteq ps
                  /\ o = [ptr |-> 0, h |-> h, mem |-> Escrita(mem, h, z), brk |-> brk,
                          mapeadas |-> mapeadas \cup z]
        \/ /\ novo <= Limite
           /\ o = [ptr |-> brk + HEADER, h |-> h2, mem |-> Escrita(mem, h2, ps), brk |-> novo,
                   mapeadas |-> mapeadas \cup ps]
    <3>1. \/ \E q \in ps : o = [ptr |-> 0, h |-> h, mem |-> Escrita(mem, h, {p \in ps : p < q}),
                                brk |-> brk, mapeadas |-> mapeadas \cup {p \in ps : p < q}]
          \/ o = [ptr |-> 0, h |-> h, mem |-> Escrita(mem, h, ps), brk |-> brk,
                  mapeadas |-> mapeadas \cup ps]
          \/ /\ novo <= Limite
             /\ o = [[ptr |-> brk + HEADER, h |-> h2, mem |-> Escrita(mem, h2, ps), brk |-> brk,
                      mapeadas |-> mapeadas \cup ps] EXCEPT !.brk = novo]
      BY <1>2, <1>3, <1>4, <1>9, <2>1, Zenon DEF Obtem
    <3>2. [[ptr |-> brk + HEADER, h |-> h2, mem |-> Escrita(mem, h2, ps), brk |-> brk,
            mapeadas |-> mapeadas \cup ps] EXCEPT !.brk = novo]
          = [ptr |-> brk + HEADER, h |-> h2, mem |-> Escrita(mem, h2, ps), brk |-> novo,
             mapeadas |-> mapeadas \cup ps]
      OBVIOUS
    <3>3. \A q : {p \in ps : p < q} \subseteq ps
      OBVIOUS
    <3> QED BY <3>1, <3>2, <3>3
  <2> QED BY <1>7, <1>8, <2>1, <2>2
<1> QED BY <1>6, <1>9

-----------------------------------------------------------------------------
(* The steps *)

LEMMA InvParts ==
  ASSUME HeapInv
  PROVE  /\ Inteira(h, brk) /\ h \in Listas /\ brk \in CHUNK..Limite /\ brk \in Nat /\ brk <= Limite
         /\ mapeadas \subseteq 1..MaxPaginas /\ Paginas(CHUNK, brk) \subseteq mapeadas
BY UnitsAre DEF HeapInv, Inteira

LEMMA PreencheIs ==
  ASSUME NEW m, NEW p \in Nat, NEW n \in Nat, NEW id, NEW u \in Unidades
  PROVE  /\ p <= u /\ u < p + n => Preenche(m, p, n, id)[u] = id
         /\ ~(p <= u /\ u < p + n) => Preenche(m, p, n, id)[u] = m[u]
BY UnitsAre DEF Preenche

LEMMA Filled ==
  ASSUME NEW m, NEW p \in Nat, NEW n \in Nat, NEW id, NEW u \in Unidades, p <= u, u < p + n,
         NEW z, z = Preenche(m, p, n, id)
  PROVE  z[u] = id
BY UnitsAre DEF Preenche

(* After a request, what the application holds is still its own. *)
LEMMA RegionsAfterObtem ==
  ASSUME HeapInv, NEW n \in Nat, n > 0, NEW o, Obtido(n, o), NEW r \in regioes
  PROVE  Mora(o.h, r) /\ Guardado(o.mem, r)
<1>1. Mora(h, r) /\ Guardado(mem, r)
  BY DEF HeapInv
<1>2. Preserva(h, o.h, {})
  BY DEF Obtido
<1>3. Mora(o.h, r)
  BY <1>1, <1>2, RegionStays
<1>4. ASSUME NEW j \in 0..(r.cheio - 1) PROVE o.mem[r.ptr + j] = r.id
  <2>1. PICK a : a = r.ptr - HEADER
    OBVIOUS
  <2>2. /\ r.ptr + j \in Unidades /\ a \in Blocos(h)
        /\ a + 2 <= r.ptr + j /\ r.ptr + j < FimDe(h, a)
    BY <1>1, <2>1, InvParts, RegionUnits
  <2>3. ~h.b[a].is_free
    BY <1>1, <2>1 DEF Mora
  <2>4. o.mem[r.ptr + j] = mem[r.ptr + j]
    BY <2>2, <2>3 DEF Obtido
  <2> QED BY <1>1, <2>4 DEF Guardado
<1> QED BY <1>3, <1>4 DEF Guardado

(* Filling a block leaves alone the regions of the others. *)
LEMMA FillSpares ==
  ASSUME NEW g, NEW topo \in Nat, Inteira(g, topo), topo <= Limite,
         NEW c \in Blocos(g), NEW p, p = c + HEADER, NEW n \in Nat, n <= g.b[c].size,
         NEW r, Mora(g, r), r.ptr # p, NEW m, NEW id, NEW j \in 0..(r.cheio - 1)
  PROVE  Preenche(m, p, n, id)[r.ptr + j] = m[r.ptr + j]
<1>1. PICK a : a = r.ptr - HEADER
  OBVIOUS
<1>2. /\ r.ptr + j \in Unidades /\ r.ptr + j \in Nat /\ a \in Blocos(g)
      /\ a + 2 <= r.ptr + j /\ r.ptr + j < FimDe(g, a) /\ r.ptr = a + 2
  BY <1>1, RegionUnits
<1>3. /\ c \in Nat /\ p = c + 2 /\ p \in Nat /\ g.b[c].size \in Nat /\ a \in Nat
      /\ FimDe(g, c) = c + 2 + g.b[c].size
  BY <1>2, BlockAre DEF HEADER, Inteira
<1>4. c # a
  BY <1>2, <1>3
<1>5. ~(c + 2 <= r.ptr + j /\ r.ptr + j < FimDe(g, c))
  BY <1>2, <1>4, PayloadIsOwn
<1>6. ~(p <= r.ptr + j /\ r.ptr + j < p + n)
  BY <1>2, <1>3, <1>5
<1> QED BY <1>2, <1>3, <1>6, PreencheIs

LEMMA MallocStep == HeapInv /\ Malloc => HeapInv'
<1> SUFFICES ASSUME HeapInv, Malloc PROVE HeapInv'
  OBVIOUS
<1>1. PICK n \in Pedidos, id \in Ids : \E o \in Obtem(n) :
        /\ h' = o.h /\ brk' = o.brk /\ mapeadas' = o.mapeadas
        /\ mem' = IF o.ptr = 0 THEN o.mem ELSE Preenche(o.mem, o.ptr, n, id)
        /\ regioes' = IF o.ptr = 0 THEN regioes
                      ELSE regioes \cup {[id |-> id, ptr |-> o.ptr, tam |-> n, cheio |-> n]}
  BY DEF Malloc
<1>2. n \in Nat /\ n > 0
  BY PedidosAssumption
<1>3. PICK o \in Obtem(n) :
        /\ h' = o.h /\ brk' = o.brk /\ mapeadas' = o.mapeadas
        /\ mem' = IF o.ptr = 0 THEN o.mem ELSE Preenche(o.mem, o.ptr, n, id)
        /\ regioes' = IF o.ptr = 0 THEN regioes
                      ELSE regioes \cup {[id |-> id, ptr |-> o.ptr, tam |-> n, cheio |-> n]}
  BY <1>1
<1>4. Obtido(n, o)
  BY <1>2, ObtemGives
<1>5. /\ Inteira(h', brk') /\ brk' \in CHUNK..Limite /\ brk' \in Nat /\ brk' <= Limite
      /\ mapeadas' \subseteq 1..MaxPaginas /\ Paginas(CHUNK, brk') \subseteq mapeadas'
  BY <1>3, <1>4, UnitsAre DEF Obtido
<1>6. ASSUME NEW r \in regioes PROVE Mora(h', r) /\ Guardado(o.mem, r)
  BY <1>2, <1>3, <1>4, RegionsAfterObtem
<1>7. CASE o.ptr = 0
  <2>1. mem' = o.mem /\ regioes' = regioes
    BY <1>3, <1>7
  <2>2. \A r \in regioes' : Mora(h', r) /\ Guardado(mem', r)
    BY <1>6, <2>1
  <2>3. \A r, s \in regioes' : r.ptr = s.ptr => r = s
    BY <2>1 DEF HeapInv
  <2> QED BY <1>5, <2>2, <2>3 DEF HeapInv
<1>8. CASE o.ptr # 0
  <2>1. PICK q : q = [id |-> id, ptr |-> o.ptr, tam |-> n, cheio |-> n]
    OBVIOUS
  <2>2. mem' = Preenche(o.mem, o.ptr, n, id) /\ regioes' = regioes \cup {q}
    BY <1>3, <1>8, <2>1
  <2>3. PICK a : a = o.ptr - HEADER
    OBVIOUS
  <2>4. /\ o.ptr \in Unidades /\ a \in Blocos(h') /\ ~h'.b[a].is_free /\ h'.b[a].size >= n
        /\ a \in Blocos(h) => h.b[a].is_free
    BY <1>3, <1>4, <1>8, <2>3 DEF Obtido
  <2>5. o.ptr \in Nat /\ o.ptr = a + HEADER /\ h'.b[a].size \in Nat
    <3>1. o.ptr \in Nat
      BY <2>4, UnitsAre
    <3>2. PICK g : g = h' /\ g \in Listas /\ a \in Blocos(g)
      BY <1>5, <2>4 DEF Inteira
    <3>3. a \in Nat /\ g.b[a].size \in Nat
      BY <3>2, BlockAre
    <3> QED BY <2>3, <3>1, <3>2, <3>3 DEF HEADER
  <2>6. q.id = id /\ q.ptr = o.ptr /\ q.tam = n /\ q.cheio = n /\ q \in Regioes
    BY <1>2, <2>1, <2>4 DEF Regioes
  <2>7. Mora(h', q)
    BY <1>2, <2>3, <2>4, <2>5, <2>6 DEF Mora
  <2>8. Guardado(mem', q)
    <3> SUFFICES ASSUME NEW j \in 0..(q.cheio - 1) PROVE mem'[q.ptr + j] = q.id
      BY DEF Guardado
    <3>1. q.ptr + j \in Unidades
      BY <1>5, <2>7, RegionUnits
    <3>2. o.ptr <= q.ptr + j /\ q.ptr + j < o.ptr + n
      BY <1>2, <2>5, <2>6
    <3>3. PICK u \in Unidades : u = q.ptr + j /\ o.ptr <= u /\ u < o.ptr + n
      BY <3>1, <3>2
    <3>4. mem'[u] = id
      BY <1>2, <2>2, <2>5, <3>3, Filled
    <3> QED BY <2>6, <3>3, <3>4
  <2>9. ASSUME NEW r \in regioes PROVE r.ptr # o.ptr
    <3>1. r.ptr - HEADER \in Blocos(h) /\ ~h.b[r.ptr - HEADER].is_free
      BY DEF HeapInv, Mora
    <3> QED BY <2>3, <2>4, <3>1
  <2>10. ASSUME NEW r \in regioes PROVE Guardado(mem', r)
    <3> SUFFICES ASSUME NEW j \in 0..(r.cheio - 1) PROVE mem'[r.ptr + j] = r.id
      BY DEF Guardado
    <3>1. o.mem[r.ptr + j] = r.id
      BY <1>6 DEF Guardado
    <3>2. Preenche(o.mem, o.ptr, n, id)[r.ptr + j] = o.mem[r.ptr + j]
      <4>1. Mora(h', r) /\ r.ptr # o.ptr /\ n <= h'.b[a].size
        BY <1>2, <1>6, <2>4, <2>5, <2>9
      <4> QED BY <1>2, <1>5, <2>4, <2>5, <4>1, FillSpares
    <3> QED BY <2>2, <3>1, <3>2
  <2>11. \A r \in regioes' : Mora(h', r) /\ Guardado(mem', r)
    BY <1>6, <2>2, <2>7, <2>8, <2>10
  <2>12. \A r, s \in regioes' : r.ptr = s.ptr => r = s
    <3>1. \A r, s \in regioes : r.ptr = s.ptr => r = s
      BY DEF HeapInv
    <3> QED BY <2>2, <2>6, <2>9, <3>1
  <2> QED BY <1>5, <2>11, <2>12 DEF HeapInv
<1> QED BY <1>7, <1>8

(* Headers written after a call spare the regions. *)
LEMMA EscritaKeeps ==
  ASSUME NEW g, NEW topo \in Nat, Inteira(g, topo), topo <= Limite,
         NEW r, Mora(g, r), NEW m, NEW j \in 0..(r.cheio - 1)
  PROVE  Escrita(m, g, {})[r.ptr + j] = m[r.ptr + j]
<1>1. PICK a : a = r.ptr - HEADER
  OBVIOUS
<1>2. /\ r.ptr + j \in Unidades /\ r.ptr + j \in Nat /\ a \in Blocos(g)
      /\ a + 2 <= r.ptr + j /\ r.ptr + j < FimDe(g, a)
  BY <1>1, RegionUnits
<1>3. \A p \in {} : p \in Nat /\ r.ptr + j < p * CHUNK
  OBVIOUS
<1> QED BY <1>2, <1>3, EscritaSpares

LEMMA FreeStep == ASSUME HeapInv, NEW r \in regioes, Free(r) PROVE HeapInv'
<1>1. /\ h' = Solta(h, r.ptr)
      /\ mem' = Escrita(Preenche(mem, r.ptr, r.cheio, "lixo"), h', {})
      /\ regioes' = regioes \ {r} /\ brk' = brk /\ mapeadas' = mapeadas
  BY DEF Free
<1>2. Mora(h, r) /\ r.cheio \in Nat /\ r.ptr \in Nat /\ r.tam \in Nat /\ r.cheio <= r.tam
  BY RegionTypes DEF HeapInv
<1>3. PICK a \in Blocos(h) : a = r.ptr - HEADER
  BY <1>2 DEF Mora
<1>4. Inteira(h', brk) /\ Preserva(h, h', {a})
  BY <1>1, <1>3, InvParts, SoltaKeeps
<1>5. ASSUME NEW s \in regioes, s # r
      PROVE  Mora(h', s) /\ Guardado(mem', s)
  <2>1. Mora(h, s) /\ Guardado(mem, s) /\ s.ptr # r.ptr
    BY <1>5 DEF HeapInv
  <2>2. s.ptr - HEADER # a
    <3>1. s.ptr \in Nat
      BY <2>1, RegionTypes
    <3> QED BY <1>2, <1>3, <2>1, <3>1 DEF HEADER
  <2>3. Mora(h', s)
    BY <1>4, <2>1, <2>2, RegionStays
  <2>4. ASSUME NEW j \in 0..(s.cheio - 1) PROVE mem'[s.ptr + j] = s.id
    <3>1. mem'[s.ptr + j] = Preenche(mem, r.ptr, r.cheio, "lixo")[s.ptr + j]
      BY <1>1, <1>4, <2>3, InvParts, EscritaKeeps
    <3>2. r.cheio <= h.b[a].size /\ r.ptr = a + HEADER
      <4>1. r.tam <= h.b[a].size /\ h.b[a].size \in Nat /\ a \in Nat
        BY <1>2, <1>3, InvParts, BlockAre DEF Mora
      <4> QED BY <1>2, <1>3, <4>1 DEF HEADER
    <3>3. Preenche(mem, r.ptr, r.cheio, "lixo")[s.ptr + j] = mem[s.ptr + j]
      <4>1. Inteira(h, brk) /\ brk \in Nat /\ brk <= Limite
        BY InvParts
      <4>2. a \in Blocos(h) /\ r.cheio \in Nat
        BY <1>2, <1>3
      <4> QED
        BY ONLY <2>1, <3>2, <4>1, <4>2, j \in 0..(s.cheio - 1), FillSpares
    <3>4. mem[s.ptr + j] = s.id
      BY <2>1 DEF Guardado
    <3> QED BY <3>1, <3>3, <3>4
  <2> QED BY <2>3, <2>4 DEF Guardado
<1>6. \A s \in regioes' : Mora(h', s) /\ Guardado(mem', s)
  BY <1>1, <1>5
<1>7. \A t, s \in regioes' : t.ptr = s.ptr => t = s
  BY <1>1 DEF HeapInv
<1> QED BY <1>1, <1>4, <1>6, <1>7, InvParts DEF HeapInv

LEMMA CompletaStep == ASSUME HeapInv, NEW r \in regioes, Completa(r) PROVE HeapInv'
<1>1. PICK q : q = [r EXCEPT !.cheio = r.tam]
  OBVIOUS
<1>2. /\ mem' = Preenche(mem, r.ptr, r.tam, r.id)
      /\ regioes' = (regioes \ {r}) \cup {q} /\ h' = h /\ brk' = brk /\ mapeadas' = mapeadas
  BY <1>1 DEF Completa
<1>3. Mora(h, r) /\ r.cheio \in Nat /\ r.ptr \in Nat /\ r.tam \in Nat /\ r.cheio <= r.tam
  BY RegionTypes DEF HeapInv
<1>4. PICK a \in Blocos(h) : a = r.ptr - HEADER /\ r.tam <= h.b[a].size /\ r.ptr = a + HEADER
  <2>1. PICK a \in Blocos(h) : a = r.ptr - HEADER /\ r.tam <= h.b[a].size
    BY <1>3 DEF Mora
  <2>2. a \in Nat
    BY InvParts, BlockAre
  <2> QED BY <1>3, <2>1, <2>2 DEF HEADER
<1>5. q.id = r.id /\ q.ptr = r.ptr /\ q.tam = r.tam /\ q.cheio = r.tam /\ q \in Regioes
  BY <1>1, <1>3 DEF Mora, Regioes
<1>6. Mora(h, q)
  BY <1>3, <1>5 DEF Mora
<1>7. Guardado(mem', q)
  <2> SUFFICES ASSUME NEW j \in 0..(q.cheio - 1) PROVE mem'[q.ptr + j] = q.id
    BY DEF Guardado
  <2>1. q.ptr + j \in Unidades
    BY <1>6, InvParts, RegionUnits
  <2>2. r.ptr <= q.ptr + j /\ q.ptr + j < r.ptr + r.tam
    BY <1>3, <1>5
  <2>3. PICK u \in Unidades : u = q.ptr + j /\ r.ptr <= u /\ u < r.ptr + r.tam
    BY <2>1, <2>2
  <2>4. mem'[u] = r.id
    BY <1>2, <1>3, <2>3, Filled
  <2> QED BY <1>5, <2>3, <2>4
<1>8. ASSUME NEW s \in regioes, s # r PROVE Mora(h, s) /\ Guardado(mem', s)
  <2>1. Mora(h, s) /\ Guardado(mem, s) /\ s.ptr # r.ptr
    BY <1>8 DEF HeapInv
  <2>2. ASSUME NEW j \in 0..(s.cheio - 1) PROVE mem'[s.ptr + j] = s.id
    <3>1. PICK topo \in Nat, n \in Nat : topo = brk /\ n = r.tam
      BY <1>3, InvParts
    <3>2. PICK g, p, m, id : g = h /\ p = r.ptr /\ m = mem /\ id = r.id
      OBVIOUS
    <3>3. /\ Inteira(g, topo) /\ topo <= Limite /\ a \in Blocos(g) /\ p = a + HEADER /\ n <= g.b[a].size
          /\ Mora(g, s) /\ s.ptr # p
      BY <1>4, <2>1, <3>1, <3>2, InvParts
    <3>4. Preenche(m, p, n, id)[s.ptr + j] = m[s.ptr + j]
      BY ONLY <3>3, topo \in Nat, n \in Nat, j \in 0..(s.cheio - 1), FillSpares
    <3> QED BY <1>2, <2>1, <3>1, <3>2, <3>4 DEF Guardado
  <2> QED BY <2>1, <2>2 DEF Guardado
<1>9. \A s \in regioes' : Mora(h', s) /\ Guardado(mem', s)
  BY <1>2, <1>6, <1>7, <1>8
<1>10. \A t, s \in regioes' : t.ptr = s.ptr => t = s
  <2>1. \A t, s \in regioes : t.ptr = s.ptr => t = s
    BY DEF HeapInv
  <2> QED BY <1>2, <1>5, <2>1
<1> QED BY <1>2, <1>9, <1>10, InvParts DEF HeapInv

(* The block realloc keeps: it is widened over the free one behind it when it must be,  *)
(* and what is too much is split off.                                                   *)
LEMMA WidenedBlock ==
  ASSUME NEW g, NEW topo \in Nat, Inteira(g, topo), topo <= Limite,
         NEW a \in Blocos(g), ~g.b[a].is_free, NEW n \in Nat, n > 0,
         NEW x, x = g.b[a].next,
         NEW w, w = IF g.b[a].size >= n THEN g ELSE Absorve(g, a, x),
         g.b[a].size >= n \/ Expande(g, a, n),
         NEW k, k = Divide(w, a, n)
  PROVE  /\ Inteira(k, topo) /\ a \in Blocos(k) /\ ~k.b[a].is_free /\ k.b[a].size >= n
         /\ Preserva(g, k, {a})
<1>1. Inteira(w, topo) /\ a \in Blocos(w) /\ ~w.b[a].is_free /\ w.b[a].size >= n /\ Preserva(g, w, {a})
  <2>1. CASE g.b[a].size >= n
    BY <2>1 DEF Preserva
  <2>2. CASE ~(g.b[a].size >= n)
    <3>1. w = Absorve(g, a, x) /\ x # 0 /\ g.b[x].is_free /\ g.b[a].size + HEADER + g.b[x].size >= n
      BY <2>2 DEF Expande, LivreEm
    <3>2. /\ Inteira(w, topo) /\ Blocos(w) = Blocos(g) \ {x} /\ Poupa(g, w, {a, x})
          /\ w.b[a].size = g.b[a].size + 2 + g.b[x].size /\ w.b[a].is_free = g.b[a].is_free
      BY <3>1, AbsorveKeeps
    <3>3. a # x
      BY <3>1
    <3>4. Preserva(g, w, {a})
      BY <3>1, <3>2 DEF Poupa, Preserva
    <3> QED BY <3>1, <3>2, <3>3, <3>4 DEF HEADER
  <2> QED BY <2>1, <2>2
<1>2. /\ Inteira(k, topo) /\ Poupa(w, k, {a}) /\ a \in Blocos(k)
      /\ k.b[a].size >= n /\ k.b[a].is_free = w.b[a].is_free
  BY ONLY <1>1, topo \in Nat, topo <= Limite, n \in Nat, n > 0, k = Divide(w, a, n), DivideKeeps
<1> QED BY <1>1, <1>2 DEF Poupa, Preserva

(* Region q, that r has become: n units long at p, its data that of r. *)
Mudou(r, p, n, q) ==
  /\ q.id = r.id /\ q.ptr = p /\ q.tam = n /\ q \in Regioes
  /\ q.cheio \in Nat /\ q.cheio <= n /\ q.cheio <= r.cheio

LEMMA MudaGives ==
  ASSUME NEW r \in Regioes, NEW p \in Unidades, NEW n \in Nat, Muda(r, p, n)
  PROVE  \E q : Mudou(r, p, n, q) /\ regioes' = (regioes \ {r}) \cup {q}
<1>1. PICK q : q = [r EXCEPT !.ptr = p, !.tam = n, !.cheio = IF r.cheio < n THEN r.cheio ELSE n]
  OBVIOUS
<1>2. PICK i \in Ids, p0 \in Unidades, t \in Nat, e \in Nat : r = [id |-> i, ptr |-> p0, tam |-> t, cheio |-> e]
  BY DEF Regioes
<1>3. PICK c \in Nat : c = (IF r.cheio < n THEN r.cheio ELSE n) /\ c <= n /\ c <= r.cheio
  BY <1>2
<1>4. q = [id |-> i, ptr |-> p, tam |-> n, cheio |-> c]
  <2>1. q = [r EXCEPT !.ptr = p, !.tam = n, !.cheio = c]
    BY <1>1, <1>3
  <2> QED BY <1>2, <2>1
<1>5. Mudou(r, p, n, q)
  BY <1>2, <1>3, <1>4 DEF Mudou, Regioes
<1> QED BY <1>1, <1>5 DEF Muda

(* realloc where the block, or the one behind it, has the room. *)
LEMMA ReallocInPlace ==
  ASSUME HeapInv, NEW r \in regioes, NEW n \in Nat, NEW a, a = r.ptr - HEADER,
         NEW k, h' = k, Inteira(k, brk), a \in Blocos(k), ~k.b[a].is_free, k.b[a].size >= n,
         Preserva(h, k, {a}),
         NEW m, m = [u \in Unidades |-> IF u \in (r.ptr + n)..(r.ptr + r.cheio - 1)
                                           THEN "lixo" ELSE mem[u]],
         mem' = Escrita(m, k, {}),
         Muda(r, r.ptr, n), UNCHANGED <<brk, mapeadas>>
  PROVE  HeapInv'
<1>1. Mora(h, r) /\ Guardado(mem, r) /\ r.cheio \in Nat /\ r.ptr \in Nat /\ r.tam \in Nat /\ r.cheio <= r.tam
  BY RegionTypes DEF HeapInv
<1>2. r \in Regioes /\ r.ptr \in Unidades
  BY <1>1 DEF Mora, Regioes
<1>3. PICK q : Mudou(r, r.ptr, n, q) /\ regioes' = (regioes \ {r}) \cup {q}
  BY <1>2, MudaGives
<1>4. /\ q.id = r.id /\ q.ptr = r.ptr /\ q.tam = n /\ q \in Regioes
      /\ q.cheio \in Nat /\ q.cheio <= n /\ q.cheio <= r.cheio
  BY <1>3 DEF Mudou
<1>5. a \in Blocos(h) /\ r.tam <= h.b[a].size
  BY <1>1 DEF Mora
<1>6. brk \in Nat /\ brk <= Limite /\ Inteira(h, brk)
  BY InvParts
<1>7. Mora(k, q)
  BY <1>4 DEF Mora
<1>8. ASSUME NEW s, Mora(k, s), NEW j \in 0..(s.cheio - 1) PROVE mem'[s.ptr + j] = m[s.ptr + j]
  <2>1. Escrita(m, k, {})[s.ptr + j] = m[s.ptr + j]
    BY <1>6, <1>8, EscritaKeeps
  <2> QED BY <2>1
<1>9. Guardado(mem', q)
  <2> SUFFICES ASSUME NEW j \in 0..(q.cheio - 1) PROVE mem'[q.ptr + j] = q.id
    BY DEF Guardado
  <2>1. mem'[q.ptr + j] = m[q.ptr + j]
    BY <1>7, <1>8
  <2>2. q.ptr + j \in Unidades
    BY <1>6, <1>7, RegionUnits
  <2>3. j \in 0..(r.cheio - 1) /\ j < n
    BY <1>1, <1>4
  <2>4. q.ptr + j \notin (r.ptr + n)..(r.ptr + r.cheio - 1)
    BY <1>1, <1>4, <2>3
  <2>5. m[q.ptr + j] = mem[r.ptr + j]
    BY <1>4, <2>2, <2>4
  <2>6. mem[r.ptr + j] = r.id
    BY <1>1, <2>3 DEF Guardado
  <2> QED BY <1>4, <2>1, <2>5, <2>6
<1>10. ASSUME NEW s \in regioes, s # r PROVE Mora(k, s) /\ Guardado(mem', s)
  <2>1. Mora(h, s) /\ Guardado(mem, s) /\ s.ptr # r.ptr /\ s.ptr \in Nat
    BY <1>10, RegionTypes DEF HeapInv
  <2>2. s.ptr - HEADER # a
    BY <1>1, <2>1 DEF HEADER
  <2>3. Mora(k, s)
    <3>1. PICK S : S = {a}
      OBVIOUS
    <3>2. PICK l : l = h
      OBVIOUS
    <3>3. Preserva(l, k, S) /\ Mora(l, s) /\ s.ptr - HEADER \notin S
      BY <2>1, <2>2, <3>1, <3>2
    <3> QED BY ONLY <3>3, RegionStays
  <2>4. ASSUME NEW j \in 0..(s.cheio - 1) PROVE mem'[s.ptr + j] = s.id
    <3>1. mem'[s.ptr + j] = m[s.ptr + j]
      BY <1>8, <2>3
    <3>2. PICK b : b = s.ptr - HEADER
      OBVIOUS
    <3>3. /\ s.ptr + j \in Unidades /\ s.ptr + j \in Nat /\ b \in Blocos(h)
          /\ b + 2 <= s.ptr + j /\ s.ptr + j < FimDe(h, b)
      BY <1>6, <2>1, <3>2, RegionUnits
    <3>4. ~(a + 2 <= s.ptr + j /\ s.ptr + j < FimDe(h, a))
      BY <1>5, <1>6, <2>2, <3>2, <3>3, PayloadIsOwn
    <3>5. a \in Nat /\ r.ptr = a + 2 /\ FimDe(h, a) = a + 2 + h.b[a].size /\ h.b[a].size \in Nat
      <4>1. a \in Nat /\ FimDe(h, a) = a + 2 + h.b[a].size /\ h.b[a].size \in Nat
        BY <1>5, InvParts, BlockAre
      <4> QED BY <1>1, <4>1 DEF HEADER
    <3>6. s.ptr + j \notin (r.ptr + n)..(r.ptr + r.cheio - 1)
      BY <1>1, <1>5, <3>3, <3>4, <3>5
    <3>7. m[s.ptr + j] = mem[s.ptr + j]
      BY <3>3, <3>6
    <3> QED BY <2>1, <3>1, <3>7 DEF Guardado
  <2> QED BY <2>3, <2>4 DEF Guardado
<1>11. \A s \in regioes' : Mora(h', s) /\ Guardado(mem', s)
  BY <1>3, <1>7, <1>9, <1>10
<1>12. \A t, s \in regioes' : t.ptr = s.ptr => t = s
  <2>1. \A t, s \in regioes : t.ptr = s.ptr => t = s
    BY DEF HeapInv
  <2> QED BY <1>3, <1>4, <2>1
<1>13. Inteira(h', brk') /\ brk' = brk /\ mapeadas' = mapeadas
  OBVIOUS
<1> QED BY <1>11, <1>12, <1>13, InvParts DEF HeapInv

(* A request that fails leaves everything as it was, but for the pages it mapped. *)
LEMMA RequestFailed ==
  ASSUME HeapInv, NEW n \in Nat, n > 0, NEW o \in Obtem(n),
         h' = o.h, brk' = o.brk, mapeadas' = o.mapeadas, mem' = o.mem, regioes' = regioes
  PROVE  HeapInv'
<1>1. Obtido(n, o)
  BY ObtemGives
<1>2. /\ Inteira(h', brk') /\ brk' \in CHUNK..Limite
      /\ mapeadas' \subseteq 1..MaxPaginas /\ Paginas(CHUNK, brk') \subseteq mapeadas'
  BY <1>1 DEF Obtido
<1>3. ASSUME NEW r \in regioes PROVE Mora(h', r) /\ Guardado(mem', r)
  BY <1>1, RegionsAfterObtem
<1>4. \A r, s \in regioes' : r.ptr = s.ptr => r = s
  BY DEF HeapInv
<1> QED BY <1>2, <1>3, <1>4 DEF HeapInv

(* realloc to another block: the data is copied and the old block freed. *)
LEMMA ReallocElsewhere ==
  ASSUME HeapInv, NEW r \in regioes, NEW n \in Nat, n > 0,
         NEW a, a = r.ptr - HEADER, NEW sz \in Nat, sz = h.b[a].size, sz < n,
         NEW o \in Obtem(n), o.ptr # 0,
         NEW z, z = [u \in Unidades |-> IF u \in o.ptr..(o.ptr + sz - 1) THEN mem[r.ptr + u - o.ptr]
                                        ELSE o.mem[u]],
         NEW w, w = Preenche(z, r.ptr, r.cheio, "lixo"),
         NEW k, h' = k, k = Solta(o.h, r.ptr), mem' = Escrita(w, k, {}),
         Muda(r, o.ptr, n), brk' = o.brk, mapeadas' = o.mapeadas
  PROVE  HeapInv'
<1>1. PICK g, topo, e, p : g = o.h /\ topo = o.brk /\ e = o.mem /\ p = o.ptr
  OBVIOUS
<1>2. Obtido(n, o)
  BY ObtemGives
<1>3. /\ Inteira(g, topo) /\ topo \in Nat /\ topo <= Limite /\ topo \in CHUNK..Limite /\ Preserva(h, g, {})
      /\ mapeadas' \subseteq 1..MaxPaginas /\ Paginas(CHUNK, topo) \subseteq mapeadas'
  BY <1>1, <1>2, UnitsAre DEF Obtido
<1>4. PICK b \in Blocos(g) : b = p - HEADER
  BY <1>1, <1>2 DEF Obtido
<1>5. ~g.b[b].is_free /\ g.b[b].size >= n /\ (b \in Blocos(h) => h.b[b].is_free) /\ p \in Unidades /\ p \in Nat
  <2>1. p \in Unidades
    BY <1>1, <1>2 DEF Obtido
  <2> QED BY <1>1, <1>2, <1>4, <2>1, UnitsAre DEF Obtido
<1>6. ASSUME NEW s \in regioes
      PROVE  /\ Mora(h, s) /\ Mora(g, s) /\ Guardado(e, s) /\ s.ptr \in Nat /\ s.ptr # p
             /\ s # r => s.ptr # r.ptr
  <2>1. Mora(h, s) /\ (s # r => s.ptr # r.ptr)
    BY DEF HeapInv
  <2>2. Mora(g, s) /\ Guardado(e, s)
    BY <1>1, <1>2, RegionsAfterObtem
  <2>3. s.ptr - HEADER \in Blocos(h) /\ ~h.b[s.ptr - HEADER].is_free
    BY <2>1 DEF Mora
  <2>4. s.ptr # p
    BY <1>4, <1>5, <2>3
  <2> QED BY <2>1, <2>2, <2>4, RegionTypes
<1>7. /\ Mora(h, r) /\ Guardado(mem, r) /\ r.cheio \in Nat /\ r.ptr \in Nat /\ r.tam \in Nat
      /\ r.cheio <= r.tam /\ r.tam <= sz /\ r \in Regioes
  <2>1. Mora(h, r) /\ Guardado(mem, r)
    BY DEF HeapInv
  <2> QED BY <2>1, RegionTypes DEF Mora
<1>8. a \in Blocos(g) /\ g.b[a].size = sz /\ a \in Nat /\ b \in Nat /\ a # b /\ r.ptr = a + HEADER /\ p = b + HEADER
  <2>1. a \in Blocos(h) /\ ~h.b[a].is_free
    BY <1>7 DEF Mora
  <2>2. a \in Blocos(g) /\ g.b[a].size = sz
    BY <1>3, <2>1 DEF Preserva
  <2>3. a \in Nat /\ b \in Nat
    BY <1>3, <2>2, BlockAre DEF Inteira
  <2> QED BY <1>4, <1>5, <1>7, <2>1, <2>2, <2>3 DEF HEADER
<1>9. Inteira(k, topo) /\ Preserva(g, k, {a})
  <2>1. k = Solta(g, r.ptr)
    BY <1>1
  <2> QED BY <1>3, <1>8, <2>1, SoltaKeeps
<1>10. PICK q : Mudou(r, p, n, q) /\ regioes' = (regioes \ {r}) \cup {q}
  <2>1. Muda(r, p, n)
    BY <1>1
  <2> QED BY <1>5, <1>7, <2>1, MudaGives
<1>11. /\ q.id = r.id /\ q.ptr = p /\ q.tam = n /\ q \in Regioes
       /\ q.cheio \in Nat /\ q.cheio <= n /\ q.cheio <= r.cheio
  BY <1>10 DEF Mudou
<1>12. Mora(g, q)
  BY <1>4, <1>5, <1>11 DEF Mora
<1>13. ASSUME NEW s, Mora(g, s), s.ptr # r.ptr
       PROVE  /\ Mora(k, s)
              /\ \A j \in 0..(s.cheio - 1) : mem'[s.ptr + j] = z[s.ptr + j] /\ s.ptr + j \in Unidades
  <2>1. Mora(k, s)
    <3>1. PICK S : S = {a}
      OBVIOUS
    <3>2. s.ptr \in Nat
      BY <1>13, RegionTypes
    <3>3. Preserva(g, k, S) /\ Mora(g, s) /\ s.ptr - HEADER \notin S
      BY <1>7, <1>9, <1>13, <3>1, <3>2 DEF HEADER
    <3> QED BY ONLY <3>3, RegionStays
  <2>2. ASSUME NEW j \in 0..(s.cheio - 1)
        PROVE  mem'[s.ptr + j] = z[s.ptr + j] /\ s.ptr + j \in Unidades
    <3>1. Escrita(w, k, {})[s.ptr + j] = w[s.ptr + j]
      BY <1>3, <1>9, <2>1, EscritaKeeps
    <3>2. r.cheio <= g.b[a].size
      BY <1>7, <1>8
    <3>3. PICK c \in Nat, f \in {"lixo"}, t \in Nat : c = r.cheio /\ t = r.ptr
      BY <1>7
    <3>4. Preenche(z, t, c, f)[s.ptr + j] = z[s.ptr + j]
      <4>1. /\ Inteira(g, topo) /\ topo <= Limite /\ a \in Blocos(g) /\ t = a + HEADER /\ c <= g.b[a].size
            /\ Mora(g, s) /\ s.ptr # t
        BY <1>3, <1>8, <1>13, <3>2, <3>3
      <4>2. topo \in Nat
        BY <1>3
      <4> QED BY ONLY <4>1, <4>2, c \in Nat, j \in 0..(s.cheio - 1), FillSpares
    <3>5. s.ptr + j \in Unidades
      BY <1>3, <1>13, RegionUnits
    <3> QED BY <3>1, <3>3, <3>4, <3>5
  <2> QED BY <2>1, <2>2
<1>14. Mora(k, q) /\ Guardado(mem', q)
  <2>1. q.ptr # r.ptr
    BY <1>8, <1>11 DEF HEADER
  <2>2. Mora(k, q) /\ \A j \in 0..(q.cheio - 1) : mem'[q.ptr + j] = z[q.ptr + j] /\ q.ptr + j \in Unidades
    BY <1>12, <1>13, <2>1
  <2>3. ASSUME NEW j \in 0..(q.cheio - 1) PROVE mem'[q.ptr + j] = q.id
    <3>1. j \in 0..(r.cheio - 1) /\ j < sz /\ j \in Nat
      BY <1>7, <1>11
    <3>2. PICK u \in Unidades : u = p + j
      BY <1>11, <2>2
    <3>3. u \in p..(p + sz - 1) /\ (r.ptr + u) - p = r.ptr + j
      BY <1>5, <1>7, <3>1, <3>2
    <3>4. z[u] = mem[(r.ptr + u) - p]
      <4>1. u \in o.ptr..(o.ptr + sz - 1)
        BY <1>1, <3>3
      <4>2. z[u] = mem[r.ptr + u - o.ptr]
        BY <4>1
      <4>3. r.ptr + u - o.ptr = (r.ptr + u) - p
        BY <1>1, <1>5, <1>7, <3>2
      <4> QED BY <4>2, <4>3
    <3>5. mem[r.ptr + j] = r.id
      BY <1>7, <3>1 DEF Guardado
    <3> QED BY <1>11, <2>2, <3>2, <3>3, <3>4, <3>5
  <2> QED BY <2>2, <2>3 DEF Guardado
<1>15. ASSUME NEW s \in regioes, s # r PROVE Mora(k, s) /\ Guardado(mem', s)
  <2>1. Mora(g, s) /\ Guardado(e, s) /\ s.ptr # r.ptr /\ s.ptr \in Nat /\ s.ptr # p
    BY <1>6, <1>15
  <2>2. Mora(k, s) /\ \A j \in 0..(s.cheio - 1) : mem'[s.ptr + j] = z[s.ptr + j] /\ s.ptr + j \in Unidades
    BY <1>13, <2>1
  <2>3. ASSUME NEW j \in 0..(s.cheio - 1) PROVE mem'[s.ptr + j] = s.id
    <3>1. PICK c : c = s.ptr - HEADER
      OBVIOUS
    <3>2. /\ s.ptr + j \in Nat /\ c \in Blocos(g) /\ s.ptr = c + 2
          /\ c + 2 <= s.ptr + j /\ s.ptr + j < FimDe(g, c)
      BY <1>3, <2>1, <3>1, RegionUnits
    <3>3. c # b
      BY <1>4, <1>5, <2>1, <3>1 DEF HEADER
    <3>4. ~(b + 2 <= s.ptr + j /\ s.ptr + j < FimDe(g, b))
      BY <1>3, <3>2, <3>3, PayloadIsOwn
    <3>5. FimDe(g, b) = b + 2 + g.b[b].size /\ g.b[b].size \in Nat
      BY <1>3, BlockAre DEF Inteira
    <3>6. s.ptr + j \notin p..(p + sz - 1)
      BY <1>5, <1>8, <3>2, <3>4, <3>5 DEF HEADER
    <3>7. PICK u \in Unidades : u = s.ptr + j
      BY <2>2
    <3>8. z[u] = e[u]
      BY <1>1, <3>6, <3>7
    <3> QED BY <2>1, <2>2, <3>7, <3>8 DEF Guardado
  <2> QED BY <2>2, <2>3 DEF Guardado
<1>16. \A s \in regioes' : Mora(h', s) /\ Guardado(mem', s)
  BY <1>10, <1>14, <1>15
<1>17. \A t, s \in regioes' : t.ptr = s.ptr => t = s
  <2>1. \A t, s \in regioes : t.ptr = s.ptr => t = s
    BY DEF HeapInv
  <2>2. \A s \in regioes : s.ptr # q.ptr
    BY <1>6, <1>11
  <2> QED BY <1>10, <2>1, <2>2
<1>18. Inteira(h', brk') /\ brk' \in CHUNK..Limite
       /\ mapeadas' \subseteq 1..MaxPaginas /\ Paginas(CHUNK, brk') \subseteq mapeadas'
  BY <1>1, <1>3, <1>9
<1> QED BY <1>16, <1>17, <1>18 DEF HeapInv

LEMMA ReallocStep == ASSUME HeapInv, NEW r \in regioes, Realloc(r) PROVE HeapInv'
<1>1. PICK a : a = r.ptr - HEADER
  OBVIOUS
<1>2. PICK x : x = h.b[a].next
  OBVIOUS
<1>3. PICK n \in Pedidos :
        IF h.b[a].size >= n \/ Expande(h, a, n)
        THEN /\ h' = Divide(IF h.b[a].size >= n THEN h ELSE Absorve(h, a, x), a, n)
             /\ mem' = Escrita([u \in Unidades |-> IF u \in (r.ptr + n)..(r.ptr + r.cheio - 1)
                                               THEN "lixo" ELSE mem[u]], h', {})
             /\ Muda(r, r.ptr, n)
             /\ UNCHANGED <<brk, mapeadas>>
        ELSE \E o \in Obtem(n) :
               /\ brk' = o.brk /\ mapeadas' = o.mapeadas
               /\ IF o.ptr = 0 THEN h' = o.h /\ mem' = o.mem /\ UNCHANGED regioes
                  ELSE /\ h' = Solta(o.h, r.ptr)
                       /\ mem' = Escrita(Preenche([u \in Unidades |->
                             IF u \in o.ptr..(o.ptr + h.b[a].size - 1) THEN mem[r.ptr + u - o.ptr]
                             ELSE o.mem[u]], r.ptr, r.cheio, "lixo"), h', {})
                       /\ Muda(r, o.ptr, n)
  BY <1>1, <1>2, Zenon DEF Realloc
<1>4. n \in Nat /\ n > 0
  BY PedidosAssumption
<1>5. Mora(h, r) /\ a \in Blocos(h) /\ ~h.b[a].is_free
  BY <1>1 DEF HeapInv, Mora
<1>6. h.b[a].size \in Nat
  BY <1>5, InvParts, BlockAre
<1>7. PICK k : k = h'
  OBVIOUS
<1>8. CASE h.b[a].size >= n \/ Expande(h, a, n)
  <2>1. PICK w : w = IF h.b[a].size >= n THEN h ELSE Absorve(h, a, x)
    OBVIOUS
  <2>2. PICK m : m = [u \in Unidades |-> IF u \in (r.ptr + n)..(r.ptr + r.cheio - 1)
                                         THEN "lixo" ELSE mem[u]]
    OBVIOUS
  <2>3. k = Divide(w, a, n) /\ mem' = Escrita(m, k, {}) /\ Muda(r, r.ptr, n) /\ UNCHANGED <<brk, mapeadas>>
    BY <1>3, <1>7, <1>8, <2>1, <2>2, Zenon
  <2>4. /\ Inteira(k, brk) /\ a \in Blocos(k) /\ ~k.b[a].is_free /\ k.b[a].size >= n
        /\ Preserva(h, k, {a})
    BY <1>2, <1>4, <1>5, <1>8, <2>1, <2>3, InvParts, WidenedBlock
  <2> QED BY <1>1, <1>4, <1>7, <2>2, <2>3, <2>4, ReallocInPlace
<1>9. CASE ~(h.b[a].size >= n \/ Expande(h, a, n))
  <2>1. PICK o \in Obtem(n) :
               /\ brk' = o.brk /\ mapeadas' = o.mapeadas
               /\ IF o.ptr = 0 THEN h' = o.h /\ mem' = o.mem /\ UNCHANGED regioes
                  ELSE /\ h' = Solta(o.h, r.ptr)
                       /\ mem' = Escrita(Preenche([u \in Unidades |->
                             IF u \in o.ptr..(o.ptr + h.b[a].size - 1) THEN mem[r.ptr + u - o.ptr]
                             ELSE o.mem[u]], r.ptr, r.cheio, "lixo"), h', {})
                       /\ Muda(r, o.ptr, n)
    BY <1>3, <1>9, Zenon
  <2>2. CASE o.ptr = 0
    BY <1>4, <2>1, <2>2, RequestFailed
  <2>3. CASE o.ptr # 0
    <3>1. PICK sz \in Nat : sz = h.b[a].size /\ sz < n
      BY <1>4, <1>6, <1>9
    <3>2. PICK z : z = [u \in Unidades |-> IF u \in o.ptr..(o.ptr + sz - 1) THEN mem[r.ptr + u - o.ptr]
                                           ELSE o.mem[u]]
      OBVIOUS
    <3>3. PICK w : w = Preenche(z, r.ptr, r.cheio, "lixo")
      OBVIOUS
    <3>4. k = Solta(o.h, r.ptr) /\ mem' = Escrita(w, k, {}) /\ Muda(r, o.ptr, n)
      BY <1>7, <2>1, <2>3, <3>1, <3>2, <3>3, Zenon
    <3> QED BY <1>1, <1>4, <1>7, <2>1, <2>3, <3>1, <3>2, <3>3, <3>4, ReallocElsewhere
  <2> QED BY <2>2, <2>3
<1> QED BY <1>8, <1>9

LEMMA UmStep == HeapInv /\ [UmNext]_umVars => HeapInv'
<1> SUFFICES ASSUME HeapInv, [UmNext]_umVars PROVE HeapInv'
  OBVIOUS
<1>1. CASE Malloc
  BY <1>1, MallocStep
<1>2. ASSUME NEW r \in regioes, Free(r) PROVE HeapInv'
  BY <1>2, FreeStep
<1>3. ASSUME NEW r \in regioes, Realloc(r) PROVE HeapInv'
  BY <1>3, ReallocStep
<1>4. ASSUME NEW r \in regioes, Completa(r) PROVE HeapInv'
  BY <1>4, CompletaStep
<1>5. CASE UNCHANGED umVars
  BY <1>5 DEF HeapInv, umVars
<1> QED BY <1>1, <1>2, <1>3, <1>4, <1>5 DEF UmNext

LEMMA InvIsEnough == HeapInv => HeapSound
<1> SUFFICES ASSUME HeapInv PROVE HeapSound
  OBVIOUS
<1>1. DataKept
  BY DEF HeapInv, Guardado, DataKept
<1>2. ASSUME NEW a \in Blocos(h)
      PROVE  \/ /\ h.b[a].next = a + HEADER + h.b[a].size
                /\ a + HEADER + h.b[a].size \in Blocos(h) /\ h.b[a + HEADER + h.b[a].size].prev = a
             \/ h.b[a].next = 0 /\ h.heap_end = a /\ a + HEADER + h.b[a].size = brk
  <2>1. Seguinte(h, brk, a)
    BY InvParts, WholeParts
  <2> QED BY <2>1 DEF Seguinte, FimDe
<1>3. h.heap_start = IF Blocos(h) = {} THEN 0 ELSE CHUNK
  BY InvParts DEF Inteira
<1>4. HeapTiles
  BY <1>2, <1>3, InvParts DEF HeapTiles
<1> QED BY <1>1, <1>4 DEF HeapSound

(* The heap of an application is whole, and what the application wrote to an allocation *)
(* is there until it frees it, however many pages the heap has and whatever lengths are *)
(* asked for (malloc.c:13-170).                                                         *)
THEOREM UserHeapIsSound == UmSpec => []HeapSound
<1>1. UmSpec => []HeapInv
  BY HeapInit, UmStep, PTL DEF UmSpec
<1> QED BY <1>1, InvIsEnough, PTL
=============================================================================
