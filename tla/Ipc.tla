--------------------------------- MODULE Ipc ---------------------------------
(***************************************************************************)
(* The desktop's shared page: the explorer (software/explorer.c) and the   *)
(* applications (Runtime/tarefa.c, serial.c, test.c over                   *)
(* Runtime/components/TOS_IPC.c) read and write the same list of windows   *)
(* with plain loads and stores, no lock, and are preempted anywhere.       *)
(*                                                                         *)
(* Coordinates are left out: a click is on the title bar or on the body of *)
(* the topmost window among those under the pointer.                       *)
(***************************************************************************)
EXTENDS Integers, Sequences, FiniteSets

CONSTANTS
  Slots,    \* MAX_EXTERNAL_APPS windows
  Apps,     \* applications: pids
  Segura    \* mouse_hold_timer after a click (6)

ASSUME IpcAssumption ==
  /\ Slots = 0..(Cardinality(Slots) - 1) /\ 0 \in Slots
  /\ 0 \notin Apps /\ Segura \in Nat \ {0}

SemSlot == -1

VARIABLES
  lista,         \* IPC_WINDOW_LIST: [is_active, pid, buffers, has_click]
  foco_slot,     \* IPC_CONTROL->active_focus_slot
  z_stack, dragging_slot,
  ex,            \* the explorer: where it is, and the slot it looks at
  app,           \* per application: where it is, its slot, its timer, its target
  corrida        \* two actors were inside the same slot's life at once

ipVars == <<lista, foco_slot, z_stack, dragging_slot, ex, app, corrida>>

Vazio_ == [is_active |-> FALSE, pid |-> 0, buffers |-> FALSE, has_click |-> FALSE]
Parado_ == [pc |-> "fora", slot |-> SemSlot, timer |-> 0, alvo |-> 0]

IpTypeOK ==
  /\ \A s \in Slots : lista[s].pid \in Apps \cup {0}
  /\ foco_slot \in Slots \cup {SemSlot} /\ dragging_slot \in Slots \cup {SemSlot}
  /\ {z_stack[i] : i \in DOMAIN z_stack} = Slots /\ Len(z_stack) = Cardinality(Slots)
  /\ \A p \in Apps : app[p].slot \in Slots \cup {SemSlot} /\ app[p].timer \in 0..Segura

(* The page is zeroed: slot 0 has the focus before there is a window. *)
IpInit ==
  /\ lista = [s \in Slots |-> Vazio_]
  /\ foco_slot = 0 /\ dragging_slot = SemSlot
  /\ z_stack = [i \in 1..Cardinality(Slots) |-> i - 1]
  /\ ex = [pc |-> "varre", i |-> 0, alvo |-> SemSlot]
  /\ app = [p \in Apps |-> Parado_]
  /\ corrida = FALSE

Vai_(p, onde) == app' = [app EXCEPT ![p].pc = onde]
Morto == [Parado_ EXCEPT !.pc = "morto"]
Rodando(p) == app[p].pc \notin {"fora", "morto"}

-----------------------------------------------------------------------------
(* OS_IPC_RegisterApp *)

(* Mutant of Livre_: a slot is taken without asking whether its window is open. *)
LivreQualquer(s) == TRUE

Livre_(s) == ~lista[s].is_active

(* The test of the first free slot ... *)
Procura(p) ==
  /\ app[p].pc = "fora"
  /\ LET livres == {s \in Slots : Livre_(s)}
     IN  \/ livres = {} /\ app' = [app EXCEPT ![p] = Morto]
         \/ \E s \in livres : /\ \A r \in livres : s <= r
                              /\ app' = [app EXCEPT ![p].pc = "ocupa", ![p].slot = s]
  /\ UNCHANGED <<lista, foco_slot, z_stack, dragging_slot, ex, corrida>>

(* Somebody else is at slot s: registering there, or the explorer clearing it. *)
Disputado(p, s) ==
  \/ \E q \in Apps \ {p} : app[q].pc \in {"ocupa", "carimba"} /\ app[q].slot = s
  \/ ex.pc \in {"limpa", "clica"} /\ ex.alvo = s

(* ... the store that takes it ... *)
Ocupa_(p) ==
  /\ app[p].pc = "ocupa"
  /\ lista' = [lista EXCEPT ![app[p].slot].is_active = TRUE]
  /\ corrida' = (corrida \/ Disputado(p, app[p].slot)
                 \/ (~lista[app[p].slot].is_active
                     /\ \E q \in Apps \ {p} : Rodando(q) /\ app[q].slot = app[p].slot))
  /\ Vai_(p, "carimba")
  /\ UNCHANGED <<foco_slot, z_stack, dragging_slot, ex>>

(* ... and the others; the pid comes last. *)
Carimba(p) ==
  /\ app[p].pc = "carimba"
  /\ lista' = [lista EXCEPT ![app[p].slot].buffers = TRUE, ![app[p].slot].has_click = FALSE,
                            ![app[p].slot].pid = p]
  /\ Vai_(p, "laco")
  /\ UNCHANGED <<foco_slot, z_stack, dragging_slot, ex, corrida>>

-----------------------------------------------------------------------------
(* One turn of an application's loop.  A click that comes while the timer of  *)
(* the last one runs is dropped.  serial.c clears the event when it has been  *)
(* processed, tarefa.c and test.c leave that to the next turn.                *)
Laco(p) ==
  /\ app[p].pc = "laco"
  /\ LET s == app[p].slot
         meu == foco_slot = s
         clique == meu /\ lista[s].has_click
         novo == clique /\ app[p].timer = 0
         t == IF novo THEN Segura ELSE app[p].timer
     IN  /\ \E limpa \in IF novo THEN BOOLEAN ELSE {clique} :
              lista' = IF limpa THEN [lista EXCEPT ![s].has_click = FALSE] ELSE lista
         /\ \E faz \in IF novo THEN {"laco", "sair", "matar"} ELSE {"laco"} :
              app' = [app EXCEPT ![p].pc = faz, ![p].timer = IF meu /\ t > 0 THEN t - 1 ELSE t]
  /\ UNCHANGED <<foco_slot, z_stack, dragging_slot, ex, corrida>>

(* The exit button: the window goes, then the process. *)
Fecha_(p) ==
  /\ app[p].pc = "sair"
  /\ lista' = [lista EXCEPT ![app[p].slot].is_active = FALSE]
  /\ Vai_(p, "dorme")
  /\ UNCHANGED <<foco_slot, z_stack, dragging_slot, ex, corrida>>

Sai(p) ==
  /\ app[p].pc = "dorme"
  /\ app' = [app EXCEPT ![p] = Morto]
  /\ UNCHANGED <<lista, foco_slot, z_stack, dragging_slot, ex, corrida>>

(* The KILL button: the first window of the target is closed, if it has one ... *)
Condena(p) ==
  /\ app[p].pc = "matar"
  /\ \E q \in Apps \ {p} :
       /\ LET ss == {s \in Slots : lista[s].pid = q /\ lista[s].is_active}
          IN  lista' = IF ss = {} THEN lista
                       ELSE [lista EXCEPT ![CHOOSE s \in ss : \A r \in ss : s <= r].is_active = FALSE]
       /\ app' = [app EXCEPT ![p].pc = "espera", ![p].alvo = q]
  /\ UNCHANGED <<foco_slot, z_stack, dragging_slot, ex, corrida>>

(* ... and 20 ms later the process is killed. *)
Mata(p) ==
  /\ app[p].pc = "espera"
  /\ app' = [app EXCEPT ![p].pc = "laco", ![p].alvo = 0,
                        ![app[p].alvo] = IF Rodando(app[p].alvo) THEN Morto ELSE @]
  /\ UNCHANGED <<lista, foco_slot, z_stack, dragging_slot, ex, corrida>>

-----------------------------------------------------------------------------
(* The explorer *)

(* Mutant of Adiante: the sweep leaves the last slot out. *)
AdianteMenosUm ==
  IF ex.i + 2 \in Slots THEN [ex EXCEPT !.pc = "varre", !.i = @ + 1]
  ELSE [ex EXCEPT !.pc = "mouse", !.i = 0]

(* The next slot of the sweep, then the mouse. *)
Adiante == IF ex.i + 1 \in Slots THEN [ex EXCEPT !.pc = "varre", !.i = @ + 1]
           ELSE [ex EXCEPT !.pc = "mouse", !.i = 0]

(* The sweep looks at a slot ... *)
Varre ==
  /\ ex.pc = "varre"
  /\ ex' = IF lista[ex.i].pid # 0 /\ ~lista[ex.i].is_active
           THEN [ex EXCEPT !.pc = "limpa", !.alvo = ex.i] ELSE Adiante
  /\ UNCHANGED <<lista, foco_slot, z_stack, dragging_slot, app, corrida>>

(* Mutant of SoltaArrasto: the drag of the dead window goes on. *)
SoltaArrastoNunca(s) == dragging_slot' = dragging_slot

SoltaArrasto(s) == dragging_slot' = IF dragging_slot = s THEN SemSlot ELSE dragging_slot

(* ... and resets it, whatever happened to it since. *)
Limpa ==
  /\ ex.pc = "limpa"
  /\ foco_slot' = IF foco_slot = ex.alvo THEN SemSlot ELSE foco_slot
  /\ SoltaArrasto(ex.alvo)
  /\ lista' = [lista EXCEPT ![ex.alvo].pid = 0, ![ex.alvo].buffers = FALSE,
                            ![ex.alvo].has_click = FALSE]
  /\ corrida' = (corrida \/ lista[ex.alvo].is_active)
  /\ ex' = [Adiante EXCEPT !.alvo = SemSlot]
  /\ UNCHANGED <<z_stack, app>>

(* The mouse: released, dragging, or pressed over the windows `sob`, of which *)
(* the topmost that is active is hit.                                         *)
Mouse_ ==
  /\ ex.pc = "mouse"
  /\ \/ dragging_slot' = SemSlot /\ ex' = [ex EXCEPT !.pc = "varre"]
     \/ dragging_slot # SemSlot /\ ex' = [ex EXCEPT !.pc = "varre"] /\ UNCHANGED dragging_slot
     \/ /\ dragging_slot = SemSlot /\ UNCHANGED dragging_slot
        /\ \E sob \in SUBSET Slots :
             LET ks == {k \in DOMAIN z_stack : z_stack[k] \in sob /\ lista[z_stack[k]].is_active}
             IN  ex' = IF ks = {} THEN [ex EXCEPT !.pc = "varre"]
                       ELSE [ex EXCEPT !.pc = "clica",
                                       !.alvo = z_stack[CHOOSE k \in ks : \A j \in ks : k >= j]]
  /\ UNCHANGED <<lista, foco_slot, z_stack, app, corrida>>

(* bring_to_front *)
ParaFrente(z, s) == Append(SelectSeq(z, LAMBDA x : x # s), s)

(* The hit: the focus, the front, and the drag or the click event. *)
Clica ==
  /\ ex.pc = "clica"
  /\ foco_slot' = ex.alvo
  /\ z_stack' = ParaFrente(z_stack, ex.alvo)
  /\ \/ dragging_slot' = ex.alvo /\ UNCHANGED lista
     \/ lista' = [lista EXCEPT ![ex.alvo].has_click = TRUE] /\ UNCHANGED dragging_slot
  /\ ex' = [ex EXCEPT !.pc = "varre", !.alvo = SemSlot]
  /\ UNCHANGED <<app, corrida>>

Explorer == Varre \/ Limpa \/ Mouse_ \/ Clica

Aplicacao(p) ==
  \/ Procura(p) \/ Ocupa_(p) \/ Carimba(p) \/ Laco(p)
  \/ Fecha_(p) \/ Sai(p) \/ Condena(p) \/ Mata(p)

IpNext == Explorer \/ \E p \in Apps : Aplicacao(p)

IpSpec == IpInit /\ [][IpNext]_ipVars

-----------------------------------------------------------------------------
(* What is dragged is what has the focus: a window that goes away under the   *)
(* pointer, by its own exit or by a KILL, ends both or keeps both, and what   *)
(* moves is never a window without the focus.                                 *)
DragIsFocused == dragging_slot # SemSlot => foco_slot = dragging_slot

(* As long as no registration met another one, a sweep or a click in its own  *)
(* slot and no condemned process outlived its window, every window that an    *)
(* application has open is its own: the slot carries its pid and buffers, and *)
(* no other process draws there.                                              *)
OwnWindow ==
  ~corrida =>
    \A p \in Apps : app[p].pc \in {"laco", "sair", "matar", "espera"}
                    /\ lista[app[p].slot].is_active
      => /\ lista[app[p].slot].pid = p /\ lista[app[p].slot].buffers
         /\ \A q \in Apps \ {p} : Rodando(q) /\ app[q].pc \notin {"ocupa"} => app[q].slot # app[p].slot

(* The slot of a window that was closed becomes free for good: the explorer   *)
(* erases its pid, or another application takes it.                           *)
ClosedIsSwept ==
  \A s \in Slots : (lista[s].pid # 0 /\ ~lista[s].is_active) ~> (lista[s].pid = 0 \/ lista[s].is_active)
=============================================================================
