----------------------------- MODULE MCDesktop -----------------------------
(***************************************************************************)
(* The kernel's heap, the loader of programs, the desktop's shared page     *)
(* with its explorer and one application's window, one at a time: qual says *)
(* which one moves.                                                         *)
(***************************************************************************)
EXTENDS MCElf, Kmalloc, Ipc, Gui

VARIABLE qual
mcVars == <<qual, kmVars, vars, ipVars, guiVars>>

Controle(t, a, d) == [tipo |-> t, area |-> a, dentro |-> d, sobe |-> {}, desce |-> {},
                      grupo |-> 0, liga |-> FALSE, itens |-> 0, texto |-> <<>>]

(* The marks of test.c, with a second group; its texts, with EXEC's button of  *)
(* tarefa.c; and a window that opens others.  Two points of a control lie one   *)
(* inside it and one on its last edge.                                         *)
MCLayouts ==
  {[ctl |-> <<Controle("botao", {1, 2}, {1}), Controle("check", {3, 4}, {3}),
              [Controle("radio", {5}, {5}) EXCEPT !.grupo = 1, !.liga = TRUE],
              [Controle("radio", {6}, {6}) EXCEPT !.grupo = 1],
              [Controle("radio", {7}, {7}) EXCEPT !.grupo = 2]>>,
    sub |-> <<>>],
   [ctl |-> <<[Controle("memo", {1, 2, 3, 4}, {1, 3, 4}) EXCEPT !.sobe = {3}, !.desce = {4}],
              [Controle("edit", {5, 6}, {5}) EXCEPT !.texto = <<"x">>], Controle("botao", {7}, {7}),
              [Controle("combo", {8}, {8}) EXCEPT !.itens = 2]>>,
    sub |-> <<>>],
   [ctl |-> <<Controle("check", {1}, {1}), Controle("rotulo", {2}, {2})>>,
    sub |-> <<[area |-> {5, 6}, titulo |-> {5}], [area |-> {6, 7}, titulo |-> {7}]>>]}

MCInit ==
  /\ qual \in {"heap", "elf", "ipc", "gui"}
  /\ KmInit /\ Init /\ IpInit /\ GuInit
  /\ qual # "gui" => lay = CHOOSE l \in Layouts : TRUE

MCNext ==
  /\ UNCHANGED qual
  /\ \/ qual = "heap" /\ KmNext /\ UNCHANGED <<vars, ipVars, guiVars>>
     \/ qual = "elf"  /\ Next   /\ UNCHANGED <<kmVars, ipVars, guiVars>>
     \/ qual = "ipc"  /\ IpNext /\ UNCHANGED <<kmVars, vars, guiVars>>
     \/ qual = "gui"  /\ GuNext /\ UNCHANGED <<kmVars, vars, ipVars>>

(* Round robin dispatches every loader again and again (ReadyRuns of module   *)
(* Proc), and a time slice is long enough for a step; the explorer sleeps     *)
(* 10 ms a turn and is scheduled again and again.                             *)
MCSpec ==
  /\ MCInit /\ [][MCNext]_mcVars
  /\ WF_vars(qual = "elf" /\ Tick)
  /\ \A l \in Loaders : /\ SF_vars(qual = "elf" /\ Tick /\ atual' = l)
                        /\ SF_vars(qual = "elf" /\ Step(l))
  /\ WF_ipVars(qual = "ipc" /\ Explorer)
=============================================================================
