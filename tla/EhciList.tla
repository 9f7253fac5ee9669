------------------------------ MODULE EhciList ------------------------------
(***************************************************************************)
(* drivers/pd/ehci_core.c and ehci_storage.c: the asynchronous schedule, a *)
(* circular list of queue heads that the controller walks by itself.  A    *)
(* transfer links its queue head behind the list's head, waits until the   *)
(* controller has executed it or the wait runs out, and restores the link  *)
(* it found.  Kernel tasks do so with interrupts enabled.  SYS_TESTINIT,   *)
(* which builds a new list and sends control and bulk transfers, runs from *)
(* beginning to end without them, at any moment of theirs; the controller  *)
(* moves all the same.  Only a control transfer gives its frame back, and  *)
(* then it is anybody's.                                                   *)
(***************************************************************************)
EXTENDS Integers

CONSTANTS
  Quadros,      \* physical frames of pmm_alloc_block
  EhCallers     \* kernel tasks that transfer

Nulo_ == "0"    \* the null pointer, or whatever a stranger wrote
Term  == "T"    \* a link with its T bit set

ASSUME FramesAssumption == {Nulo_, Term} \cap Quadros = {}
ASSUME CallersAssumption == "init" \notin EhCallers

VARIABLES
  async_head,   \* async_head_virt, or Nulo_
  alocados,     \* frames in use as queue heads
  link,         \* horizontal_link of the queue head in each frame
  ativo,        \* frames whose last qTD has EHCI_T_ACTIVE set
  atual,        \* the queue head the controller is at, or Nulo_ (schedule off)
  ehpc,         \* per caller: where it is
  qh, original, \* per caller: its frame, and original_link
  so,           \* per caller: no other transfer overlapped
  intacta,      \* the list was not built anew under a transfer
  perdida       \* since the list was built a frame was given back with the controller at it

ehVars == <<async_head, alocados, link, ativo, atual, ehpc, qh, original, so, intacta, perdida>>

Todos == EhCallers \cup {"init"}

EhTypeOK ==
  /\ async_head \in Quadros \cup {Nulo_} /\ atual \in Quadros \cup {Nulo_, Term}
  /\ alocados \subseteq Quadros /\ ativo \subseteq Quadros
  /\ link \in [Quadros -> Quadros \cup {Nulo_, Term}]
  /\ ehpc \in [Todos -> {"fora", "dentro", "leu", "espera", "solta"}]
  /\ \A p \in EhCallers : ehpc[p] \in {"fora", "leu", "espera"}
  /\ qh \in [Todos -> Quadros \cup {Nulo_}]
  /\ original \in [Todos -> Quadros \cup {Nulo_, Term}]
  /\ so \in [Todos -> BOOLEAN] /\ intacta \in BOOLEAN /\ perdida \in BOOLEAN

EhInit ==
  /\ async_head = Nulo_ /\ atual = Nulo_
  /\ alocados = {} /\ ativo = {}
  /\ link = [f \in Quadros |-> Nulo_]
  /\ ehpc = [p \in Todos |-> "fora"]
  /\ qh = [p \in Todos |-> Nulo_]
  /\ original = [p \in Todos |-> Nulo_]
  /\ so = [p \in Todos |-> FALSE] /\ intacta = TRUE /\ perdida = FALSE

Livres == Quadros \ alocados
Ocupados == {p \in Todos : ehpc[p] \in {"leu", "espera"}}

(* Inside SYS_TESTINIT no task runs. *)
Pode_(p) == p = "init" \/ ehpc["init"] = "fora"
Parado(p) == IF p = "init" THEN "dentro" ELSE "fora"

-----------------------------------------------------------------------------
(* ehci_enviar_bulk and ehci_enviar_controle *)

(* A frame, the queue head in it, and the read of the head's link. *)
Monta_(p) ==
  /\ Pode_(p) /\ ehpc[p] = Parado(p) /\ async_head # Nulo_
  /\ \E f \in Livres :
       /\ alocados' = alocados \cup {f}
       /\ link' = [link EXCEPT ![f] = Term]
       /\ ativo' = ativo \cup {f}
       /\ qh' = [qh EXCEPT ![p] = f]
       /\ original' = [original EXCEPT ![p] = link[async_head]]
  /\ ehpc' = [ehpc EXCEPT ![p] = "leu"]
  /\ so' = [q \in Todos |-> IF q = p THEN Ocupados = {} ELSE so[q] /\ q \notin Ocupados]
  /\ UNCHANGED <<async_head, atual, intacta, perdida>>

(* The two stores that put it behind the head, with the link read before. *)
Insere(p) ==
  /\ Pode_(p) /\ ehpc[p] = "leu"
  /\ link' = [link EXCEPT ![qh[p]] = original[p], ![async_head] = qh[p]]
  /\ ehpc' = [ehpc EXCEPT ![p] = "espera"]
  /\ UNCHANGED <<async_head, alocados, ativo, atual, qh, original, so, intacta, perdida>>

(* Mutant of Devolve: a bulk transfer gives its frame back as a control one does. *)
DevolveSempre(p) == qh[p] \notin ativo

(* Only a control transfer that ended well frees its frame.  Only init sends them. *)
Devolve(p) == p = "init" /\ qh[p] \notin ativo

(* The qTD ended or the wait ran out: the link found is restored, into the  *)
(* head of this moment.  What follows may be the release of the frame.      *)
Remove(p) ==
  /\ Pode_(p) /\ ehpc[p] = "espera"
  /\ link' = [link EXCEPT ![async_head] = original[p]]
  /\ \/ ehpc' = [ehpc EXCEPT ![p] = Parado(p)]
     \/ Devolve(p) /\ ehpc' = [ehpc EXCEPT ![p] = "solta"]
  /\ UNCHANGED <<async_head, alocados, ativo, atual, qh, original, so, intacta, perdida>>

(* pmm_free_block, wherever the controller is. *)
Libera_(p) ==
  /\ Pode_(p) /\ ehpc[p] = "solta"
  /\ alocados' = alocados \ {qh[p]}
  /\ perdida' = (perdida \/ atual = qh[p])
  /\ ehpc' = [ehpc EXCEPT ![p] = Parado(p)]
  /\ UNCHANGED <<async_head, link, ativo, atual, qh, original, so, intacta>>

(* A frame that was given back is somebody else's, who writes into it. *)
Reusa(f) ==
  /\ f \in Livres /\ link[f] # Nulo_
  /\ link' = [link EXCEPT ![f] = Nulo_]
  /\ UNCHANGED <<async_head, alocados, ativo, atual, ehpc, qh, original, so, intacta, perdida>>

-----------------------------------------------------------------------------
(* SYS_TESTINIT *)

(* ehci_core_init stops the controller and ehci_init_async_list gives it a   *)
(* new list; the old head and what hangs on it stay allocated.               *)
NovaLista ==
  /\ ehpc["init"] = "fora"
  /\ \E f \in Livres :
       /\ alocados' = alocados \cup {f}
       /\ link' = [link EXCEPT ![f] = f]
       /\ ativo' = ativo \ {f}
       /\ async_head' = f
       /\ atual' = f
  /\ ehpc' = [ehpc EXCEPT !["init"] = "dentro"]
  /\ intacta' = (Ocupados = {}) /\ perdida' = FALSE
  /\ UNCHANGED <<qh, original, so>>

(* Or it fails before that: the controller is left stopped, with the old list. *)
ParaControladora ==
  /\ ehpc["init"] = "fora" /\ atual # Nulo_
  /\ atual' = Nulo_
  /\ UNCHANGED <<async_head, alocados, link, ativo, ehpc, qh, original, so, intacta, perdida>>

FimTestInit ==
  /\ ehpc["init"] = "dentro"
  /\ ehpc' = [ehpc EXCEPT !["init"] = "fora"]
  /\ UNCHANGED <<async_head, alocados, link, ativo, atual, qh, original, so, intacta, perdida>>

-----------------------------------------------------------------------------
(* The controller executes the queue head it is at ... *)
Executa ==
  /\ atual \in ativo
  /\ ativo' = ativo \ {atual}
  /\ UNCHANGED <<async_head, alocados, link, atual, ehpc, qh, original, so, intacta, perdida>>

(* ... and follows its link, some time after. *)
Percorre ==
  /\ atual \in Quadros
  /\ atual' = link[atual]
  /\ UNCHANGED <<async_head, alocados, link, ativo, ehpc, qh, original, so, intacta, perdida>>

EhNext ==
  \/ \E p \in Todos : Monta_(p) \/ Insere(p) \/ Remove(p) \/ Libera_(p)
  \/ \E f \in Quadros : Reusa(f)
  \/ NovaLista \/ ParaControladora \/ FimTestInit
  \/ Executa \/ Percorre

EhSpec == EhInit /\ [][EhNext]_ehVars

-----------------------------------------------------------------------------
(* No link leaves the set S of frames. *)
Fechado(S) == \A g \in S : link[g] \in Quadros => link[g] \in S

(* The frames the controller comes to from f. *)
Alcance(f) == {g \in Quadros : \A S \in SUBSET Quadros : f \in S /\ Fechado(S) => g \in S}

(* No frame that was given back hangs on the list.  Of two transfers that     *)
(* overlap one restores a link to the other's ended queue head; only because  *)
(* that frame is never freed, and a control transfer is never overlapped, the *)
(* list stays sound.  The controller leaves the list in one way only: a       *)
(* control transfer's frame is given back while it stands on it (perdida).    *)
NoFreedFrameLinked ==
  /\ async_head \in Quadros => Alcance(async_head) \subseteq alocados
  /\ atual \in Quadros /\ ~perdida => Alcance(atual) \subseteq alocados

(* A transfer that no other overlaps is seen: whatever earlier transfers left *)
(* behind, the controller comes to its queue head, wherever it is now.  Two   *)
(* things end that: a list built anew under a transfer, which links the new   *)
(* head to the old one, whose cycle the controller then never leaves, and a   *)
(* controller that was led away by a freed frame.                             *)
AloneIsSeen ==
  \A p \in Todos :
    /\ ehpc[p] = "espera" /\ so[p] /\ intacta /\ qh[p] \in ativo
    /\ atual # Nulo_ /\ ~perdida
    => atual \in Quadros /\ qh[p] \in Alcance(atual)

(* The asynchronous list stays sound (ehci_storage.c:83-112, ehci_core.c:216-247)     *)
(* and serves a transfer.                                                             *)
ListSound == NoFreedFrameLinked /\ AloneIsSeen

(* "Removemos da lista" (ehci_core.c:228), and then the frame is freed: the controller *)
(* is never at a frame that was given back.                                            *)
RemovedIsLeft == atual \in Quadros => atual \in alocados
=============================================================================
