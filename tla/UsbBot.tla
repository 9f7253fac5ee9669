------------------------------- MODULE UsbBot -------------------------------
(***************************************************************************)
(* drivers/pd/ehci_storage.c over ehci_enviar_bulk: the bulk-only protocol *)
(* of a USB disk.  A command is three transfers: the command wrapper out,  *)
(* the data in, the status wrapper in.  The driver keeps the data toggles  *)
(* of both endpoints itself, gives up when a transfer fails or the status  *)
(* is not good, and starts the next command as if nothing were pending.    *)
(* Kernel tasks read with interrupts enabled and no lock; SYS_TESTINIT     *)
(* runs without interrupts (its own reads of sectors are those of a task). *)
(*                                                                         *)
(* The device is external: it answers a command in full, or with a failed  *)
(* status after as much data as it likes; it keeps its own toggles, drops  *)
(* a packet whose toggle is not the expected one, and what it makes of a   *)
(* wrapper that comes while it has an answer pending is left open.         *)
(***************************************************************************)
EXTENDS Integers, Sequences

CONSTANTS
  Tarefas,     \* kernel tasks that read the disk
  MaxComandos  \* bound: after this many commands no new read or SYS_TESTINIT starts

ASSUME TarefasAssumption == "init" \notin Tarefas
ASSUME MaxComandosAssumption == MaxComandos \in Nat \ {0}

VARIABLES
  dma,                    \* async_head_virt is set
  par,                    \* usb_bulk_out_ep, usb_bulk_in_ep: index of ep_pairs
  global_cbw_tag,
  toggle_out, toggle_in,
  cmd,                    \* per caller: its command and the transfer under way
  tentativa,              \* ehci_storage_init: commands tried so far
  eps,                    \* the device's endpoints: index of ep_pairs
  dtout, dtin, fila,      \* the device's toggles and the packets it has to send
  limpo                   \* since the last start no transfer failed, fell short or overlapped;
                          \* a start finds the device's toggles at 0 and no answer pending

ubHost == <<dma, par, global_cbw_tag, toggle_out, toggle_in, tentativa>>
ubDev  == <<dtout, dtin, fila>>
ubVars == <<ubHost, cmd, eps, ubDev, limpo>>

Quem_    == Tarefas \cup {"init"}
Pares    == << <<1, 1>>, <<2, 1>>, <<1, 2>> >>     \* ep_pairs
Inverte(b) == 1 - b

(* quer: packets still to come in this transfer; lidos: per packet of data read, *)
(* the command it belongs to, or 0 when it is not its data; csw, bom: the tag of *)
(* the status wrapper, and whether its signature and its status are good.        *)
Nenhum_ == [fase |-> "fora", voo |-> "nao", t |-> 0, quer |-> 0, tag |-> 0, n |-> 0,
            lidos |-> <<>>, csw |-> 0, bom |-> FALSE]

UbTypeOK ==
  /\ dma \in BOOLEAN /\ limpo \in BOOLEAN
  /\ par \in DOMAIN Pares /\ eps \in DOMAIN Pares
  /\ {toggle_out, toggle_in, dtout, dtin} \subseteq {0, 1}
  /\ \A p \in Quem_ : /\ cmd[p].fase \in {"fora", "cbw", "dados", "csw"}
                      /\ cmd[p].voo \in {"nao", "ativo", "ok", "erro"}
                      /\ Len(cmd[p].lidos) <= cmd[p].n
  /\ tentativa \in 0..9

UbInit ==
  /\ dma = FALSE /\ par = 1 /\ global_cbw_tag = 1
  /\ toggle_out = 0 /\ toggle_in = 0
  /\ cmd = [p \in Quem_ |-> Nenhum_]
  /\ tentativa = 0
  /\ eps \in DOMAIN Pares
  /\ dtout = 0 /\ dtin = 0 /\ fila = <<>>
  /\ limpo = TRUE

(* SYS_TESTINIT keeps the CPU from its beginning to its end. *)
Pode(p) == p = "init" \/ cmd["init"].fase = "fora"
EmCurso == {p \in Quem_ : cmd[p].fase # "fora"}

-----------------------------------------------------------------------------
(* gerar_proximo_tag *)
NovoTag(x) == x + 1

(* A command of n packets of data: its wrapper is the first transfer. *)
Comando(n, tOut) ==
  [Nenhum_ EXCEPT !.fase = "cbw", !.voo = "ativo", !.t = tOut, !.quer = 1,
                  !.tag = global_cbw_tag, !.n = n]

(* ehci_storage_read_sectors of one or two sectors. *)
LeSetores(p) ==
  /\ p \in Tarefas /\ Pode(p) /\ cmd[p].fase = "fora" /\ dma
  /\ global_cbw_tag <= MaxComandos
  /\ \E n \in {1, 2} : cmd' = [cmd EXCEPT ![p] = Comando(n, toggle_out)]
  /\ global_cbw_tag' = NovoTag(global_cbw_tag)
  /\ limpo' = (limpo /\ EmCurso = {})
  /\ UNCHANGED <<dma, par, toggle_out, toggle_in, tentativa, eps, ubDev>>

(* SYS_TESTINIT stops the controller, so the transfers of tasks will time out. *)
Corta == [p \in Quem_ |-> IF cmd[p].voo = "ativo" THEN [cmd[p] EXCEPT !.voo = "erro"] ELSE cmd[p]]

(* The device is reset. *)
Zera == dtout' = 0 /\ dtin' = 0 /\ fila' = <<>>

(* The controller and the device are reset and configured, and READ CAPACITY   *)
(* is tried, eight bytes in one packet; or it fails on the way.                *)
TestInit ==
  /\ Pode("init") /\ cmd["init"].fase = "fora" /\ global_cbw_tag <= MaxComandos
  /\ tentativa' = 0
  /\ UNCHANGED eps
  /\ \/ /\ dma' = TRUE
        /\ Zera
        /\ cmd' = [Corta EXCEPT !["init"] = Comando(1, 0)]
        /\ global_cbw_tag' = NovoTag(global_cbw_tag)
        /\ par' = 1 /\ toggle_out' = 0 /\ toggle_in' = 0
        /\ limpo' = (EmCurso = {})
     \/ /\ dma' \in {dma, TRUE}
        /\ Zera \/ UNCHANGED ubDev
        /\ cmd' = Corta /\ limpo' = FALSE
        /\ UNCHANGED <<par, global_cbw_tag, toggle_out, toggle_in>>

-----------------------------------------------------------------------------
(* The controller and the device *)

Entra(p) == cmd[p].fase \in {"dados", "csw"}
Endereca(p) == IF Entra(p) THEN Pares[par][2] = Pares[eps][2] ELSE Pares[par][1] = Pares[eps][1]

(* m packets of data and the status.  The packets of READ CAPACITY, and the one *)
(* that ends a short answer, have fewer bytes than a status wrapper.            *)
Resposta(p, m, bom) ==
  LET k == cmd[p]
      tipo(i) == IF i > m THEN "csw" ELSE IF p = "init" \/ (i = m /\ m < k.n) THEN "pouco" ELSE "setor"
  IN  [i \in 1..(m + 1) |-> [tag |-> k.tag, tipo |-> tipo(i), bom |-> bom]]

(* All of the data, or a failed status after less of it.  A device that has no *)
(* data ends the transfer with an empty packet, or stalls it (Expira).         *)
Respostas(p) ==
  {Resposta(p, cmd[p].n, TRUE)} \cup {Resposta(p, m, FALSE) : m \in 1..cmd[p].n}

(* The wrapper reaches the device.  One with the wrong toggle is acknowledged *)
(* and dropped; one that comes too early is refused, or replaces the pending  *)
(* answer, or is answered after it.                                           *)
PacoteOut(p) ==
  /\ Pode(p) /\ cmd[p].fase = "cbw" /\ cmd[p].voo = "ativo" /\ Endereca(p)
  /\ IF cmd[p].t # dtout
     THEN cmd' = [cmd EXCEPT ![p].voo = "ok"] /\ UNCHANGED <<dtout, fila, limpo>>
     ELSE \/ /\ fila # <<>>
             /\ cmd' = [cmd EXCEPT ![p].voo = "erro"]
             /\ limpo' = FALSE /\ UNCHANGED <<dtout, fila>>
          \/ /\ \E r \in Respostas(p) : fila' \in {r, fila \o r}
             /\ dtout' = Inverte(dtout)
             /\ cmd' = [cmd EXCEPT ![p].voo = "ok"] /\ UNCHANGED limpo
  /\ UNCHANGED <<ubHost, eps, dtin>>

(* No more bytes than the transfer asked for: eight, 13, or sectors. *)
CabePacote(p, k) ==
  /\ cmd[p].fase = "csw" => k.tipo # "setor"
  /\ cmd[p].fase = "dados" /\ p = "init" => k.tipo = "pouco"

(* A packet from the device.  The controller drops one with the wrong toggle; *)
(* one that is too long is an error, one that is not full ends the transfer.  *)
PacoteIn(p) ==
  /\ Pode(p) /\ Entra(p) /\ cmd[p].voo = "ativo" /\ Endereca(p) /\ fila # <<>>
  /\ LET k == Head(fila)
         recebe == [cmd[p] EXCEPT !.t = Inverte(@), !.quer = @ - 1,
                                  !.voo = IF k.tipo # "setor" \/ cmd[p].quer = 1 THEN "ok" ELSE "ativo"]
     IN  IF cmd[p].t = dtin /\ ~CabePacote(p, k)
         THEN cmd' = [cmd EXCEPT ![p].voo = "erro"] /\ limpo' = FALSE /\ UNCHANGED <<fila, dtin>>
         ELSE /\ fila' = Tail(fila) /\ dtin' = Inverte(dtin) /\ UNCHANGED limpo
              /\ CASE cmd[p].t # dtin -> UNCHANGED cmd
                   [] cmd[p].t = dtin /\ cmd[p].fase = "dados" ->
                        cmd' = [cmd EXCEPT ![p] = [recebe EXCEPT
                          !.lidos = Append(@, IF k.bom /\ k.tipo # "csw" THEN k.tag ELSE 0)]]
                   [] cmd[p].t = dtin /\ cmd[p].fase = "csw" ->
                        cmd' = [cmd EXCEPT ![p] = [recebe EXCEPT
                          !.csw = k.tag, !.bom = k.bom /\ k.tipo = "csw"]]
  /\ UNCHANGED <<ubHost, eps, dtout>>

(* The wait runs out, even in the turn in which the transfer ends; or the    *)
(* controller reports an error.                                              *)
Expira(p) ==
  /\ Pode(p) /\ cmd[p].voo \in {"ativo", "ok"}
  /\ cmd' = [cmd EXCEPT ![p].voo = "erro"]
  /\ limpo' = FALSE
  /\ UNCHANGED <<ubHost, eps, ubDev>>

-----------------------------------------------------------------------------
(* Mutant of Vira: the toggle is inverted once per transfer. *)
ViraSempre(b, pacotes) == Inverte(b)

(* After a good transfer, by the number of packets it should have had. *)
Vira(b, pacotes) == IF pacotes % 2 = 1 THEN Inverte(b) ELSE b

(* Mutant of Falhou: the status wrapper is read and not looked at. *)
FalhouNunca(c) == FALSE

(* The signature or the status is not good.  The tag is not compared. *)
Falhou(c) == ~c.bom

(* A transfer that ended well, and the next one of ehci_bot_transfer. *)
SegueCbw(p) ==
  /\ cmd[p].fase = "cbw"
  /\ toggle_out' = Vira(toggle_out, 1) /\ UNCHANGED <<toggle_in, limpo>>
  /\ cmd' = [cmd EXCEPT ![p].fase = "dados", ![p].voo = "ativo",
                        ![p].quer = cmd[p].n, ![p].t = toggle_in]

SegueDados(p) ==
  /\ cmd[p].fase = "dados"
  /\ toggle_in' = Vira(toggle_in, cmd[p].n) /\ UNCHANGED toggle_out
  /\ limpo' = (limpo /\ cmd[p].quer = 0)
  /\ cmd' = [cmd EXCEPT ![p].fase = "csw", ![p].voo = "ativo", ![p].quer = 1, ![p].t = toggle_in']

SegueCsw(p) ==
  /\ cmd[p].fase = "csw"
  /\ toggle_in' = Vira(toggle_in, 1) /\ UNCHANGED <<toggle_out, limpo>>
  /\ cmd' = [cmd EXCEPT ![p] = IF Falhou(cmd[p]) THEN [cmd[p] EXCEPT !.voo = "erro"] ELSE Nenhum_]

Segue(p) ==
  /\ Pode(p) /\ cmd[p].voo = "ok"
  /\ SegueCbw(p) \/ SegueDados(p) \/ SegueCsw(p)
  /\ UNCHANGED <<dma, par, global_cbw_tag, tentativa, eps, ubDev>>

(* A transfer or a status that failed ends the command of a task ... *)
Desiste(p) ==
  /\ p \in Tarefas /\ Pode(p) /\ cmd[p].voo = "erro"
  /\ cmd' = [cmd EXCEPT ![p] = Nenhum_]
  /\ UNCHANGED <<ubHost, eps, ubDev, limpo>>

(* ... and ehci_storage_init tries again: three times with each pair, the    *)
(* host's toggles back at 0 with every new pair, but not the device's.       *)
Insiste ==
  /\ cmd["init"].voo = "erro"
  /\ LET k == tentativa + 1
         troca == k % 3 = 0
         tOut == IF troca THEN 0 ELSE toggle_out
     IN  IF k = 9
         THEN cmd' = [cmd EXCEPT !["init"] = Nenhum_] /\ UNCHANGED <<ubHost, limpo>>
         ELSE /\ tentativa' = k
              /\ par' = IF troca THEN par + 1 ELSE par
              /\ toggle_out' = tOut
              /\ toggle_in' = IF troca THEN 0 ELSE toggle_in
              /\ cmd' = [cmd EXCEPT !["init"] = Comando(1, tOut)]
              /\ global_cbw_tag' = NovoTag(global_cbw_tag)
              /\ limpo' = IF troca THEN ubDev = <<0, 0, <<>>>> /\ EmCurso = {"init"} ELSE limpo
              /\ UNCHANGED dma
  /\ UNCHANGED <<eps, ubDev>>

UbNext ==
  \/ \E p \in Tarefas : LeSetores(p) \/ Desiste(p)
  \/ \E p \in Quem_ : PacoteOut(p) \/ PacoteIn(p) \/ Expira(p) \/ Segue(p)
  \/ TestInit \/ Insiste

UbSpec == UbInit /\ [][UbNext]_ubVars

-----------------------------------------------------------------------------
(* The command will be taken for a success. *)
Sucede(p) == cmd[p].fase = "csw" /\ cmd[p].voo = "ok" /\ ~Falhou(cmd[p])

(* The driver and the disk stay in step (ehci_storage.c:76-104): as long as no   *)
(* transfer failed, no answer fell short, no two commands overlapped and no new  *)
(* pair of endpoints found the device's toggles elsewhere, the toggles the       *)
(* driver keeps are those of the device, in every transfer under way and between *)
(* two commands.  A failed status, and a retry with the same pair, keep them so. *)
(* A driver that is one packet out of step loses the next one.                   *)
InStep ==
  limpo =>
    /\ \A p \in EmCurso : cmd[p].voo = "ativo" => cmd[p].t = IF Entra(p) THEN dtin ELSE dtout
    /\ EmCurso = {} => toggle_out = dtout /\ toggle_in = dtin

(* Then, too, a command succeeds only with its own data, every packet of it      *)
(* (ehci_storage.c:114-133).                                                     *)
OwnData ==
  \A p \in Quem_ : limpo /\ Sucede(p) => cmd[p].lidos = [i \in 1..cmd[p].n |-> cmd[p].tag]

(* "Deve bater com o tag enviado no CBW" (ehci_storage.h:40): a command succeeds *)
(* with the status wrapper of its own tag.                                       *)
OwnTag == \A p \in Quem_ : Sucede(p) => cmd[p].csw = cmd[p].tag
=============================================================================
