-------------------------------- MODULE Ahci --------------------------------
(***************************************************************************)
(* drivers/hw/ahci_*.c: the SATA driver.  ahci_hal_inicializar looks for   *)
(* the first port with a disk; ahci_hal_ler issues a command in slot 0,    *)
(* polls for its end and copies the one bounce buffer to the caller.       *)
(* Kernel tasks call it with interrupts enabled and no lock.               *)
(*                                                                         *)
(* The controller fetches the command table some time after PxCI is set,   *)
(* which may be after another caller has written it again.  The polling    *)
(* counters are unsigned and tested after `while (timeout--)`.             *)
(***************************************************************************)
EXTENDS Integers, FiniteSets

CONSTANTS
  AhCallers,    \* kernel tasks that read the disk
  Setores,      \* sectors they ask for
  PollLimit,    \* turns of a polling loop (2000000 in the code)
  Discos,       \* ports with a SATA disk
  U32           \* 2^32, the modulus of a uint32_t (any modulus above PollLimit will do)

ASSUME PollAssumption == PollLimit \in Nat \ {0} /\ U32 \in Nat /\ U32 > PollLimit + 1
ASSUME PortsAssumption == Discos \subseteq 0..31

NaoHa == "nada"
SemPorta == -1

VARIABLES
  inicializado,  \* g_ahci_driver: "nao", "sim", "falhou"
  porta_ativa,   \* the port the driver reads, or SemPorta
  tabela,        \* the sector in the command table of slot 0
  ci,            \* bit 0 of PxCI
  buscado,       \* the sector of the command the disk is executing, or NaoHa
  erro,          \* PxIS or PxTFD reports an error
  bounce,        \* the sector whose data the bounce buffer holds
  ahpc, lba,     \* per caller: where it is, and the sector it asked for
  timeout,       \* per caller: the polling counter
  ret,           \* per caller: what ahci_hal_ler returned last
  dados,         \* per caller: the sector whose data it was given
  sobre          \* per caller: another caller was in ahci_hal_ler meanwhile, or
                 \* the disk still worked on a command that had been given up

ahVars == <<inicializado, porta_ativa, tabela, ci, buscado, erro, bounce,
            ahpc, lba, timeout, ret, dados, sobre>>
ahCaller == <<ahpc, lba, timeout, ret, dados, sobre>>
ahHba    == <<tabela, ci, buscado, erro, bounce>>
ahDriver == <<inicializado, porta_ativa>>

AhTypeOK ==
  /\ inicializado \in {"nao", "sim", "falhou"}
  /\ porta_ativa \in Discos \cup {SemPorta}
  /\ {tabela, buscado, bounce} \subseteq Setores \cup {NaoHa}
  /\ ci \in BOOLEAN /\ erro \in BOOLEAN
  /\ timeout \in [AhCallers -> 0..(U32 - 1)]
  /\ dados \in [AhCallers -> Setores \cup {NaoHa}]

AhInit ==
  /\ inicializado = "nao" /\ porta_ativa = SemPorta
  /\ tabela = NaoHa /\ ci = FALSE /\ buscado = NaoHa /\ erro = FALSE
  /\ bounce = NaoHa
  /\ ahpc = [p \in AhCallers |-> "fora"]
  /\ lba = [p \in AhCallers |-> NaoHa]
  /\ timeout = [p \in AhCallers |-> 0]
  /\ ret = [p \in AhCallers |-> "nada"]
  /\ dados = [p \in AhCallers |-> NaoHa]
  /\ sobre = [p \in AhCallers |-> FALSE]

-----------------------------------------------------------------------------
(* ahci_hal_inicializar *)

(* ahci_pci_detectar and ahci_vmm_mapear_abar: the controller is there or not. *)
Encontrada == BOOLEAN

(* ahci_reset_controladora counts the ports whose link came up and whose       *)
(* signature is that of a SATA disk; some may not answer the COMRESET.         *)
Respondem == SUBSET Discos

(* ahci_mem_configurar_porta fails only when its loop ends in its last turn:  *)
(* a counter that ran out stands at 2^32 - 1, not at 0.                       *)
Configuradas == SUBSET Discos

Inicializa ==
  /\ inicializado = "nao"
  /\ \E achada \in Encontrada, vivos \in Respondem, boas \in Configuradas :
       IF achada /\ vivos # {} /\ boas # {}
       THEN /\ porta_ativa' = CHOOSE p \in boas : \A q \in boas : p <= q
            /\ inicializado' = "sim"
       ELSE inicializado' = "falhou" /\ UNCHANGED porta_ativa
  /\ UNCHANGED <<ahHba, ahCaller>>

-----------------------------------------------------------------------------
(* ahci_hal_ler *)

Volta(p, r) ==
  /\ ret' = [ret EXCEPT ![p] = r]
  /\ ahpc' = [ahpc EXCEPT ![p] = "fora"]

NaoPronto(p) ==
  /\ inicializado # "sim" /\ ahpc[p] = "fora"
  /\ Volta(p, "-1")
  /\ UNCHANGED <<lba, timeout, dados, sobre, ahHba, ahDriver>>

(* Mutant of MontaTabela: the table keeps the sector of the command before. *)
MontaAntigo(s) == IF tabela = NaoHa THEN s ELSE tabela

(* What ahci_cmd_ler_setores puts in the command table. *)
MontaTabela(s) == s

(* ahci_cmd_ler_setores up to the write of PxCI: the table, then the bit. *)
MontaComando(p) ==
  /\ inicializado = "sim" /\ ahpc[p] = "fora"
  /\ \E s \in Setores : lba' = [lba EXCEPT ![p] = s] /\ tabela' = MontaTabela(s)
  /\ erro' = FALSE
  /\ ahpc' = [ahpc EXCEPT ![p] = "emite"]
  /\ LET outros == {q \in AhCallers \ {p} : ahpc[q] # "fora"}
     IN  sobre' = [q \in AhCallers |-> IF q = p THEN ci \/ outros # {}
                                       ELSE sobre[q] \/ q \in outros]
  /\ UNCHANGED <<timeout, ret, dados, ci, buscado, bounce, ahDriver>>

Emite(p) ==
  /\ ahpc[p] = "emite"
  /\ ci' = TRUE
  /\ timeout' = [timeout EXCEPT ![p] = PollLimit]
  /\ ahpc' = [ahpc EXCEPT ![p] = "espera"]
  /\ UNCHANGED <<lba, ret, dados, sobre, tabela, buscado, erro, bounce, ahDriver>>

(* One turn of the polling loop. *)
Espera(p) ==
  /\ ahpc[p] = "espera"
  /\ timeout' = [timeout EXCEPT ![p] = (@ + U32 - 1) % U32]
  /\ IF timeout[p] = 0 \/ ~ci
     THEN ahpc' = [ahpc EXCEPT ![p] = "fim"] /\ UNCHANGED <<ret, erro>>
     ELSE IF erro
     THEN Volta(p, "-3") /\ erro' = FALSE
     ELSE UNCHANGED <<ahpc, ret, erro>>
  /\ UNCHANGED <<lba, dados, sobre, tabela, ci, buscado, bounce, ahDriver>>

(* After the loop: `if (timeout == 0) return false`, and the copy out of the *)
(* bounce buffer.                                                            *)
Entrega(p) ==
  /\ ahpc[p] = "fim"
  /\ IF timeout[p] = 0
     THEN Volta(p, "-3") /\ UNCHANGED dados
     ELSE dados' = [dados EXCEPT ![p] = bounce] /\ Volta(p, "0")
  /\ UNCHANGED <<lba, timeout, sobre, ahHba, ahDriver>>

-----------------------------------------------------------------------------
(* The disk *)

Busca_ == ci /\ buscado = NaoHa /\ buscado' = tabela
          /\ UNCHANGED <<tabela, ci, erro, bounce, ahCaller, ahDriver>>

Termina_ == buscado # NaoHa /\ bounce' = buscado /\ buscado' = NaoHa /\ ci' = FALSE
            /\ UNCHANGED <<tabela, erro, ahCaller, ahDriver>>

FalhaDisco == buscado # NaoHa /\ ~erro /\ erro' = TRUE
              /\ UNCHANGED <<tabela, ci, buscado, bounce, ahCaller, ahDriver>>

AhNext ==
  \/ Inicializa
  \/ \E p \in AhCallers : NaoPronto(p) \/ MontaComando(p) \/ Emite(p) \/ Espera(p) \/ Entrega(p)
  \/ Busca_ \/ Termina_ \/ FalhaDisco

AhSpec == AhInit /\ [][AhNext]_ahVars

-----------------------------------------------------------------------------
(* The polling loop of p ran out. *)
Expirou(p) == timeout[p] = U32 - 1

(* A read that returned 0 delivers the sector it asked for, unless another   *)
(* caller was in the driver at the time, the disk did not answer in time, or *)
(* it was still busy with a command whose caller had given up.               *)
OwnSector ==
  \A p \in AhCallers :
    ahpc[p] = "fora" /\ ret[p] = "0" /\ ~sobre[p] /\ ~Expirou(p)
    => dados[p] = lba[p]

(* "Falha por Timeout (o disco congelou)": a read whose polling ran out does *)
(* not report success.                                                       *)
TimeoutReported ==
  \A p \in AhCallers : ahpc[p] = "fora" /\ Expirou(p) => ret[p] # "0"
=============================================================================
