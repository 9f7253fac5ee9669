----------------------------- MODULE DiskProofs -----------------------------
(***************************************************************************)
(* Proofs about the disk drivers: module Ahci, for any set of callers,     *)
(* sectors and disks and any polling limit; module EhciList, for any       *)
(* callers and any number of frames; module UsbBot, for any set of tasks   *)
(* and any number of commands, whatever fails, times out or is reset.      *)
(***************************************************************************)
EXTENDS Ahci, EhciList, UsbBot, SequenceTheorems, TLAPS

(* The types the proof needs. *)
Tipos ==
  /\ ahpc \in [AhCallers -> {"fora", "emite", "espera", "fim"}]
  /\ lba \in [AhCallers -> Setores \cup {NaoHa}]
  /\ timeout \in [AhCallers -> 0..(U32 - 1)]
  /\ ret \in [AhCallers -> {"nada", "-1", "-3", "0"}]
  /\ dados \in [AhCallers -> Setores \cup {NaoHa}]
  /\ sobre \in [AhCallers -> BOOLEAN]
  /\ ci \in BOOLEAN
  /\ {tabela, buscado, bounce} \subseteq Setores \cup {NaoHa}

Dentro(p) == ahpc[p] # "fora"

(* Alone in the driver, and the disk was idle when it came in. *)
So(p) == Dentro(p) /\ ~sobre[p]

(* The command of a caller that is alone is its own at every stage: in the table,  *)
(* in the disk, and in the bounce buffer once the controller has cleared PxCI.     *)
ComandoSeu(p) ==
  /\ \A q \in AhCallers \ {p} : ~Dentro(q)
  /\ tabela = lba[p]
  /\ ahpc[p] = "emite" => ~ci
  /\ ahpc[p] \in {"espera", "fim"} =>
       \/ ci /\ buscado \in {NaoHa, lba[p]}
       \/ ~ci /\ bounce = lba[p]
  /\ ahpc[p] = "fim" => ~ci \/ Expirou(p)

SectorInv ==
  /\ buscado # NaoHa => ci
  /\ \A p \in AhCallers : So(p) => ComandoSeu(p)
  /\ OwnSector
-----------------------------------------------------------------------------
(* A uint32_t at zero is decremented to its largest value. *)
LEMMA Estouro == /\ \A t \in 0..(U32 - 1) : (t + U32 - 1) % U32 \in 0..(U32 - 1)
                 /\ (0 + U32 - 1) % U32 = U32 - 1
BY PollAssumption

LEMMA TiposInit == AhInit => Tipos
<1>1. 0 \in 0..(U32 - 1)
  BY PollAssumption
<1> QED
  BY <1>1 DEF AhInit, Tipos

LEMMA TiposStep == Tipos /\ [AhNext]_ahVars => Tipos'
<1> SUFFICES ASSUME Tipos, [AhNext]_ahVars
             PROVE  Tipos'
  OBVIOUS
<1> USE DEF Tipos
<1>1. CASE Inicializa
  BY <1>1 DEF Inicializa, ahHba, ahCaller
<1>2. ASSUME NEW p \in AhCallers, NaoPronto(p)
      PROVE  Tipos'
  BY <1>2 DEF NaoPronto, Volta, ahHba
<1>3. ASSUME NEW p \in AhCallers, MontaComando(p)
      PROVE  Tipos'
  BY <1>3 DEF MontaComando, MontaTabela
<1>4. ASSUME NEW p \in AhCallers, Emite(p)
      PROVE  Tipos'
  <2>1. PollLimit \in 0..(U32 - 1)
    BY PollAssumption
  <2> QED
    BY <1>4, <2>1 DEF Emite
<1>5. ASSUME NEW p \in AhCallers, Espera(p)
      PROVE  Tipos'
  BY <1>5, Estouro DEF Espera, Volta
<1>6. ASSUME NEW p \in AhCallers, Entrega(p)
      PROVE  Tipos'
  BY <1>6 DEF Entrega, Volta, ahHba
<1>7. CASE Busca_ \/ Termina_ \/ FalhaDisco
  BY <1>7 DEF Busca_, Termina_, FalhaDisco, ahCaller
<1>8. CASE UNCHANGED ahVars
  BY <1>8 DEF ahVars
<1> QED
  BY <1>1, <1>2, <1>3, <1>4, <1>5, <1>6, <1>7, <1>8 DEF AhNext
-----------------------------------------------------------------------------
(* The disk's steps keep the command where it belongs. *)
LEMMA DiscoStep ==
  ASSUME Tipos, SectorInv, Busca_ \/ Termina_ \/ FalhaDisco
  PROVE  SectorInv'
<1>1. UNCHANGED <<ahpc, lba, timeout, ret, dados, sobre, tabela>>
  BY DEF Busca_, Termina_, FalhaDisco, ahCaller
<1>2. OwnSector'
  BY <1>1 DEF SectorInv, OwnSector, Expirou
<1>3. (buscado # NaoHa => ci)'
  BY DEF SectorInv, Busca_, Termina_, FalhaDisco
<1>4. ASSUME NEW p \in AhCallers, So(p)'
      PROVE  ComandoSeu(p)'
  <2>1. So(p) /\ ComandoSeu(p)
    BY <1>1, <1>4 DEF So, Dentro, SectorInv
  <2>2. CASE Busca_
    BY <1>1, <2>1, <2>2 DEF ComandoSeu, Dentro, Expirou, Busca_
  <2>3. CASE Termina_
    BY <1>1, <2>1, <2>3 DEF ComandoSeu, Dentro, Expirou, Termina_, SectorInv
  <2>4. CASE FalhaDisco
    BY <1>1, <2>1, <2>4 DEF ComandoSeu, Dentro, Expirou, FalhaDisco
  <2> QED
    BY <2>2, <2>3, <2>4
<1> QED
  BY <1>2, <1>3, <1>4 DEF SectorInv

(* What a step of p changes is its own. *)
LEMMA OutrosIs ==
  ASSUME Tipos, NEW p \in AhCallers,
         NaoPronto(p) \/ MontaComando(p) \/ Emite(p) \/ Espera(p) \/ Entrega(p)
  PROVE  \A q \in AhCallers \ {p} :
           /\ ahpc'[q] = ahpc[q] /\ lba'[q] = lba[q] /\ timeout'[q] = timeout[q]
           /\ ret'[q] = ret[q] /\ dados'[q] = dados[q] /\ (sobre[q] => sobre'[q])
           /\ ahpc[q] = "fora" => sobre'[q] = sobre[q]
BY DEF Tipos, NaoPronto, MontaComando, Emite, Espera, Entrega, Volta

(* Nobody else is alone in the driver while p works there, nor once it has come in. *)
LEMMA SozinhoIs ==
  ASSUME Tipos, SectorInv, NEW p \in AhCallers, NEW q \in AhCallers \ {p}, So(q)',
         NaoPronto(p) \/ MontaComando(p) \/ Emite(p) \/ Espera(p) \/ Entrega(p)
  PROVE  NaoPronto(p) /\ So(q)
<1>1. Dentro(q) /\ ahpc'[q] = ahpc[q]
  BY OutrosIs DEF So, Dentro
<1>2. ~sobre[q]
  BY OutrosIs DEF So, Tipos
<1>3. ~Dentro(p)
  BY <1>1, <1>2 DEF SectorInv, So, ComandoSeu
<1>4. ~MontaComando(p)
  BY <1>1 DEF So, Dentro, MontaComando
<1> QED
  BY <1>1, <1>2, <1>3, <1>4 DEF Emite, Espera, Entrega, Dentro, So

(* A step of a caller. *)
LEMMA CallerStep ==
  ASSUME Tipos, SectorInv, NEW p \in AhCallers,
         NaoPronto(p) \/ MontaComando(p) \/ Emite(p) \/ Espera(p) \/ Entrega(p),
         So(p)' => ComandoSeu(p)',
         (ahpc[p] = "fora" /\ ret[p] = "0" /\ ~sobre[p] /\ ~Expirou(p) => dados[p] = lba[p])',
         (buscado # NaoHa => ci)'
  PROVE  SectorInv'
<1>1. ASSUME NEW q \in AhCallers, q # p, So(q)'
      PROVE  ComandoSeu(q)'
  <2>1. NaoPronto(p) /\ So(q) /\ ComandoSeu(q)
    BY <1>1, SozinhoIs DEF SectorInv
  <2>2. \A r \in AhCallers : ahpc'[r] = ahpc[r]
    BY <2>1, OutrosIs DEF NaoPronto, Volta, Tipos
  <2> QED
    BY <1>1, <2>1, <2>2 DEF NaoPronto, ComandoSeu, Dentro, Expirou, ahHba
<1>2. ASSUME NEW q \in AhCallers, q # p,
             (ahpc[q] = "fora" /\ ret[q] = "0" /\ ~sobre[q] /\ ~Expirou(q))'
      PROVE  dados'[q] = lba'[q]
  <2>1. /\ ahpc[q] = "fora" /\ ret[q] = "0" /\ ~sobre[q] /\ ~Expirou(q)
        /\ dados'[q] = dados[q] /\ lba'[q] = lba[q]
    BY <1>2, OutrosIs DEF Expirou
  <2> QED
    BY <2>1 DEF SectorInv, OwnSector
<1> QED
  BY <1>1, <1>2 DEF SectorInv, OwnSector

LEMMA SectorStep == Tipos /\ SectorInv /\ [AhNext]_ahVars => SectorInv'
<1> SUFFICES ASSUME Tipos, SectorInv, [AhNext]_ahVars
             PROVE  SectorInv'
  OBVIOUS
<1>1. CASE Inicializa \/ UNCHANGED ahVars
  <2>1. UNCHANGED <<ahpc, lba, timeout, ret, dados, sobre, tabela, ci, buscado, bounce>>
    BY <1>1 DEF Inicializa, ahVars, ahHba, ahCaller
  <2> QED
    BY <2>1 DEF SectorInv, OwnSector, So, ComandoSeu, Dentro, Expirou
<1>2. ASSUME NEW p \in AhCallers, NaoPronto(p)
      PROVE  SectorInv'
  <2>1. ahpc'[p] = "fora" /\ ret'[p] = "-1" /\ UNCHANGED <<ci, buscado>>
    BY <1>2 DEF NaoPronto, Volta, ahHba, Tipos
  <2> QED
    BY <1>2, <2>1, CallerStep DEF So, Dentro, SectorInv
<1>3. ASSUME NEW p \in AhCallers, MontaComando(p)
      PROVE  SectorInv'
  <2>1. /\ ahpc'[p] = "emite" /\ tabela' = lba'[p] /\ UNCHANGED <<ci, buscado>>
        /\ sobre'[p] = (ci \/ \E q \in AhCallers \ {p} : ahpc[q] # "fora")
    BY <1>3 DEF MontaComando, MontaTabela, Tipos
  <2>2. So(p)' => ComandoSeu(p)'
    <3> SUFFICES ASSUME So(p)'
                 PROVE  ComandoSeu(p)'
      OBVIOUS
    <3>1. ~ci /\ \A q \in AhCallers \ {p} : ahpc[q] = "fora"
      BY <2>1 DEF So
    <3>2. \A q \in AhCallers \ {p} : ahpc'[q] = "fora"
      BY <1>3, <3>1, OutrosIs
    <3> QED
      BY <2>1, <3>1, <3>2 DEF ComandoSeu, Dentro
  <2> QED
    BY <1>3, <2>1, <2>2, CallerStep DEF SectorInv
<1>4. ASSUME NEW p \in AhCallers, Emite(p) \/ Espera(p) \/ Entrega(p)
      PROVE  SectorInv'
  <2>0. UNCHANGED <<lba, sobre, tabela, buscado, bounce>> /\ Dentro(p)
        /\ (ci => ci')
    BY <1>4 DEF Emite, Espera, Entrega, Volta, ahHba, Dentro
  <2>1. \A q \in AhCallers \ {p} : ahpc'[q] = ahpc[q]
    BY <1>4, OutrosIs
  <2>2. (buscado # NaoHa => ci)'
    BY <2>0 DEF SectorInv
  <2>3. So(p)' => ComandoSeu(p)
    BY <2>0 DEF SectorInv, So
  <2>4. CASE Emite(p)
    <3>1. ahpc[p] = "emite" /\ ahpc'[p] = "espera" /\ ci'
      BY <2>4 DEF Emite, Tipos
    <3>2. So(p)' => ComandoSeu(p)'
      BY <2>0, <2>1, <2>3, <3>1 DEF ComandoSeu, Dentro, SectorInv
    <3> QED
      BY <1>4, <2>2, <3>1, <3>2, CallerStep
  <2>5. CASE Espera(p)
    <3>1. ci' = ci
      BY <2>5 DEF Espera
    <3>2. ahpc[p] = "espera"
      BY <2>5 DEF Espera
    <3>3. \/ ahpc'[p] = "fim" /\ (~ci \/ Expirou(p)')
          \/ ahpc'[p] = "fora" /\ ret'[p] = "-3"
          \/ ahpc'[p] = "espera"
      BY <2>5, Estouro DEF Espera, Volta, Expirou, Tipos
    <3>4. So(p)' => ComandoSeu(p)'
      BY <2>0, <2>1, <2>3, <3>1, <3>2, <3>3 DEF ComandoSeu, Dentro, So
    <3> QED
      BY <1>4, <2>2, <3>3, <3>4, CallerStep
  <2>6. CASE Entrega(p)
    <3>1. ahpc[p] = "fim" /\ ahpc'[p] = "fora" /\ timeout' = timeout
      BY <2>6 DEF Entrega, Volta, Tipos
    <3>2. ret'[p] = "0" => dados'[p] = bounce
      BY <2>6 DEF Entrega, Volta, Tipos
    <3>3. ~sobre'[p] /\ ~Expirou(p)' => bounce = lba[p]
      BY <2>0, <3>1 DEF SectorInv, So, ComandoSeu, Expirou
    <3> QED
      BY <1>4, <2>0, <2>2, <3>1, <3>2, <3>3, CallerStep DEF So, Dentro
  <2> QED
    BY <1>4, <2>4, <2>5, <2>6
<1>5. CASE Busca_ \/ Termina_ \/ FalhaDisco
  BY <1>5, DiscoStep
<1> QED
  BY <1>1, <1>2, <1>3, <1>4, <1>5 DEF AhNext

(* A read that reports success delivers the sector it asked for, unless another   *)
(* caller or a command given up was in the driver, or the polling ran out.        *)
THEOREM ReadsAreOwn == AhSpec => []OwnSector
<1>1. AhInit => SectorInv
  BY DEF AhInit, SectorInv, So, Dentro, OwnSector
<1>2. SectorInv => OwnSector
  BY DEF SectorInv
<1> QED
  BY TiposInit, TiposStep, SectorStep, <1>1, <1>2, PTL DEF AhSpec
-----------------------------------------------------------------------------
(* The asynchronous list of the EHCI controller *)

(* Every walk from x comes to the head of the list.                                *)
Leva(x) == \A S \in SUBSET Quadros : x \in S /\ Fechado(S) => async_head \in S

(* Frames in use link only to frames in use, and so does what a transfer will      *)
(* store later.                                                                    *)
AlocadosInv ==
  /\ Fechado(alocados)
  /\ async_head # Nulo_ => async_head \in alocados
  /\ atual \in Quadros /\ ~perdida => atual \in alocados
  /\ \A p \in Ocupados :
       /\ async_head # Nulo_ /\ qh[p] \in alocados
       /\ original[p] \in Quadros => original[p] \in alocados

(* Nothing but the head's link comes to the frame of a transfer of SYS_TESTINIT,    *)
(* and no later than its removal: it can be given back.                            *)
SoDele ==
  ehpc["init"] \in {"leu", "espera", "solta"} =>
    /\ qh["init"] \in alocados /\ qh["init"] # async_head /\ async_head # Nulo_
    /\ \A g \in alocados : link[g] = qh["init"] => g = async_head /\ ehpc["init"] = "espera"
    /\ \A p \in Ocupados : /\ original[p] # qh["init"]
                           /\ p # "init" => qh[p] # qh["init"]

(* Ended queue heads may stay in the list, but they lead back to its head: their   *)
(* links were written once, and only the head's link changes.                      *)
VoltaInv ==
  intacta /\ async_head # Nulo_ =>
    /\ atual # Nulo_ /\ ~perdida => atual \in Quadros /\ Leva(atual)
    /\ link[async_head] \in Quadros /\ Leva(link[async_head])
    /\ \A p \in Ocupados :
         /\ original[p] \in Quadros /\ Leva(original[p])
         /\ qh[p] # async_head
         /\ \A q \in Ocupados : qh[p] = qh[q] => p = q
         /\ ehpc[p] = "leu" => link[qh[p]] = Term
         /\ ehpc[p] = "espera" => Leva(qh[p])

(* Nobody replaces the head's link under a transfer that is alone.                 *)
SozinhoInv ==
  \A p \in Ocupados : so[p] =>
    /\ Ocupados = {p}
    /\ ehpc[p] = "espera" /\ intacta => link[async_head] = qh[p]

ListInv == EhTypeOK /\ AlocadosInv /\ SoDele /\ VoltaInv /\ SozinhoInv
-----------------------------------------------------------------------------

LEMMA NaoSaoQuadros == Nulo_ \notin Quadros /\ Term \notin Quadros
BY FramesAssumption

(* A walk goes through frames in use, so a frame leads to the head as long as only *)
(* the head's link and links that ended nowhere are written.                       *)
LEMMA LevaFica ==
  ASSUME NEW x \in alocados, Leva(x), Fechado(alocados), alocados \subseteq Quadros,
         async_head' = async_head,
         \A g \in alocados : g # async_head => link'[g] = link[g] \/ link[g] = Term
  PROVE  Leva(x)'
<1> SUFFICES ASSUME NEW S \in SUBSET Quadros, x \in S, Fechado(S)', async_head \notin S
             PROVE  FALSE
  BY DEF Leva
<1> DEFINE T == S \cap alocados
<1>1. ASSUME NEW g \in T, link[g] \in Quadros
      PROVE  link[g] \in T
  <2>1. link'[g] = link[g]
    BY <1>1, NaoSaoQuadros
  <2>2. link[g] \in S
    BY <1>1, <2>1 DEF Fechado
  <2>3. link[g] \in alocados
    BY <1>1 DEF Fechado
  <2> QED
    BY <2>2, <2>3
<1>2. Fechado(T) /\ x \in T /\ T \in SUBSET Quadros
  BY <1>1 DEF Fechado
<1>3. async_head \in T
  BY <1>2 DEF Leva
<1> QED
  BY <1>3

(* A frame leads to the head if its link does. *)
LEMMA LevaAtras ==
  ASSUME NEW g \in Quadros, link[g] \in Quadros, Leva(link[g])
  PROVE  Leva(g)
BY DEF Leva, Fechado

(* ... and a frame other than the head leads there through its link. *)
LEMMA LevaAdiante ==
  ASSUME NEW g \in Quadros, g # async_head, Leva(g)
  PROVE  link[g] \in Quadros /\ Leva(link[g])
<1>1. CASE link[g] \notin Quadros
  <2>1. Fechado({g})
    BY <1>1 DEF Fechado
  <2> QED
    BY <2>1 DEF Leva
<1>2. CASE link[g] \in Quadros
  <2>1. ASSUME NEW S \in SUBSET Quadros, link[g] \in S, Fechado(S)
        PROVE  async_head \in S
    <3>1. Fechado(S \cup {g}) /\ S \cup {g} \in SUBSET Quadros
      BY <2>1 DEF Fechado
    <3> QED
      BY <3>1 DEF Leva
  <2> QED
    BY <1>2, <2>1 DEF Leva
<1> QED
  BY <1>1, <1>2

-----------------------------------------------------------------------------
(* Where callers may be.                                                           *)
PcOK == /\ ehpc \in [Todos -> {"fora", "dentro", "leu", "espera", "solta"}]
        /\ \A p \in EhCallers : ehpc[p] \in {"fora", "leu", "espera"}

LEMMA PcStep ==
  ASSUME PcOK, NEW p \in Todos, NEW v \in {"fora", "dentro", "leu", "espera", "solta"},
         p = "init" \/ v \in {"fora", "leu", "espera"},
         ehpc' = [ehpc EXCEPT ![p] = v]
  PROVE  PcOK'
<1>1. \A q \in Todos : ehpc'[q] = IF q = p THEN v ELSE ehpc[q]
  BY DEF PcOK
<1>2. \A q \in EhCallers : q \in Todos /\ q # "init"
  BY CallersAssumption DEF Todos
<1> QED
  BY <1>1, <1>2 DEF PcOK

LEMMA EhTypeStep == EhTypeOK /\ AlocadosInv /\ [EhNext]_ehVars => EhTypeOK'
<1> SUFFICES ASSUME EhTypeOK, AlocadosInv, [EhNext]_ehVars
             PROVE  EhTypeOK'
  OBVIOUS
<1> USE DEF EhTypeOK, Livres, Parado
<1>1. ASSUME NEW p \in Todos, Monta_(p)
      PROVE  EhTypeOK'
  <2>1. PICK f \in Quadros \ alocados :
          /\ alocados' = alocados \cup {f} /\ link' = [link EXCEPT ![f] = Term]
          /\ ativo' = ativo \cup {f} /\ qh' = [qh EXCEPT ![p] = f]
          /\ original' = [original EXCEPT ![p] = link[async_head]]
    BY <1>1 DEF Monta_
  <2>2. async_head \in Quadros
    BY <1>1 DEF Monta_
  <2>3. so' \in [Todos -> BOOLEAN]
    BY <1>1, Zenon DEF Monta_
  <2> QED
    BY <1>1, <2>1, <2>2, <2>3 DEF Monta_
<1>2. ASSUME NEW p \in Todos, Insere(p)
      PROVE  EhTypeOK'
  <2>1. link' \in [Quadros -> Quadros \cup {Nulo_, Term}]
    BY <1>2 DEF Insere
  <2> QED
    BY <1>2, <2>1 DEF Insere
<1>3. ASSUME NEW p \in Todos, Remove(p)
      PROVE  EhTypeOK'
  <2>1. PICK v \in {"fora", "dentro", "solta"} :
          ehpc' = [ehpc EXCEPT ![p] = v] /\ (p = "init" \/ v = "fora")
    BY <1>3 DEF Remove, Devolve
  <2>2. PcOK'
    BY <2>1, PcStep DEF PcOK
  <2>3. link' \in [Quadros -> Quadros \cup {Nulo_, Term}]
    BY <1>3 DEF Remove
  <2> QED
    BY <1>3, <2>2, <2>3 DEF Remove, PcOK
<1>4. ASSUME NEW p \in Todos, Libera_(p)
      PROVE  EhTypeOK'
  <2>1. p = "init"
    BY <1>4 DEF Libera_, Todos
  <2>2. perdida' \in BOOLEAN
    BY <1>4, Zenon DEF Libera_
  <2>3. PcOK'
    BY <1>4, <2>1, PcStep DEF Libera_, PcOK
  <2> QED
    BY <1>4, <2>2, <2>3 DEF Libera_, PcOK
<1>5. ASSUME NEW f \in Quadros, Reusa(f)
      PROVE  EhTypeOK'
  BY <1>5 DEF Reusa
<1>6. CASE NovaLista
  <2>1. intacta' \in BOOLEAN /\ perdida' \in BOOLEAN
    BY <1>6, Zenon DEF NovaLista
  <2>2. PcOK'
    BY <1>6, PcStep DEF NovaLista, PcOK, Todos
  <2> QED
    BY <1>6, <2>1, <2>2 DEF NovaLista, PcOK
<1>7. CASE ParaControladora
  BY <1>7 DEF ParaControladora
<1>8. CASE FimTestInit
  <2>1. PcOK'
    BY <1>8, PcStep DEF FimTestInit, PcOK, Todos
  <2> QED
    BY <1>8, <2>1 DEF FimTestInit, PcOK
<1>9. CASE Executa
  BY <1>9 DEF Executa
<1>10. CASE Percorre
  <2>1. link[atual] \in Quadros \cup {Nulo_, Term}
    BY <1>10 DEF Percorre
  <2> QED
    BY <1>10, <2>1 DEF Percorre
<1>11. CASE UNCHANGED ehVars
  BY <1>11 DEF ehVars
<1> QED
  BY <1>1, <1>2, <1>3, <1>4, <1>5, <1>6, <1>7, <1>8, <1>9, <1>10, <1>11 DEF EhNext

(* Who is in the middle of a transfer, step by step.                               *)
LEMMA QuemOcupa ==
  ASSUME EhTypeOK
  PROVE  /\ "init" \in Todos
         /\ \A p \in Todos : Monta_(p) => Ocupados' = Ocupados \cup {p} /\ p \notin Ocupados
         /\ \A p \in Todos : Insere(p) => Ocupados' = Ocupados /\ p \in Ocupados
         /\ \A p \in Todos : Remove(p) => Ocupados' = Ocupados \ {p} /\ p \in Ocupados
         /\ \A p \in Todos : Libera_(p) => Ocupados' = Ocupados /\ p = "init" /\ p \notin Ocupados
         /\ NovaLista \/ FimTestInit => Ocupados' = Ocupados
<1> USE DEF EhTypeOK, Ocupados, Parado
<1>1. \A p \in Todos : Monta_(p) => Ocupados' = Ocupados \cup {p} /\ p \notin Ocupados
  BY DEF Monta_
<1>2. \A p \in Todos : Insere(p) => Ocupados' = Ocupados /\ p \in Ocupados
  BY DEF Insere
<1>3. \A p \in Todos : Remove(p) => Ocupados' = Ocupados \ {p} /\ p \in Ocupados
  BY DEF Remove
<1>4. \A p \in Todos : Libera_(p) => Ocupados' = Ocupados /\ p = "init" /\ p \notin Ocupados
  BY DEF Libera_, Todos
<1>5. NovaLista \/ FimTestInit => Ocupados' = Ocupados
  BY DEF NovaLista, FimTestInit
<1> QED
  BY <1>1, <1>2, <1>3, <1>4, <1>5 DEF Todos

LEMMA AlocadosStep == EhTypeOK /\ AlocadosInv /\ SoDele /\ [EhNext]_ehVars => AlocadosInv'
<1> SUFFICES ASSUME EhTypeOK, AlocadosInv, SoDele, [EhNext]_ehVars
             PROVE  AlocadosInv'
  OBVIOUS
<1> USE NaoSaoQuadros DEF EhTypeOK, AlocadosInv, Fechado
<1>1. ASSUME NEW p \in Todos, Monta_(p)
      PROVE  AlocadosInv'
  <2>1. PICK f \in Quadros \ alocados :
          /\ alocados' = alocados \cup {f} /\ link' = [link EXCEPT ![f] = Term]
          /\ qh' = [qh EXCEPT ![p] = f]
          /\ original' = [original EXCEPT ![p] = link[async_head]]
    BY <1>1 DEF Monta_, Livres
  <2>2. /\ Ocupados' = Ocupados \cup {p}
        /\ async_head \in alocados /\ UNCHANGED <<async_head, atual, perdida>>
    BY <1>1, QuemOcupa DEF Monta_
  <2>3. Fechado(alocados)'
    BY <2>1
  <2> QED
    BY <2>1, <2>2, <2>3 DEF Ocupados
<1>2. ASSUME NEW p \in Todos, Insere(p)
      PROVE  AlocadosInv'
  <2>1. Ocupados' = Ocupados /\ p \in Ocupados
    BY <1>2, QuemOcupa
  <2> QED
    BY <1>2, <2>1 DEF Insere
<1>3. ASSUME NEW p \in Todos, Remove(p)
      PROVE  AlocadosInv'
  <2>1. Ocupados' = Ocupados \ {p} /\ p \in Ocupados
    BY <1>3, QuemOcupa
  <2> QED
    BY <1>3, <2>1 DEF Remove
<1>4. ASSUME NEW p \in Todos, Libera_(p)
      PROVE  AlocadosInv'
  <2>1. Ocupados' = Ocupados /\ p = "init" /\ p \notin Ocupados /\ ehpc["init"] = "solta"
    BY <1>4, QuemOcupa DEF Libera_
  <2>2. \A g \in alocados : link[g] # qh["init"]
    BY <2>1 DEF SoDele
  <2>3. /\ alocados' = alocados \ {qh["init"]} /\ (~perdida' => ~perdida /\ atual # qh["init"])
        /\ UNCHANGED <<async_head, atual, link, qh, original>>
    BY <1>4, <2>1 DEF Libera_
  <2>4. async_head # qh["init"]
        /\ \A q \in Ocupados : original[q] # qh["init"] /\ qh[q] # qh["init"]
    BY <2>1 DEF SoDele
  <2> QED
    BY <2>1, <2>2, <2>3, <2>4
<1>5. ASSUME NEW f \in Quadros, Reusa(f)
      PROVE  AlocadosInv'
  BY <1>5 DEF Reusa, Livres, Ocupados
<1>6. CASE NovaLista
  <2>1. Ocupados' = Ocupados
    BY <1>6, QuemOcupa
  <2> QED
    BY <1>6, <2>1 DEF NovaLista, Livres
<1>7. CASE ParaControladora
  BY <1>7 DEF ParaControladora, Ocupados
<1>8. CASE FimTestInit
  BY <1>8, QuemOcupa DEF FimTestInit
<1>9. CASE Executa
  BY <1>9 DEF Executa, Ocupados
<1>10. CASE Percorre
  BY <1>10 DEF Percorre, Ocupados
<1>11. CASE UNCHANGED ehVars
  BY <1>11 DEF ehVars, Ocupados
<1> QED
  BY <1>1, <1>2, <1>3, <1>4, <1>5, <1>6, <1>7, <1>8, <1>9, <1>10, <1>11 DEF EhNext

LEMMA SoDeleStep == EhTypeOK /\ AlocadosInv /\ SoDele /\ [EhNext]_ehVars => SoDele'
<1> SUFFICES ASSUME EhTypeOK, AlocadosInv, SoDele, [EhNext]_ehVars,
                    ehpc'["init"] \in {"leu", "espera", "solta"}
             PROVE  SoDele'
  BY DEF SoDele
<1> USE NaoSaoQuadros DEF EhTypeOK
<1>0. "init" \in Todos
  BY DEF Todos
<1>1. ASSUME NEW p \in Todos, Monta_(p)
      PROVE  SoDele'
  <2>1. PICK f \in Quadros \ alocados :
          /\ alocados' = alocados \cup {f} /\ link' = [link EXCEPT ![f] = Term]
          /\ qh' = [qh EXCEPT ![p] = f]
          /\ original' = [original EXCEPT ![p] = link[async_head]]
    BY <1>1 DEF Monta_, Livres
  <2>2. /\ Ocupados' = Ocupados \cup {p} /\ p \notin Ocupados
        /\ async_head \in alocados /\ UNCHANGED async_head
    BY <1>1, QuemOcupa DEF Monta_, AlocadosInv
  <2>3. p = "init"
    BY <1>0, <1>1 DEF Monta_, Pode_
  <2>4. \A g \in alocados : link[g] # f
    BY <2>1 DEF AlocadosInv, Fechado
  <2>5. \A q \in Ocupados : original[q] # f /\ qh[q] # f
    BY <2>1 DEF AlocadosInv
  <2>6. qh'["init"] = f /\ link'[f] = Term /\ \A g \in alocados : link'[g] = link[g]
    BY <1>0, <2>1, <2>3
  <2>7. original'["init"] = link[async_head] /\ link[async_head] # f
    BY <1>0, <2>1, <2>2, <2>3, <2>4
  <2>8. \A q \in Ocupados : q # "init" /\ original'[q] = original[q] /\ qh'[q] = qh[q]
    BY <2>1, <2>2, <2>3 DEF Ocupados
  <2> QED
    BY <2>1, <2>2, <2>3, <2>4, <2>5, <2>6, <2>7, <2>8 DEF SoDele
<1>2. ASSUME NEW p \in Todos, Insere(p)
      PROVE  SoDele'
  <2>1. Ocupados' = Ocupados /\ p \in Ocupados
    BY <1>2, QuemOcupa
  <2>2. p = "init"
    BY <1>0, <1>2 DEF Insere, Pode_
  <2>3. /\ link' = [link EXCEPT ![qh["init"]] = original["init"], ![async_head] = qh["init"]]
        /\ ehpc' = [ehpc EXCEPT !["init"] = "espera"] /\ ehpc["init"] = "leu"
        /\ UNCHANGED <<async_head, alocados, qh, original>>
    BY <1>2, <2>2 DEF Insere
  <2>4. ehpc'["init"] = "espera" /\ original["init"] # qh["init"]
    BY <1>0, <2>1, <2>2, <2>3 DEF SoDele
  <2>5. \A g \in alocados : g # async_head => link'[g] # qh["init"]
    BY <2>3, <2>4 DEF SoDele
  <2> QED
    BY <2>1, <2>3, <2>4, <2>5 DEF SoDele
<1>3. ASSUME NEW p \in Todos, Remove(p)
      PROVE  SoDele'
  <2>1. Ocupados' = Ocupados \ {p} /\ p \in Ocupados
    BY <1>3, QuemOcupa
  <2>2. p = "init"
    BY <1>0, <1>3 DEF Remove, Pode_, Parado
  <2>3. /\ link' = [link EXCEPT ![async_head] = original["init"]] /\ ehpc["init"] = "espera"
        /\ UNCHANGED <<async_head, alocados, qh, original>>
    BY <1>3, <2>2 DEF Remove
  <2>4. original["init"] # qh["init"]
    BY <2>1, <2>2, <2>3 DEF SoDele
  <2>5. \A g \in alocados : link'[g] # qh["init"]
    BY <2>3, <2>4 DEF SoDele
  <2> QED
    BY <2>1, <2>3, <2>5 DEF SoDele
<1>4. ASSUME NEW p \in Todos, Libera_(p)
      PROVE  SoDele'
  BY <1>0, <1>4 DEF Libera_, Parado, Todos
<1>5. ASSUME NEW f \in Quadros, Reusa(f)
      PROVE  SoDele'
  <2>1. /\ \A g \in alocados : link'[g] = link[g]
        /\ UNCHANGED <<async_head, alocados, ehpc, qh, original>>
    BY <1>5 DEF Reusa, Livres
  <2> QED
    BY <2>1 DEF SoDele, Ocupados
<1>6. CASE NovaLista
  BY <1>0, <1>6 DEF NovaLista
<1>7. CASE ParaControladora
  BY <1>7 DEF ParaControladora, SoDele, Ocupados
<1>8. CASE FimTestInit
  BY <1>0, <1>8 DEF FimTestInit
<1>9. CASE Executa
  BY <1>9 DEF Executa, SoDele, Ocupados
<1>10. CASE Percorre
  BY <1>10 DEF Percorre, SoDele, Ocupados
<1>11. CASE UNCHANGED ehVars
  BY <1>11 DEF ehVars, SoDele, Ocupados
<1> QED
  BY <1>1, <1>2, <1>3, <1>4, <1>5, <1>6, <1>7, <1>8, <1>9, <1>10, <1>11 DEF EhNext

LEMMA SozinhoStep ==
  EhTypeOK /\ AlocadosInv /\ SozinhoInv /\ [EhNext]_ehVars => SozinhoInv'
<1> SUFFICES ASSUME EhTypeOK, AlocadosInv, SozinhoInv, [EhNext]_ehVars
             PROVE  SozinhoInv'
  OBVIOUS
<1> USE DEF EhTypeOK, SozinhoInv
<1>1. ASSUME NEW p \in Todos, Monta_(p)
      PROVE  SozinhoInv'
  <2>1. \A q \in Todos : so'[q] <=> IF q = p THEN Ocupados = {} ELSE so[q] /\ q \notin Ocupados
    BY <1>1 DEF Monta_
  <2>2. ehpc' = [ehpc EXCEPT ![p] = "leu"] /\ Ocupados' = Ocupados \cup {p}
    BY <1>1, QuemOcupa DEF Monta_
  <2>3. Ocupados' \subseteq Todos
    BY DEF Ocupados
  <2>4. ASSUME NEW q \in Ocupados', so'[q]
        PROVE  q = p /\ Ocupados = {}
    BY <2>1, <2>2, <2>3, <2>4
  <2> QED
    BY <2>2, <2>4
<1>2. ASSUME NEW p \in Todos, Insere(p)
      PROVE  SozinhoInv'
  <2>1. /\ p \in Ocupados /\ Ocupados' = Ocupados
        /\ UNCHANGED <<async_head, so, intacta, qh>>
        /\ ehpc' = [ehpc EXCEPT ![p] = "espera"]
    BY <1>2, QuemOcupa DEF Insere
  <2>2. link'[async_head] = qh[p]
    BY <1>2, <2>1 DEF Insere, AlocadosInv
  <2> QED
    BY <2>1, <2>2
<1>3. ASSUME NEW p \in Todos, Remove(p)
      PROVE  SozinhoInv'
  <2>1. p \in Ocupados /\ Ocupados' = Ocupados \ {p} /\ UNCHANGED so
    BY <1>3, QuemOcupa DEF Remove
  <2> QED
    BY <2>1
<1>4. ASSUME NEW p \in Todos, Libera_(p)
      PROVE  SozinhoInv'
  <2>1. /\ Ocupados' = Ocupados /\ p \notin Ocupados
        /\ UNCHANGED <<async_head, so, intacta, qh, link>>
        /\ ehpc' = [ehpc EXCEPT ![p] = Parado(p)]
    BY <1>4, QuemOcupa DEF Libera_
  <2> QED
    BY <2>1
<1>5. ASSUME NEW f \in Quadros, Reusa(f)
      PROVE  SozinhoInv'
  <2>1. /\ \A g \in alocados : link'[g] = link[g]
        /\ UNCHANGED <<async_head, ehpc, qh, so, intacta>> /\ Ocupados' = Ocupados
    BY <1>5 DEF Reusa, Livres, Ocupados
  <2>2. \A p \in Ocupados : async_head \in alocados
    BY DEF AlocadosInv
  <2> QED
    BY <2>1, <2>2
<1>6. CASE NovaLista
  <2>1. /\ UNCHANGED so /\ intacta' = (Ocupados = {}) /\ Ocupados' = Ocupados
    BY <1>6, QuemOcupa DEF NovaLista
  <2> QED
    BY <2>1
<1>7. CASE ParaControladora
  BY <1>7 DEF ParaControladora, Ocupados
<1>8. CASE FimTestInit
  <2>1. /\ Ocupados' = Ocupados /\ ehpc' = [ehpc EXCEPT !["init"] = "fora"]
        /\ UNCHANGED <<async_head, so, intacta, qh, link>>
    BY <1>8, QuemOcupa DEF FimTestInit
  <2> QED
    BY <2>1
<1>9. CASE Executa
  BY <1>9 DEF Executa, Ocupados
<1>10. CASE Percorre
  BY <1>10 DEF Percorre, Ocupados
<1>11. CASE UNCHANGED ehVars
  BY <1>11 DEF ehVars, Ocupados
<1> QED
  BY <1>1, <1>2, <1>3, <1>4, <1>5, <1>6, <1>7, <1>8, <1>9, <1>10, <1>11 DEF EhNext

(* A step that keeps the head and writes only the head's link, links of frames not *)
(* in use and links that ended nowhere, keeps every way to the head.               *)
LEMMA CaminhosFicam ==
  ASSUME EhTypeOK, AlocadosInv, async_head' = async_head,
         \A g \in alocados : g # async_head => link'[g] = link[g] \/ link[g] = Term
  PROVE  \A x \in alocados : Leva(x) => Leva(x)'
BY LevaFica DEF AlocadosInv, EhTypeOK

(* A frame that is in use leads to the head if what is now its link does.          *)
LEMMA LevaAtrasDepois ==
  ASSUME NEW g \in Quadros, link'[g] \in Quadros, NEW x, x = link'[g], Leva(x)'
  PROVE  Leva(g)'
BY DEF Leva, Fechado

LEMMA VoltaStep ==
  EhTypeOK /\ AlocadosInv /\ VoltaInv /\ [EhNext]_ehVars => VoltaInv'
<1> SUFFICES ASSUME EhTypeOK, AlocadosInv, VoltaInv, [EhNext]_ehVars,
                    intacta', async_head' # Nulo_
             PROVE  VoltaInv'
  BY DEF VoltaInv
<1>0. ASSUME intacta, async_head # Nulo_
      PROVE  /\ async_head \in alocados /\ async_head \in Quadros
             /\ atual # Nulo_ /\ ~perdida => atual \in alocados /\ Leva(atual)
             /\ link[async_head] \in alocados /\ Leva(link[async_head])
             /\ \A p \in Ocupados :
                  /\ original[p] \in alocados /\ Leva(original[p])
                  /\ qh[p] # async_head /\ qh[p] \in alocados
                  /\ \A q \in Ocupados : qh[p] = qh[q] => p = q
                  /\ ehpc[p] = "leu" => link[qh[p]] = Term
                  /\ ehpc[p] = "espera" => Leva(qh[p])
  BY <1>0 DEF VoltaInv, AlocadosInv, Fechado, EhTypeOK
<1>1. ASSUME NEW p \in Todos, Monta_(p)
      PROVE  VoltaInv'
  <2>1. PICK f \in Quadros \ alocados :
          /\ alocados' = alocados \cup {f} /\ link' = [link EXCEPT ![f] = Term]
          /\ qh' = [qh EXCEPT ![p] = f]
          /\ original' = [original EXCEPT ![p] = link[async_head]]
    BY <1>1 DEF Monta_, Livres
  <2>2. /\ ehpc' = [ehpc EXCEPT ![p] = "leu"] /\ Ocupados' = Ocupados \cup {p} /\ p \notin Ocupados
        /\ UNCHANGED <<async_head, atual, intacta, perdida>>
    BY <1>1, QuemOcupa DEF Monta_
  <2>3. \A g \in alocados : link'[g] = link[g]
    BY <2>1 DEF EhTypeOK
  <2>4. \A x \in alocados : Leva(x) => Leva(x)'
    BY <2>2, <2>3, CaminhosFicam
  <2>5. intacta /\ async_head # Nulo_
    BY <2>2
  <2>7. /\ atual' # Nulo_ /\ ~perdida' => atual' \in Quadros /\ Leva(atual)'
        /\ link'[async_head] = link[async_head]
        /\ link'[async_head] \in Quadros /\ Leva(link[async_head])'
    <3>1. Leva(link[async_head]) /\ link[async_head] \in alocados /\ async_head \in alocados
      BY <1>0, <2>5
    <3>2. link'[async_head'] = link[async_head] /\ link[async_head] \in Quadros
      BY <3>1, <2>2, <2>3 DEF EhTypeOK
    <3>3. \A S \in SUBSET Quadros : link[async_head] \in S /\ Fechado(S)' => async_head' \in S
      BY <3>1, <2>4 DEF Leva
    <3>4. Leva(link[async_head])'
      BY <3>2, <3>3 DEF Leva
    <3>5. atual # Nulo_ /\ ~perdida => atual \in Quadros /\ Leva(atual)'
      BY <1>0, <2>2, <2>4, <2>5 DEF Leva, EhTypeOK
    <3> QED
      BY <2>2, <3>2, <3>4, <3>5
  <2> QED
    BY <1>0, <2>1, <2>2, <2>3, <2>4, <2>5, <2>7 DEF VoltaInv, EhTypeOK, Leva, Ocupados
<1>2. ASSUME NEW p \in Todos, Insere(p)
      PROVE  VoltaInv'
  <2>1. /\ link' = [link EXCEPT ![qh[p]] = original[p], ![async_head] = qh[p]]
        /\ ehpc' = [ehpc EXCEPT ![p] = "espera"] /\ ehpc[p] = "leu"
        /\ UNCHANGED <<async_head, atual, intacta, qh, original, perdida>>
    BY <1>2 DEF Insere
  <2>2. /\ intacta /\ async_head # Nulo_
        /\ Ocupados' = Ocupados /\ p \in Ocupados
    BY <1>2, <2>1, QuemOcupa
  <2>3. /\ link'[async_head] = qh[p] /\ link'[qh[p]] = original[p]
        /\ \A g \in alocados : g # async_head /\ g # qh[p] => link'[g] = link[g]
    BY <1>0, <2>1, <2>2 DEF EhTypeOK
  <2>4. \A x \in alocados : Leva(x) => Leva(x)'
    BY <1>0, <2>1, <2>2, <2>3, CaminhosFicam
  <2>5. Leva(qh[p])'
    <3>1. \A S \in SUBSET Quadros : original[p] \in S /\ Fechado(S)' => async_head' \in S
      BY <1>0, <2>2, <2>4 DEF Leva
    <3>2. original[p] \in Quadros /\ qh[p] \in Quadros
      BY <1>0, <2>2 DEF EhTypeOK
    <3> QED
      BY <2>1, <2>3, <3>1, <3>2 DEF Leva, Fechado
  <2>6. ASSUME NEW q \in Ocupados
        PROVE  /\ Leva(original[q])'
               /\ ehpc'[q] = "leu" => link'[qh[q]] = Term
               /\ ehpc'[q] = "espera" => Leva(qh[q])'
    <3>1. Leva(original[q])'
      BY <1>0, <2>1, <2>2, <2>4 DEF Leva
    <3>2. q # p => qh[q] # qh[p] /\ ehpc'[q] = ehpc[q]
      BY <1>0, <2>1, <2>2 DEF EhTypeOK, Ocupados
    <3>3. ehpc'[q] = "leu" => link'[qh[q]] = Term
      BY <1>0, <2>1, <2>2, <2>3, <3>2 DEF EhTypeOK, Ocupados
    <3>4. q # p /\ ehpc[q] = "espera" => Leva(qh[q])'
      BY <1>0, <2>1, <2>2, <2>4 DEF Leva
    <3> QED
      BY <2>5, <3>1, <3>2, <3>3, <3>4
  <2>7. /\ atual' # Nulo_ /\ ~perdida' => atual' \in Quadros /\ Leva(atual)'
        /\ link'[async_head'] \in Quadros /\ Leva(link[async_head])'
    BY <1>0, <2>1, <2>2, <2>3, <2>4, <2>5 DEF Leva, EhTypeOK
  <2>8. \A q \in Ocupados : original[q] \in Quadros /\ qh[q] # async_head
    BY <1>0, <2>2 DEF EhTypeOK
  <2> QED
    BY <1>0, <2>1, <2>2, <2>6, <2>7, <2>8 DEF VoltaInv
<1>3. ASSUME NEW p \in Todos, Remove(p)
      PROVE  VoltaInv'
  <2>1. /\ link' = [link EXCEPT ![async_head] = original[p]]
        /\ \A q \in Todos : q # p => ehpc'[q] = ehpc[q]
        /\ UNCHANGED <<async_head, atual, intacta, qh, original, perdida>>
    BY <1>3 DEF Remove, EhTypeOK
  <2>2. /\ intacta /\ async_head # Nulo_
        /\ Ocupados' = Ocupados \ {p} /\ p \in Ocupados
    BY <1>3, <2>1, QuemOcupa
  <2>3. /\ link'[async_head] = original[p]
        /\ \A g \in alocados : g # async_head => link'[g] = link[g]
    BY <1>0, <2>1, <2>2 DEF EhTypeOK
  <2>4. \A x \in alocados : Leva(x) => Leva(x)'
    BY <2>1, <2>3, CaminhosFicam
  <2>5. ASSUME NEW q \in Ocupados'
        PROVE  /\ original[q] \in Quadros /\ Leva(original[q])'
               /\ qh[q] # async_head
               /\ \A r \in Ocupados : qh[q] = qh[r] => q = r
               /\ ehpc'[q] = "leu" => link'[qh[q]] = Term
               /\ ehpc'[q] = "espera" => Leva(qh[q])'
    <3>1. q \in Ocupados /\ q # p /\ ehpc'[q] = ehpc[q]
      BY <2>1, <2>2 DEF Ocupados
    <3>2. Leva(original[q])' /\ original[q] \in Quadros
      BY <1>0, <2>1, <2>2, <2>4, <3>1 DEF Leva, EhTypeOK
    <3>3. ehpc[q] = "espera" => Leva(qh[q])'
      BY <1>0, <2>1, <2>2, <2>4, <3>1 DEF Leva
    <3> QED
      BY <1>0, <2>2, <2>3, <3>1, <3>2, <3>3
  <2>6. /\ atual' # Nulo_ /\ ~perdida' => atual' \in Quadros /\ Leva(atual)'
        /\ link'[async_head'] \in Quadros /\ Leva(link[async_head])'
    BY <1>0, <2>1, <2>2, <2>3, <2>4 DEF Leva, EhTypeOK
  <2> QED
    BY <2>1, <2>2, <2>5, <2>6 DEF VoltaInv
<1>4. ASSUME NEW p \in Todos, Libera_(p)
      PROVE  VoltaInv'
  <2>1. /\ UNCHANGED <<async_head, atual, link, intacta, qh, original>> /\ (~perdida' => ~perdida)
        /\ Ocupados' = Ocupados /\ p \notin Ocupados
        /\ ehpc' = [ehpc EXCEPT ![p] = Parado(p)]
    BY <1>4, QuemOcupa DEF Libera_
  <2>2. \A x : Leva(x)' <=> Leva(x)
    BY <2>1 DEF Leva, Fechado
  <2>3. \A q \in Ocupados : ehpc'[q] = ehpc[q]
    BY <2>1 DEF EhTypeOK, Ocupados
  <2>4. /\ atual' # Nulo_ /\ ~perdida' => atual' \in Quadros /\ Leva(atual)'
        /\ link'[async_head'] \in Quadros /\ Leva(link[async_head])'
    BY <1>0, <2>1 DEF Leva, Fechado, EhTypeOK
  <2>5. \A q \in Ocupados : /\ Leva(original[q])'
                            /\ ehpc[q] = "espera" => Leva(qh[q])'
    BY <1>0, <2>1 DEF Leva, Fechado
  <2> QED
    BY <1>0, <2>1, <2>3, <2>4, <2>5 DEF VoltaInv, EhTypeOK
<1>5. ASSUME NEW f \in Quadros, Reusa(f)
      PROVE  VoltaInv'
  <2>1. /\ \A g \in alocados : link'[g] = link[g]
        /\ UNCHANGED <<async_head, atual, ehpc, intacta, qh, original, perdida>>
        /\ Ocupados' = Ocupados
    BY <1>5 DEF Reusa, Livres, Ocupados, EhTypeOK
  <2>2. \A x \in alocados : Leva(x) => Leva(x)'
    BY <2>1, CaminhosFicam
  <2>3. intacta /\ async_head # Nulo_
    BY <2>1
  <2>4. /\ atual' # Nulo_ /\ ~perdida' => atual' \in Quadros /\ Leva(atual)'
        /\ link'[async_head'] \in Quadros /\ Leva(link[async_head])'
    BY <1>0, <2>1, <2>2, <2>3 DEF Leva, EhTypeOK
  <2>5. \A q \in Ocupados : /\ Leva(original[q])'
                            /\ ehpc[q] = "espera" => Leva(qh[q])'
    BY <1>0, <2>1, <2>2, <2>3 DEF Leva
  <2> QED
    BY <1>0, <2>1, <2>3, <2>4, <2>5 DEF VoltaInv, EhTypeOK
<1>6. CASE NovaLista
  <2>1. PICK f \in Quadros :
          /\ link' = [link EXCEPT ![f] = f] /\ async_head' = f /\ atual' = f
    BY <1>6 DEF NovaLista, Livres
  <2>2. Ocupados = {} /\ Ocupados' = Ocupados
    BY <1>6, QuemOcupa DEF NovaLista
  <2>3. link'[f] = f
    BY <2>1 DEF EhTypeOK
  <2> QED
    BY <2>1, <2>2, <2>3 DEF VoltaInv, Leva
<1>7. CASE ParaControladora
  BY <1>7, NaoSaoQuadros DEF ParaControladora, VoltaInv, Leva, Fechado, Ocupados
<1>8. CASE FimTestInit
  <2>1. /\ Ocupados' = Ocupados /\ "init" \notin Ocupados
        /\ ehpc' = [ehpc EXCEPT !["init"] = "fora"]
        /\ UNCHANGED <<async_head, atual, link, intacta, qh, original, perdida>>
    BY <1>8, QuemOcupa DEF FimTestInit, Ocupados
  <2>2. \A q \in Ocupados : ehpc'[q] = ehpc[q]
    BY <2>1 DEF EhTypeOK, Ocupados
  <2>3. intacta /\ async_head # Nulo_
    BY <2>1
  <2>4. /\ atual' # Nulo_ /\ ~perdida' => atual' \in Quadros /\ Leva(atual)'
        /\ link'[async_head'] \in Quadros /\ Leva(link[async_head])'
    BY <1>0, <2>1, <2>3 DEF Leva, Fechado, EhTypeOK
  <2>5. \A q \in Ocupados : /\ Leva(original[q])'
                            /\ ehpc[q] = "espera" => Leva(qh[q])'
    BY <1>0, <2>1, <2>3 DEF Leva, Fechado
  <2> QED
    BY <1>0, <2>1, <2>2, <2>3, <2>4, <2>5 DEF VoltaInv, EhTypeOK
<1>9. CASE Executa
  BY <1>9 DEF Executa, VoltaInv, Leva, Fechado, Ocupados
<1>10. CASE Percorre
  <2>1. /\ atual \in Quadros /\ atual' = link[atual]
        /\ UNCHANGED <<async_head, link, ehpc, intacta, qh, original, perdida>>
    BY <1>10 DEF Percorre
  <2>2. intacta /\ async_head # Nulo_ /\ Ocupados' = Ocupados
    BY <2>1 DEF Ocupados
  <2>3. ~perdida => link[atual] \in Quadros /\ Leva(link[atual])
    BY <1>0, <2>1, <2>2, LevaAdiante, NaoSaoQuadros DEF VoltaInv
  <2>5. ~perdida' => atual' \in Quadros /\ Leva(atual)'
    BY <2>1, <2>3 DEF Leva, Fechado
  <2>6. Leva(link[async_head])' /\ link'[async_head'] \in Quadros
    BY <1>0, <2>1, <2>2 DEF Leva, Fechado, EhTypeOK
  <2>7. \A q \in Ocupados : /\ Leva(original[q])'
                            /\ ehpc[q] = "espera" => Leva(qh[q])'
    BY <1>0, <2>1, <2>2 DEF Leva, Fechado
  <2> QED
    BY <1>0, <2>1, <2>2, <2>5, <2>6, <2>7 DEF VoltaInv, EhTypeOK
<1>11. CASE UNCHANGED ehVars
  BY <1>11 DEF ehVars, VoltaInv, Leva, Fechado, Ocupados
<1> QED
  BY <1>1, <1>2, <1>3, <1>4, <1>5, <1>6, <1>7, <1>8, <1>9, <1>10, <1>11 DEF EhNext

LEMMA ListInit == EhInit => ListInv
<1> SUFFICES ASSUME EhInit
             PROVE  ListInv
  OBVIOUS
<1>1. EhTypeOK
  BY DEF EhInit, EhTypeOK, Todos
<1>2. Ocupados = {} /\ ehpc["init"] = "fora"
  BY DEF EhInit, Ocupados, Todos
<1> QED
  BY <1>1, <1>2, NaoSaoQuadros
     DEF EhInit, ListInv, AlocadosInv, SoDele, VoltaInv, SozinhoInv, Fechado

LEMMA ListIs == ListInv => ListSound
<1> SUFFICES ASSUME ListInv
             PROVE  ListSound
  OBVIOUS
<1>1. NoFreedFrameLinked
  <2>1. /\ Fechado(alocados) /\ alocados \in SUBSET Quadros
        /\ atual \in Quadros /\ ~perdida => atual \in alocados
        /\ async_head \in Quadros => async_head \in alocados
    BY NaoSaoQuadros DEF ListInv, AlocadosInv, EhTypeOK
  <2>2. ASSUME NEW f \in alocados
        PROVE  Alcance(f) \subseteq alocados
    BY <2>1 DEF Alcance
  <2> QED
    BY <2>1, <2>2 DEF NoFreedFrameLinked
<1>2. ASSUME NEW p \in Todos, ehpc[p] = "espera", so[p], intacta, atual # Nulo_, ~perdida
      PROVE  atual \in Quadros /\ qh[p] \in Alcance(atual)
  <2>1. p \in Ocupados
    BY <1>2 DEF Ocupados
  <2>2. /\ async_head # Nulo_ /\ link[async_head] = qh[p] /\ qh[p] \in Quadros
    BY <1>2, <2>1 DEF ListInv, AlocadosInv, SozinhoInv, EhTypeOK
  <2>3. atual \in Quadros /\ Leva(atual)
    BY <1>2, <2>2 DEF ListInv, VoltaInv
  <2>4. ASSUME NEW S \in SUBSET Quadros, atual \in S, Fechado(S)
        PROVE  qh[p] \in S
    BY <2>2, <2>3, <2>4 DEF Leva, Fechado
  <2> QED
    BY <2>2, <2>3, <2>4 DEF Alcance
<1> QED
  BY <1>1, <1>2 DEF ListSound, AloneIsSeen

(* The asynchronous list stays sound whatever transfers and initialisations do and *)
(* in whatever order: no freed frame hangs on it, the controller leaves it only by *)
(* standing on a control transfer's frame when that is freed, and until then it    *)
(* comes to every transfer that is alone (ehci_storage.c:83-93, ehci_core.c:216-   *)
(* 247).                                                                           *)
THEOREM ListStaysSound == EhSpec => []ListSound
<1>1. ListInv /\ [EhNext]_ehVars => ListInv'
  BY EhTypeStep, AlocadosStep, SoDeleStep, VoltaStep, SozinhoStep DEF ListInv
<1> QED
  BY ListInit, ListIs, <1>1, PTL DEF EhSpec
-----------------------------------------------------------------------------
(* The bulk-only protocol of the USB disk *)

Pacotes == [tag : Nat, tipo : {"setor", "pouco", "csw"}, bom : BOOLEAN]

Cmds ==
  [fase : {"fora", "cbw", "dados", "csw"}, voo : {"nao", "ativo", "ok", "erro"},
   t : {0, 1}, quer : Int, tag : Nat, n : {0, 1, 2},
   lidos : Seq(Nat), csw : Nat, bom : BOOLEAN]

UbTipos ==
  /\ toggle_out \in {0, 1} /\ toggle_in \in {0, 1} /\ dtout \in {0, 1} /\ dtin \in {0, 1}
  /\ limpo \in BOOLEAN
  /\ global_cbw_tag \in Nat
  /\ fila \in Seq(Pacotes)
  /\ cmd \in [Quem_ -> Cmds]
  /\ \A p \in Quem_ : cmd[p].fase = "fora" <=> cmd[p].voo = "nao"
  /\ \A p \in EmCurso : cmd[p].n \in {1, 2} /\ (p = "init" => cmd[p].n = 1)

(* What the device has yet to send when k packets of data are still asked for: all *)
(* of it, or a failed answer that ends with the next packet.                       *)
Resto(k) ==
  \/ Len(fila) = k + 1 /\ (k = 2 => fila[1].tipo = "setor")
  \/ k = 2 /\ Len(fila) = 2 /\ fila[1].tipo = "pouco" /\ ~fila[2].bom

(* In a clean run the queue holds what is left of the one command's answer, and    *)
(* every packet of it is counted on both sides, unless the answer fell short.      *)
EmPasso(c) ==
  \/ /\ c.fase = "cbw" /\ c.voo = "ativo" /\ c.lidos = <<>>
     /\ fila = <<>> /\ c.t = dtout /\ toggle_out = dtout /\ toggle_in = dtin
  \/ /\ c.fase = "cbw" /\ c.voo = "ok" /\ c.lidos = <<>>
     /\ Resto(c.n) /\ toggle_out = Inverte(dtout) /\ toggle_in = dtin
  \/ /\ c.fase = "dados" /\ c.voo = "ativo"
     /\ c.quer \in 1..c.n /\ Len(c.lidos) = c.n - c.quer /\ Resto(c.quer)
     /\ toggle_out = dtout /\ c.t = dtin
     /\ toggle_in = IF c.quer = c.n THEN dtin ELSE Inverte(dtin)
  \/ /\ c.fase = "dados" /\ c.voo = "ok" /\ Len(fila) = 1 /\ toggle_out = dtout
     /\ c.quer = 0 => Len(c.lidos) = c.n /\ dtin = Vira(toggle_in, c.n)
  \/ /\ c.fase = "csw" /\ c.voo = "ativo" /\ Len(fila) = 1 /\ Len(c.lidos) = c.n
     /\ toggle_out = dtout /\ toggle_in = dtin /\ c.t = dtin
  \/ /\ c.fase = "csw" /\ c.voo = "ok" /\ fila = <<>> /\ Len(c.lidos) = c.n
     /\ toggle_out = dtout /\ toggle_in = Inverte(dtin)
     /\ c.bom => \A i \in 1..Len(c.lidos) : c.lidos[i] = c.tag
  \/ /\ c.fase = "csw" /\ c.voo = "erro" /\ fila = <<>>
     /\ toggle_out = dtout /\ toggle_in = dtin

(* A good status to come is that of c, and so is all data before it.               *)
Boas(c) ==
  Len(fila) > 0 /\ fila[Len(fila)].bom =>
    /\ \A i \in 1..Len(fila) : fila[i].bom /\ fila[i].tag = c.tag
    /\ \A i \in 1..Len(c.lidos) : c.lidos[i] = c.tag

UmFim(s) == \A i \in 1..Len(s) : s[i].tipo = "csw" <=> i = Len(s)

Certo ==
  /\ UmFim(fila)
  /\ EmCurso = {} => fila = <<>> /\ toggle_out = dtout /\ toggle_in = dtin
  /\ \A p \in EmCurso : EmCurso = {p} /\ EmPasso(cmd[p]) /\ Boas(cmd[p])

PassoInv == limpo => Certo

BotInv == UbTipos /\ PassoInv
-----------------------------------------------------------------------------

(* What each step does to the commands. *)

LEMMA NenhumIs == Nenhum_ \in Cmds /\ Nenhum_.fase = "fora" /\ Nenhum_.voo = "nao"
<1>1. <<>> \in Seq(Nat) /\ FALSE \in BOOLEAN /\ 0 \in Nat /\ 0 \in Int
  OBVIOUS
<1> QED
  BY <1>1, Zenon DEF Nenhum_, Cmds

LEMMA ComandoIs ==
  ASSUME UbTipos, NEW n \in {1, 2}, NEW b \in {0, 1}
  PROVE  /\ Comando(n, b) \in Cmds
         /\ Comando(n, b).fase = "cbw" /\ Comando(n, b).voo = "ativo"
         /\ Comando(n, b).t = b /\ Comando(n, b).n = n
         /\ Comando(n, b).lidos = <<>>
<1>1. global_cbw_tag \in Nat /\ Nenhum_.lidos = <<>>
  BY DEF UbTipos, Nenhum_
<1>2. PICK g \in Nat : g = global_cbw_tag
  BY <1>1
<1>3. PICK c \in Cmds : c = Nenhum_
  BY NenhumIs
<1>4. PICK d : d = [c EXCEPT !.fase = "cbw", !.voo = "ativo", !.t = b, !.quer = 1,
                             !.tag = g, !.n = n]
  OBVIOUS
<1>5. Comando(n, b) = d
  BY <1>2, <1>3, <1>4 DEF Comando
<1>6. 1 \in Int /\ n \in {0, 1, 2}
  OBVIOUS
<1>7. d \in Cmds
  BY <1>4, <1>6, Zenon DEF Cmds
<1>8. /\ d.fase = "cbw" /\ d.voo = "ativo"
      /\ d.t = b /\ d.n = n /\ d.lidos = c.lidos
  BY <1>4 DEF Cmds
<1>9. c.lidos = <<>>
  BY <1>1, <1>3
<1> QED
  BY <1>5, <1>7, <1>8, <1>9

LEMMA MudadoTipo == \A c \in Cmds, v \in {"ok", "erro"} : [c EXCEPT !.voo = v] \in Cmds
BY DEF Cmds

(* c and d are the same command, with the same data read. *)
Mesmo(c, d) ==
  /\ d.fase = c.fase /\ d.t = c.t /\ d.quer = c.quer /\ d.tag = c.tag
  /\ d.n = c.n /\ d.lidos = c.lidos /\ d.csw = c.csw /\ d.bom = c.bom

LEMMA VooIs ==
  ASSUME NEW c \in Cmds, NEW v \in {"ok", "erro"}, NEW d, d = [c EXCEPT !.voo = v]
  PROVE  d.voo = v /\ Mesmo(c, d)
BY DEF Cmds, Mesmo

(* The record of p is replaced by d. *)
LEMMA TrocaIs ==
  ASSUME UbTipos, NEW p \in Quem_, NEW d \in Cmds, cmd' = [cmd EXCEPT ![p] = d]
  PROVE  /\ cmd' \in [Quem_ -> Cmds] /\ cmd'[p] = d
         /\ \A q \in Quem_ \ {p} : cmd'[q] = cmd[q]
         /\ EmCurso' = IF d.fase = "fora" THEN EmCurso \ {p} ELSE EmCurso \cup {p}
BY DEF UbTipos, EmCurso

LEMMA VirouIs ==
  \A b \in {0, 1} : /\ Inverte(b) \in {0, 1} /\ Inverte(b) # b /\ Inverte(Inverte(b)) = b
                    /\ Vira(b, 1) = Inverte(b) /\ Vira(b, 2) = b
BY DEF Inverte, Vira

LEMMA QuemIs == "init" \in Quem_ /\ "init" \notin Tarefas /\ Tarefas \subseteq Quem_
BY TarefasAssumption DEF Quem_

(* An answer: its data packets and its status packet. *)
LEMMA RespostaIs ==
  ASSUME UbTipos, NEW p \in EmCurso, NEW r \in Respostas(p)
  PROVE  /\ r \in Seq(Pacotes) /\ UmFim(r)
         /\ \E m \in 1..cmd[p].n, b \in BOOLEAN :
              /\ Len(r) = m + 1 /\ (b => m = cmd[p].n)
              /\ \A i \in 1..(m + 1) : r[i].tag = cmd[p].tag /\ r[i].bom = b
              /\ m = 2 => r[1].tipo = "setor"
              /\ m < cmd[p].n => r[m].tipo = "pouco"
<1>1. /\ p \in Quem_ /\ cmd[p] \in Cmds /\ cmd[p].n \in {1, 2} /\ cmd[p].tag \in Nat
      /\ p = "init" => cmd[p].n = 1
  BY DEF UbTipos, EmCurso, Cmds
<1>2. PICK m \in 1..cmd[p].n, b \in BOOLEAN :
        /\ b => m = cmd[p].n
        /\ r = Resposta(p, m, b)
  <2>1. CASE r = Resposta(p, cmd[p].n, TRUE)
    <3>1. cmd[p].n \in 1..cmd[p].n
      BY <1>1
    <3> QED
      BY <2>1, <3>1
  <2>2. CASE \E m \in 1..cmd[p].n : r = Resposta(p, m, FALSE)
    BY <2>2
  <2> QED
    BY <2>1, <2>2 DEF Respostas
<1> DEFINE tipo(i) == IF i > m THEN "csw"
                      ELSE IF p = "init" \/ (i = m /\ m < cmd[p].n) THEN "pouco" ELSE "setor"
<1>3. r = [i \in 1..(m + 1) |-> [tag |-> cmd[p].tag, tipo |-> tipo(i), bom |-> b]]
  BY <1>2 DEF Resposta
<1>4. \A i \in 1..(m + 1) :
        /\ tipo(i) \in {"setor", "pouco", "csw"}
        /\ tipo(i) = "csw" <=> i = m + 1
  BY <1>1
<1>5. m = 2 => tipo(1) = "setor"
  BY <1>1
<1>6. m < cmd[p].n => tipo(m) = "pouco"
  BY <1>1
<1> HIDE DEF tipo
<1>7. \A i \in 1..(m + 1) : /\ r[i] \in Pacotes
                            /\ r[i].tag = cmd[p].tag /\ r[i].tipo = tipo(i) /\ r[i].bom = b
  BY <1>1, <1>3, <1>4 DEF Pacotes
<1>8. r \in Seq(Pacotes) /\ Len(r) = m + 1
  <2>1. m + 1 \in Nat /\ r \in [1..(m + 1) -> Pacotes]
    BY <1>1, <1>3, <1>7
  <2> QED
    BY <2>1, LenProperties
<1>9. UmFim(r)
  BY <1>4, <1>7, <1>8 DEF UmFim
<1>10. 1 \in 1..(m + 1) /\ m \in 1..(m + 1)
  BY <1>1
<1> QED
  BY <1>2, <1>5, <1>6, <1>7, <1>8, <1>9, <1>10
-----------------------------------------------------------------------------
LEMMA LeIs ==
  ASSUME UbTipos, NEW p \in Tarefas, LeSetores(p)
  PROVE  /\ p \in Quem_ /\ p \notin EmCurso
         /\ \E n \in {1, 2} : cmd' = [cmd EXCEPT ![p] = Comando(n, toggle_out)]
         /\ global_cbw_tag' = global_cbw_tag + 1
         /\ limpo' \in BOOLEAN /\ (limpo' => limpo /\ EmCurso = {})
         /\ UNCHANGED <<toggle_out, toggle_in, dtout, dtin, fila>>
<1>1. limpo' \in BOOLEAN
  BY Zenon DEF LeSetores
<1> QED
  BY <1>1, QuemIs DEF LeSetores, EmCurso, NovoTag, ubDev

(* SYS_TESTINIT cuts every transfer that is under way. *)
LEMMA TestInitIs ==
  ASSUME UbTipos, TestInit
  PROVE  /\ "init" \notin EmCurso
         /\ Corta \in [Quem_ -> Cmds] /\ Corta["init"] = cmd["init"]
         /\ \A q \in Quem_ : /\ Corta[q].fase = cmd[q].fase /\ Corta[q].n = cmd[q].n
                             /\ Corta[q].fase = "fora" <=> Corta[q].voo = "nao"
         /\ fila' \in Seq(Pacotes) /\ dtout' \in {0, 1} /\ dtin' \in {0, 1}
         /\ \/ /\ cmd' = [Corta EXCEPT !["init"] = Comando(1, 0)]
               /\ global_cbw_tag' = global_cbw_tag + 1
               /\ toggle_out' = 0 /\ toggle_in' = 0 /\ dtout' = 0 /\ dtin' = 0 /\ fila' = <<>>
               /\ limpo' = (EmCurso = {})
            \/ /\ cmd' = Corta /\ limpo' = FALSE
               /\ UNCHANGED <<global_cbw_tag, toggle_out, toggle_in>>
<1>1. cmd["init"].fase = "fora" /\ cmd["init"].voo = "nao" /\ "init" \notin EmCurso
  BY QuemIs DEF TestInit, UbTipos, EmCurso
<1>2. \A q \in Quem_ :
        /\ cmd[q] \in Cmds
        /\ Corta[q] = IF cmd[q].voo = "ativo" THEN [cmd[q] EXCEPT !.voo = "erro"] ELSE cmd[q]
  BY DEF Corta, UbTipos
<1>3. ASSUME NEW q \in Quem_
      PROVE  /\ Corta[q] \in Cmds /\ Corta[q].fase = cmd[q].fase /\ Corta[q].n = cmd[q].n
             /\ Corta[q].fase = "fora" <=> Corta[q].voo = "nao"
  <2>1. CASE cmd[q].voo = "ativo"
    <3>1. Corta[q] \in Cmds /\ Corta[q].voo = "erro" /\ Mesmo(cmd[q], Corta[q])
      BY <1>2, <2>1, MudadoTipo, VooIs
    <3> QED
      BY <2>1, <3>1 DEF Mesmo, UbTipos
  <2>2. CASE cmd[q].voo # "ativo"
    BY <1>2, <2>2 DEF UbTipos
  <2> QED
    BY <2>1, <2>2
<1>4. Corta \in [Quem_ -> Cmds]
  BY <1>3 DEF Corta
<1>5. Corta["init"] = cmd["init"]
  BY <1>1, <1>2, QuemIs
<1>6. fila' \in Seq(Pacotes) /\ dtout' \in {0, 1} /\ dtin' \in {0, 1}
  <2>1. CASE Zera
    BY <2>1 DEF Zera
  <2>2. CASE UNCHANGED ubDev
    BY <2>2 DEF ubDev, UbTipos
  <2> QED
    BY <2>1, <2>2 DEF TestInit
<1> QED
  BY <1>1, <1>3, <1>4, <1>5, <1>6 DEF TestInit, NovoTag, Zera

LEMMA OutIs ==
  ASSUME UbTipos, NEW p \in Quem_, PacoteOut(p)
  PROVE  /\ p \in EmCurso /\ cmd[p].fase = "cbw" /\ cmd[p].voo = "ativo"
         /\ UNCHANGED <<toggle_out, toggle_in, global_cbw_tag, dtin>>
         /\ \E d \in Cmds : cmd' = [cmd EXCEPT ![p] = d] /\ d.voo \in {"ok", "erro"} /\ Mesmo(cmd[p], d)
         /\ fila' = fila \/ \E r \in Respostas(p) : fila' \in {r, fila \o r}
         /\ dtout' \in {0, 1} /\ limpo' \in BOOLEAN /\ (limpo' => limpo)
         /\ limpo' /\ fila = <<>> /\ cmd[p].t = dtout =>
              /\ \E d \in Cmds : cmd' = [cmd EXCEPT ![p] = d] /\ d.voo = "ok" /\ Mesmo(cmd[p], d)
              /\ dtout' = Inverte(dtout)
              /\ \E r \in Respostas(p) : fila' \in {r, fila \o r}
<1>1. /\ p \in EmCurso /\ cmd[p].fase = "cbw" /\ cmd[p].voo = "ativo"
      /\ UNCHANGED <<toggle_out, toggle_in, global_cbw_tag, dtin>>
  BY DEF PacoteOut, ubHost, EmCurso
<1>2. \A v \in {"ok", "erro"} : cmd' = [cmd EXCEPT ![p].voo = v] =>
        \E d \in Cmds : cmd' = [cmd EXCEPT ![p] = d] /\ d.voo = v /\ Mesmo(cmd[p], d)
  <2> SUFFICES ASSUME NEW v \in {"ok", "erro"}, cmd' = [cmd EXCEPT ![p].voo = v]
               PROVE  \E d \in Cmds : cmd' = [cmd EXCEPT ![p] = d] /\ d.voo = v /\ Mesmo(cmd[p], d)
    OBVIOUS
  <2>1. cmd[p] \in Cmds
    BY DEF UbTipos
  <2>2. PICK d : d = [cmd[p] EXCEPT !.voo = v]
    OBVIOUS
  <2>3. cmd' = [cmd EXCEPT ![p] = d]
    BY <2>2
  <2>4. d \in Cmds /\ d.voo = v /\ Mesmo(cmd[p], d)
    BY <2>1, <2>2, MudadoTipo, VooIs
  <2> QED
    BY <2>3, <2>4
<1>3. \/ cmd' = [cmd EXCEPT ![p].voo = "ok"] /\ cmd[p].t # dtout /\ UNCHANGED <<dtout, fila, limpo>>
      \/ /\ cmd' = [cmd EXCEPT ![p].voo = "erro"]
         /\ limpo' = FALSE /\ UNCHANGED <<dtout, fila>>
      \/ /\ \E r \in Respostas(p) : fila' \in {r, fila \o r}
         /\ dtout' = Inverte(dtout)
         /\ cmd' = [cmd EXCEPT ![p].voo = "ok"] /\ UNCHANGED limpo
  BY DEF PacoteOut
<1>4. dtout \in {0, 1} /\ Inverte(dtout) \in {0, 1} /\ limpo \in BOOLEAN
  BY VirouIs DEF UbTipos
<1>5. CASE cmd' = [cmd EXCEPT ![p].voo = "ok"] /\ cmd[p].t # dtout /\ UNCHANGED <<dtout, fila, limpo>>
  BY <1>1, <1>2, <1>4, <1>5
<1>6. CASE /\ cmd' = [cmd EXCEPT ![p].voo = "erro"]
           /\ limpo' = FALSE /\ UNCHANGED <<dtout, fila>>
  BY <1>1, <1>2, <1>4, <1>6
<1>7. CASE /\ \E r \in Respostas(p) : fila' \in {r, fila \o r}
           /\ dtout' = Inverte(dtout)
           /\ cmd' = [cmd EXCEPT ![p].voo = "ok"] /\ UNCHANGED limpo
  BY <1>1, <1>2, <1>4, <1>7
<1> QED
  BY <1>3, <1>5, <1>6, <1>7

(* What a packet that is taken does to the command. *)
Recebe(c, k, d) ==
  /\ d.t = Inverte(c.t) /\ d.quer = c.quer - 1 /\ d.tag = c.tag
  /\ d.voo = IF k.tipo # "setor" \/ c.quer = 1 THEN "ok" ELSE "ativo"
  /\ c.fase = "dados" => d.lidos = Append(c.lidos, IF k.bom /\ k.tipo # "csw" THEN k.tag ELSE 0)
  /\ c.fase = "csw" => d.lidos = c.lidos /\ (d.bom <=> k.bom /\ k.tipo = "csw")

(* The command after a packet, but for what is read from it. *)
Contado(c, k) ==
  [c EXCEPT !.t = Inverte(@), !.quer = @ - 1,
            !.voo = IF k.tipo # "setor" \/ c.quer = 1 THEN "ok" ELSE "ativo"]

Lido(c, k, d) ==
  \/ c.fase = "dados" /\ d = [Contado(c, k) EXCEPT
       !.lidos = Append(@, IF k.bom /\ k.tipo # "csw" THEN k.tag ELSE 0)]
  \/ c.fase = "csw" /\ d = [Contado(c, k) EXCEPT !.csw = k.tag, !.bom = k.bom /\ k.tipo = "csw"]

LEMMA RecebeIs ==
  ASSUME NEW c \in Cmds, c.fase \in {"dados", "csw"}, NEW k \in Pacotes, NEW d, Lido(c, k, d)
  PROVE  d \in Cmds /\ d.fase = c.fase /\ d.n = c.n /\ d.voo \in {"ok", "ativo"} /\ Recebe(c, k, d)
<1>0. PICK u : u = Contado(c, k)
  OBVIOUS
<1>1. k.tag \in Nat /\ k.bom \in BOOLEAN /\ c.lidos \in Seq(Nat) /\ c.quer - 1 \in Int
  BY DEF Pacotes, Cmds
<1>2. Inverte(c.t) \in {0, 1}
  BY VirouIs DEF Cmds
<1>3. PICK v \in {"ok", "ativo"} : v = IF k.tipo # "setor" \/ c.quer = 1 THEN "ok" ELSE "ativo"
  OBVIOUS
<1>4. PICK i \in {0, 1}, j \in Int : i = Inverte(c.t) /\ j = c.quer - 1
  BY <1>1, <1>2
<1>5. u = [c EXCEPT !.t = i, !.quer = j, !.voo = v]
  BY <1>0, <1>3, <1>4 DEF Contado
<1>6. u \in Cmds
  BY <1>5, Zenon DEF Cmds
<1>7. /\ u.t = i /\ u.quer = j /\ u.voo = v /\ u.fase = c.fase /\ u.n = c.n /\ u.tag = c.tag
      /\ u.lidos = c.lidos
  BY <1>5 DEF Cmds
<1>8. CASE c.fase = "dados"
  <2>1. PICK x \in Nat : x = IF k.bom /\ k.tipo # "csw" THEN k.tag ELSE 0
    BY <1>1
  <2>2. Append(c.lidos, x) \in Seq(Nat)
    BY <1>1
  <2>3. d = [u EXCEPT !.lidos = Append(c.lidos, x)]
    BY <1>0, <1>6, <1>7, <1>8, <2>1 DEF Cmds, Lido
  <2>4. PICK w \in Seq(Nat) : w = Append(c.lidos, x)
    BY <2>2
  <2>5. d = [u EXCEPT !.lidos = w]
    BY <2>3, <2>4
  <2>6. d \in Cmds
    BY <1>6, <2>5, Zenon DEF Cmds
  <2>7. /\ d.t = i /\ d.quer = j /\ d.voo = v /\ d.fase = c.fase /\ d.n = c.n /\ d.tag = c.tag
        /\ d.lidos = w
    BY <1>6, <1>7, <2>5 DEF Cmds
  <2> QED
    BY <1>3, <1>4, <1>8, <2>1, <2>4, <2>6, <2>7 DEF Recebe
<1>9. CASE c.fase = "csw"
  <2>1. PICK y \in BOOLEAN : y = (k.bom /\ k.tipo = "csw")
    BY Zenon
  <2>2. PICK g \in Nat : g = k.tag
    BY <1>1
  <2>3. d = [u EXCEPT !.csw = g, !.bom = y]
    BY <1>0, <1>9, <2>1, <2>2 DEF Lido
  <2>4. d \in Cmds
    <3>1. PICK e : e = [u EXCEPT !.csw = g]
      OBVIOUS
    <3>2. e \in Cmds
      BY <1>6, <3>1, Zenon DEF Cmds
    <3>3. d = [e EXCEPT !.bom = y]
      BY <1>6, <2>3, <3>1 DEF Cmds
    <3> QED
      BY <3>2, <3>3, Zenon DEF Cmds
  <2>5. /\ d.t = i /\ d.quer = j /\ d.voo = v /\ d.fase = c.fase /\ d.n = c.n /\ d.tag = c.tag
        /\ d.lidos = c.lidos /\ d.bom = y
    BY <1>6, <1>7, <2>3 DEF Cmds
  <2>6. d.bom <=> k.bom /\ k.tipo = "csw"
    BY <2>1, <2>5, Zenon
  <2> QED
    BY <1>3, <1>4, <1>9, <2>4, <2>5, <2>6 DEF Recebe
<1> QED
  BY <1>8, <1>9

LEMMA InIs ==
  ASSUME UbTipos, NEW p \in Quem_, PacoteIn(p)
  PROVE  /\ p \in EmCurso /\ cmd[p].fase \in {"dados", "csw"} /\ cmd[p].voo = "ativo" /\ fila # <<>>
         /\ UNCHANGED <<toggle_out, toggle_in, global_cbw_tag, dtout>>
         /\ Head(fila) \in Pacotes /\ fila' \in Seq(Pacotes)
         /\ dtin' \in {0, 1} /\ limpo' \in BOOLEAN /\ (limpo' => limpo)
         /\ \E d \in Cmds :
              /\ cmd' = [cmd EXCEPT ![p] = d]
              /\ d.voo # "nao" /\ d.fase = cmd[p].fase /\ d.n = cmd[p].n
              /\ limpo' /\ cmd[p].t = dtin =>
                   fila' = Tail(fila) /\ dtin' = Inverte(dtin) /\ Recebe(cmd[p], Head(fila), d)
<1>1. /\ p \in EmCurso /\ cmd[p].fase \in {"dados", "csw"} /\ cmd[p].voo = "ativo" /\ fila # <<>>
      /\ UNCHANGED <<toggle_out, toggle_in, global_cbw_tag, dtout>>
  BY DEF PacoteIn, ubHost, EmCurso, Entra
<1>2. /\ cmd[p] \in Cmds /\ cmd \in [Quem_ -> Cmds] /\ fila \in Seq(Pacotes) /\ limpo \in BOOLEAN
      /\ dtin \in {0, 1} /\ Inverte(dtin) \in {0, 1}
  BY VirouIs DEF UbTipos
<1>3. Head(fila) \in Pacotes /\ Tail(fila) \in Seq(Pacotes)
  BY <1>1, <1>2
<1>4. PICK k \in Pacotes : k = Head(fila)
  BY <1>3
<1>5. PICK u : u = Contado(cmd[p], k)
  OBVIOUS
<1>6. \/ /\ cmd' = [cmd EXCEPT ![p].voo = "erro"] /\ limpo' = FALSE /\ UNCHANGED <<fila, dtin>>
      \/ /\ fila' = Tail(fila) /\ dtin' = Inverte(dtin) /\ UNCHANGED limpo
         /\ \/ cmd[p].t # dtin /\ UNCHANGED cmd
            \/ cmd[p].fase = "dados" /\ cmd' = [cmd EXCEPT ![p] = [u EXCEPT
                 !.lidos = Append(@, IF k.bom /\ k.tipo # "csw" THEN k.tag ELSE 0)]]
            \/ cmd[p].fase = "csw" /\ cmd' = [cmd EXCEPT ![p] = [u EXCEPT
                 !.csw = k.tag, !.bom = k.bom /\ k.tipo = "csw"]]
  BY <1>4, <1>5 DEF PacoteIn, Entra, Contado
<1>7. CASE cmd' = [cmd EXCEPT ![p].voo = "erro"] /\ limpo' = FALSE /\ UNCHANGED <<fila, dtin>>
  <2>1. PICK c \in Cmds : c = cmd[p]
    BY <1>2
  <2>2. PICK d : d = [c EXCEPT !.voo = "erro"]
    OBVIOUS
  <2>3. cmd' = [cmd EXCEPT ![p] = d]
    BY <1>7, <2>1, <2>2
  <2>4. d \in Cmds
    BY <2>2, MudadoTipo
  <2>5. d.voo = "erro" /\ Mesmo(c, d)
    BY <2>2, VooIs
  <2>6. d.fase = cmd[p].fase /\ d.n = cmd[p].n /\ d.voo # "nao"
    BY <2>1, <2>5 DEF Mesmo
  <2> QED
    BY <1>1, <1>2, <1>3, <1>7, <2>3, <2>4, <2>6
<1>8. CASE /\ fila' = Tail(fila) /\ dtin' = Inverte(dtin) /\ UNCHANGED limpo
           /\ cmd[p].t # dtin /\ UNCHANGED cmd
  <2>1. cmd' = [cmd EXCEPT ![p] = cmd[p]]
    BY <1>2, <1>8
  <2> QED
    BY <1>1, <1>2, <1>3, <1>8, <2>1
<1>9. ASSUME fila' = Tail(fila), dtin' = Inverte(dtin), UNCHANGED limpo,
             NEW d, cmd' = [cmd EXCEPT ![p] = d],
             \/ cmd[p].fase = "dados" /\ d = [u EXCEPT
                  !.lidos = Append(@, IF k.bom /\ k.tipo # "csw" THEN k.tag ELSE 0)]
             \/ cmd[p].fase = "csw" /\ d = [u EXCEPT !.csw = k.tag, !.bom = k.bom /\ k.tipo = "csw"]
      PROVE  /\ d \in Cmds /\ d.voo # "nao" /\ d.fase = cmd[p].fase /\ d.n = cmd[p].n
             /\ Recebe(cmd[p], Head(fila), d)
             /\ limpo' = limpo /\ fila' = Tail(fila) /\ dtin' = Inverte(dtin)
  <2>1. PICK c \in Cmds : c = cmd[p]
    BY <1>2
  <2>2. c.fase \in {"dados", "csw"} /\ Lido(c, k, d)
    BY <1>1, <1>5, <1>9, <2>1 DEF Lido
  <2>3. d \in Cmds /\ d.fase = c.fase /\ d.n = c.n /\ d.voo \in {"ok", "ativo"} /\ Recebe(c, k, d)
    BY <2>2, RecebeIs
  <2> QED
    BY <1>4, <1>9, <2>1, <2>3
<1>10. ASSUME NEW d \in Cmds, cmd' = [cmd EXCEPT ![p] = d],
              d.voo # "nao", d.fase = cmd[p].fase, d.n = cmd[p].n,
              Recebe(cmd[p], Head(fila), d),
              limpo' = limpo, fila' = Tail(fila), dtin' = Inverte(dtin)
       PROVE  /\ fila' \in Seq(Pacotes)
              /\ dtin' \in {0, 1} /\ limpo' \in BOOLEAN /\ (limpo' => limpo)
  BY <1>2, <1>3, <1>10
<1> QED
  <2>1. CASE /\ fila' = Tail(fila) /\ dtin' = Inverte(dtin) /\ UNCHANGED limpo
             /\ \/ cmd[p].fase = "dados" /\ cmd' = [cmd EXCEPT ![p] = [u EXCEPT
                     !.lidos = Append(@, IF k.bom /\ k.tipo # "csw" THEN k.tag ELSE 0)]]
                \/ cmd[p].fase = "csw" /\ cmd' = [cmd EXCEPT ![p] = [u EXCEPT
                     !.csw = k.tag, !.bom = k.bom /\ k.tipo = "csw"]]
    <3>1. PICK d : /\ cmd' = [cmd EXCEPT ![p] = d]
                   /\ \/ cmd[p].fase = "dados" /\ d = [u EXCEPT
                           !.lidos = Append(@, IF k.bom /\ k.tipo # "csw" THEN k.tag ELSE 0)]
                      \/ cmd[p].fase = "csw" /\ d = [u EXCEPT !.csw = k.tag, !.bom = k.bom /\ k.tipo = "csw"]
      BY <2>1
    <3>2. /\ d \in Cmds /\ d.voo # "nao" /\ d.fase = cmd[p].fase /\ d.n = cmd[p].n
          /\ Recebe(cmd[p], Head(fila), d)
      BY <1>9, <2>1, <3>1
    <3>3. /\ fila' \in Seq(Pacotes)
          /\ dtin' \in {0, 1} /\ limpo' \in BOOLEAN /\ (limpo' => limpo)
      BY <1>2, <1>3, <2>1
    <3> QED
      BY <1>1, <1>3, <2>1, <3>1, <3>2, <3>3
  <2> QED
    BY <1>6, <1>7, <1>8, <2>1

LEMMA ExpiraIs ==
  ASSUME UbTipos, NEW p \in Quem_, Expira(p)
  PROVE  /\ p \in EmCurso /\ limpo' = FALSE
         /\ UNCHANGED <<toggle_out, toggle_in, global_cbw_tag, dtout, dtin, fila>>
         /\ \E d \in Cmds : cmd' = [cmd EXCEPT ![p] = d] /\ d.voo = "erro" /\ Mesmo(cmd[p], d)
<1>1. /\ p \in EmCurso /\ limpo' = FALSE
      /\ UNCHANGED <<toggle_out, toggle_in, global_cbw_tag, dtout, dtin, fila>>
  BY DEF Expira, ubHost, ubDev, UbTipos, EmCurso
<1>2. PICK d : d = [cmd[p] EXCEPT !.voo = "erro"]
  OBVIOUS
<1>3. cmd' = [cmd EXCEPT ![p] = d]
  BY <1>2 DEF Expira
<1>4. d \in Cmds /\ d.voo = "erro" /\ Mesmo(cmd[p], d)
  <2>1. cmd[p] \in Cmds
    BY DEF UbTipos
  <2> QED
    BY <1>2, <2>1, MudadoTipo, VooIs
<1> QED
  BY <1>1, <1>3, <1>4

LEMMA DesisteIs ==
  ASSUME UbTipos, NEW p \in Tarefas, Desiste(p)
  PROVE  /\ p \in EmCurso /\ cmd[p].voo = "erro"
         /\ cmd' = [cmd EXCEPT ![p] = Nenhum_]
         /\ UNCHANGED <<toggle_out, toggle_in, global_cbw_tag, dtout, dtin, fila, limpo>>
BY QuemIs DEF Desiste, ubHost, ubDev, UbTipos, EmCurso

(* The next transfer of a command. *)
FaseIs(c, d, f, k, b) ==
  /\ d.fase = f /\ d.voo = "ativo" /\ d.quer = k /\ d.t = b
  /\ d.tag = c.tag /\ d.n = c.n /\ d.lidos = c.lidos

LEMMA FaseMuda ==
  ASSUME NEW c \in Cmds, NEW f \in {"dados", "csw"}, NEW k \in {1, 2}, NEW b \in {0, 1}, NEW d,
         d = [c EXCEPT !.fase = f, !.voo = "ativo", !.quer = k, !.t = b]
  PROVE  d \in Cmds /\ FaseIs(c, d, f, k, b)
<1>1. k \in Int /\ f \in {"fora", "cbw", "dados", "csw"}
  OBVIOUS
<1>2. d \in Cmds
  BY <1>1, Zenon DEF Cmds
<1>3. FaseIs(c, d, f, k, b)
  BY DEF Cmds, FaseIs
<1> QED
  BY <1>2, <1>3

LEMMA SegueIs ==
  ASSUME UbTipos, NEW p \in Quem_, Segue(p)
  PROVE  /\ p \in EmCurso /\ cmd[p].voo = "ok" /\ cmd[p].n \in {1, 2} /\ cmd[p] \in Cmds
         /\ UNCHANGED <<global_cbw_tag, dtout, dtin, fila>>
         /\ toggle_out' \in {0, 1} /\ toggle_in' \in {0, 1}
         /\ limpo' \in BOOLEAN /\ (limpo' => limpo)
         /\ \E d \in Cmds :
              /\ cmd' = [cmd EXCEPT ![p] = d]
              /\ \/ /\ cmd[p].fase = "cbw" /\ FaseIs(cmd[p], d, "dados", cmd[p].n, toggle_in)
                    /\ toggle_out' = Inverte(toggle_out) /\ UNCHANGED toggle_in
                 \/ /\ cmd[p].fase = "dados" /\ FaseIs(cmd[p], d, "csw", 1, toggle_in')
                    /\ toggle_in' = Vira(toggle_in, cmd[p].n) /\ UNCHANGED toggle_out
                    /\ limpo' => cmd[p].quer = 0
                 \/ /\ cmd[p].fase = "csw"
                    /\ toggle_in' = Inverte(toggle_in) /\ UNCHANGED toggle_out
                    /\ \/ d.voo = "erro" /\ Mesmo(cmd[p], d)
                       \/ d = Nenhum_
<1>1. /\ p \in EmCurso /\ cmd[p].voo = "ok" /\ UNCHANGED <<global_cbw_tag, dtout, dtin, fila>>
  BY DEF Segue, ubDev, UbTipos, EmCurso
<1>2. /\ cmd[p].n \in {1, 2} /\ cmd[p] \in Cmds /\ limpo \in BOOLEAN
      /\ toggle_out \in {0, 1} /\ toggle_in \in {0, 1}
  BY <1>1 DEF UbTipos
<1>3. /\ \A b \in {0, 1} : Vira(b, 1) = Inverte(b) /\ Inverte(b) \in {0, 1} /\ Vira(b, cmd[p].n) \in {0, 1}
  BY <1>2, VirouIs
<1>4. CASE SegueCbw(p)
  <2>1. PICK d : d = [cmd[p] EXCEPT !.fase = "dados", !.voo = "ativo", !.quer = cmd[p].n, !.t = toggle_in]
    OBVIOUS
  <2>2. /\ cmd' = [cmd EXCEPT ![p] = d] /\ cmd[p].fase = "cbw"
        /\ toggle_out' = Vira(toggle_out, 1) /\ UNCHANGED <<toggle_in, limpo>>
    BY <1>4, <2>1 DEF SegueCbw
  <2>3. d \in Cmds /\ FaseIs(cmd[p], d, "dados", cmd[p].n, toggle_in)
    BY <1>2, <2>1, FaseMuda
  <2> QED
    BY <1>1, <1>2, <1>3, <2>2, <2>3
<1>5. CASE SegueDados(p)
  <2>1. PICK d : d = [cmd[p] EXCEPT !.fase = "csw", !.voo = "ativo", !.quer = 1, !.t = toggle_in']
    OBVIOUS
  <2>2. /\ cmd' = [cmd EXCEPT ![p] = d] /\ cmd[p].fase = "dados"
        /\ toggle_in' = Vira(toggle_in, cmd[p].n) /\ UNCHANGED toggle_out
    BY <1>5, <2>1 DEF SegueDados
  <2>3. toggle_in' \in {0, 1}
    BY <1>2, <1>3, <2>2
  <2>4. d \in Cmds /\ FaseIs(cmd[p], d, "csw", 1, toggle_in')
    BY <1>2, <2>1, <2>3, FaseMuda
  <2>5. limpo' = (limpo /\ cmd[p].quer = 0)
    BY <1>5 DEF SegueDados
  <2>6. limpo' \in BOOLEAN
    BY <2>5, Zenon
  <2> QED
    BY <1>1, <1>2, <2>2, <2>3, <2>4, <2>5, <2>6
<1>6. CASE SegueCsw(p)
  <2>1. /\ cmd[p].fase = "csw" /\ toggle_in' = Vira(toggle_in, 1) /\ UNCHANGED <<toggle_out, limpo>>
        /\ cmd' = [cmd EXCEPT ![p] = IF Falhou(cmd[p]) THEN [cmd[p] EXCEPT !.voo = "erro"] ELSE Nenhum_]
    BY <1>6 DEF SegueCsw
  <2>2. PICK d : d = IF Falhou(cmd[p]) THEN [cmd[p] EXCEPT !.voo = "erro"] ELSE Nenhum_
    OBVIOUS
  <2>3. d \in Cmds /\ ((d.voo = "erro" /\ Mesmo(cmd[p], d)) \/ d = Nenhum_)
    BY <1>2, <2>2, MudadoTipo, VooIs, NenhumIs
  <2> QED
    BY <1>1, <1>2, <1>3, <2>1, <2>2, <2>3
<1> QED
  BY <1>4, <1>5, <1>6 DEF Segue

LEMMA InsisteIs ==
  ASSUME UbTipos, Insiste
  PROVE  /\ "init" \in EmCurso /\ cmd["init"].voo = "erro"
         /\ UNCHANGED <<dtout, dtin, fila>>
         /\ global_cbw_tag' \in Nat /\ limpo' \in BOOLEAN
         /\ \/ /\ cmd' = [cmd EXCEPT !["init"] = Nenhum_]
               /\ UNCHANGED <<toggle_out, toggle_in, limpo>>
            \/ \E b \in {0, 1} :
                 /\ cmd' = [cmd EXCEPT !["init"] = Comando(1, b)]
                 /\ toggle_out' = b /\ toggle_in' \in {0, 1}
                 /\ \/ b = toggle_out /\ UNCHANGED <<toggle_in, limpo>>
                    \/ /\ b = 0 /\ toggle_in' = 0
                       /\ limpo' => /\ dtout = 0 /\ dtin = 0 /\ fila = <<>>
                                    /\ EmCurso = {"init"}
<1>1. "init" \in EmCurso /\ cmd["init"].voo = "erro" /\ UNCHANGED <<dtout, dtin, fila>>
  BY QuemIs DEF Insiste, ubDev, UbTipos, EmCurso
<1>2. /\ toggle_out \in {0, 1} /\ toggle_in \in {0, 1} /\ limpo \in BOOLEAN
      /\ global_cbw_tag \in Nat
  BY DEF UbTipos
<1>3. CASE tentativa + 1 = 9
  BY <1>1, <1>2, <1>3 DEF Insiste, ubHost
<1>4. CASE tentativa + 1 # 9 /\ (tentativa + 1) % 3 = 0
  <2>1. /\ cmd' = [cmd EXCEPT !["init"] = Comando(1, 0)] /\ toggle_out' = 0 /\ toggle_in' = 0
        /\ global_cbw_tag' = global_cbw_tag + 1
        /\ limpo' = (ubDev = <<0, 0, <<>>>> /\ EmCurso = {"init"})
    BY <1>4 DEF Insiste, NovoTag
  <2>2. limpo' \in BOOLEAN
    BY <2>1, Zenon
  <2>3. limpo' => dtout = 0 /\ dtin = 0 /\ fila = <<>> /\ EmCurso = {"init"}
    BY <2>1 DEF ubDev
  <2> QED
    BY <1>1, <1>2, <2>1, <2>2, <2>3
<1>5. CASE tentativa + 1 # 9 /\ (tentativa + 1) % 3 # 0
  <2>1. /\ cmd' = [cmd EXCEPT !["init"] = Comando(1, toggle_out)]
        /\ UNCHANGED <<toggle_out, toggle_in, limpo>>
        /\ global_cbw_tag' = global_cbw_tag + 1
    BY <1>5 DEF Insiste, NovoTag
  <2>2. PICK b \in {0, 1} : b = toggle_out
    BY <1>2
  <2>3. cmd' = [cmd EXCEPT !["init"] = Comando(1, b)]
    BY <2>1, <2>2
  <2>4. global_cbw_tag' \in Nat /\ limpo' \in BOOLEAN /\ toggle_out' = b /\ toggle_in' \in {0, 1}
    BY <1>2, <2>1, <2>2
  <2> QED
    BY <1>1, <2>1, <2>2, <2>3, <2>4
<1> QED
  BY <1>3, <1>4, <1>5

-----------------------------------------------------------------------------
LEMMA BotInit == UbInit => BotInv
<1> SUFFICES ASSUME UbInit
             PROVE  BotInv
  OBVIOUS
<1>1. /\ toggle_out = 0 /\ toggle_in = 0 /\ dtout = 0 /\ dtin = 0 /\ limpo = TRUE
      /\ global_cbw_tag = 1 /\ fila = <<>> /\ cmd = [p \in Quem_ |-> Nenhum_]
  BY DEF UbInit
<1>2. \A p \in Quem_ : cmd[p] = Nenhum_ /\ cmd[p].fase = "fora" /\ cmd[p].voo = "nao"
  BY <1>1, NenhumIs
<1>3. EmCurso = {}
  BY <1>2 DEF EmCurso
<1>4. cmd \in [Quem_ -> Cmds]
  BY <1>1, NenhumIs
<1>5. UbTipos
  BY <1>1, <1>2, <1>3, <1>4 DEF UbTipos
<1>6. UmFim(fila)
  BY <1>1 DEF UmFim
<1>7. Certo
  BY <1>1, <1>3, <1>6 DEF Certo
<1> QED
  BY <1>5, <1>7 DEF BotInv, PassoInv

LEMMA TiposMuda ==
  ASSUME UbTipos, NEW p \in Quem_, NEW d \in Cmds, cmd' = [cmd EXCEPT ![p] = d],
         d.fase = "fora" <=> d.voo = "nao",
         d.fase # "fora" => d.n \in {1, 2} /\ (p = "init" => d.n = 1),
         toggle_out' \in {0, 1}, toggle_in' \in {0, 1}, dtout' \in {0, 1}, dtin' \in {0, 1},
         limpo' \in BOOLEAN, global_cbw_tag' \in Nat, fila' \in Seq(Pacotes)
  PROVE  UbTipos'
<1>1. /\ cmd' \in [Quem_ -> Cmds] /\ cmd'[p] = d
      /\ \A q \in Quem_ \ {p} : cmd'[q] = cmd[q]
      /\ EmCurso' = IF d.fase = "fora" THEN EmCurso \ {p} ELSE EmCurso \cup {p}
  BY TrocaIs
<1>2. \A q \in Quem_ : cmd'[q].fase = "fora" <=> cmd'[q].voo = "nao"
  BY <1>1 DEF UbTipos
<1>3. \A q \in EmCurso' : cmd'[q].n \in {1, 2} /\ (q = "init" => cmd'[q].n = 1)
  BY <1>1 DEF UbTipos, EmCurso
<1>4. Quem_' = Quem_ /\ Cmds' = Cmds /\ Pacotes' = Pacotes
  BY DEF Quem_, Cmds, Pacotes
<1> QED
  BY <1>1, <1>2, <1>3 DEF UbTipos

LEMMA UbTiposStep == UbTipos /\ [UbNext]_ubVars => UbTipos'
<1> SUFFICES ASSUME UbTipos, [UbNext]_ubVars
             PROVE  UbTipos'
  OBVIOUS
<1>t. /\ toggle_out \in {0, 1} /\ toggle_in \in {0, 1} /\ dtout \in {0, 1} /\ dtin \in {0, 1}
      /\ limpo \in BOOLEAN /\ global_cbw_tag \in Nat /\ fila \in Seq(Pacotes)
      /\ \A p \in EmCurso : /\ p \in Quem_ /\ cmd[p] \in Cmds /\ cmd[p].fase # "fora"
                            /\ cmd[p].n \in {1, 2} /\ (p = "init" => cmd[p].n = 1)
  BY DEF UbTipos, EmCurso
<1>0. CASE UNCHANGED ubVars
  BY <1>0 DEF UbTipos, ubVars, ubHost, ubDev, EmCurso
<1>1. ASSUME NEW p \in Tarefas, LeSetores(p)
      PROVE  UbTipos'
  <2>1. /\ p \in Quem_ /\ \E n \in {1, 2} : cmd' = [cmd EXCEPT ![p] = Comando(n, toggle_out)]
        /\ global_cbw_tag' = global_cbw_tag + 1 /\ limpo' \in BOOLEAN
        /\ UNCHANGED <<toggle_out, toggle_in, dtout, dtin, fila>>
    BY <1>1, LeIs
  <2>2. PICK n \in {1, 2} : cmd' = [cmd EXCEPT ![p] = Comando(n, toggle_out)]
    BY <2>1
  <2>3. PICK b \in {0, 1} : b = toggle_out
    BY <1>t
  <2>4. PICK d : d = Comando(n, b)
    OBVIOUS
  <2>5. d \in Cmds /\ d.fase = "cbw" /\ d.voo = "ativo" /\ d.n = n
    BY <2>4, ComandoIs
  <2>6. cmd' = [cmd EXCEPT ![p] = d]
    BY <2>2, <2>3, <2>4
  <2>7. p # "init"
    BY QuemIs
  <2>8. d.n \in {1, 2}
    BY <2>2, <2>5
  <2>9. /\ global_cbw_tag' \in Nat /\ fila' \in Seq(Pacotes)
        /\ toggle_out' \in {0, 1} /\ toggle_in' \in {0, 1}
        /\ dtout' \in {0, 1} /\ dtin' \in {0, 1}
    BY <1>t, <2>1
  <2> QED
    BY <2>1, <2>5, <2>6, <2>7, <2>8, <2>9, TiposMuda
<1>2. ASSUME NEW p \in Tarefas, Desiste(p)
      PROVE  UbTipos'
  <2>1. /\ p \in EmCurso /\ cmd' = [cmd EXCEPT ![p] = Nenhum_]
        /\ UNCHANGED <<toggle_out, toggle_in, global_cbw_tag, dtout, dtin, fila, limpo>>
    BY <1>2, DesisteIs
  <2> QED
    BY <1>t, <2>1, NenhumIs, TiposMuda
<1>3. ASSUME NEW p \in Quem_, PacoteOut(p)
      PROVE  UbTipos'
  <2>1. /\ p \in EmCurso /\ UNCHANGED <<toggle_out, toggle_in, global_cbw_tag, dtin>>
        /\ \E d \in Cmds : cmd' = [cmd EXCEPT ![p] = d] /\ d.voo \in {"ok", "erro"} /\ Mesmo(cmd[p], d)
        /\ fila' = fila \/ \E r \in Respostas(p) : fila' \in {r, fila \o r}
        /\ dtout' \in {0, 1} /\ limpo' \in BOOLEAN
    BY <1>3, OutIs
  <2>2. PICK d \in Cmds : cmd' = [cmd EXCEPT ![p] = d] /\ d.voo \in {"ok", "erro"} /\ Mesmo(cmd[p], d)
    BY <2>1
  <2>3. d.fase # "fora" /\ d.voo # "nao" /\ d.n = cmd[p].n
    BY <1>t, <2>1, <2>2 DEF Mesmo
  <2>4. fila' \in Seq(Pacotes)
    <3>1. \A r \in Respostas(p) : r \in Seq(Pacotes)
      BY <2>1, RespostaIs
    <3> QED
      BY <1>t, <2>1, <3>1, ConcatProperties
  <2> QED
    BY <1>t, <2>1, <2>2, <2>3, <2>4, TiposMuda
<1>4. ASSUME NEW p \in Quem_, PacoteIn(p)
      PROVE  UbTipos'
  <2>1. /\ p \in EmCurso /\ UNCHANGED <<toggle_out, toggle_in, global_cbw_tag, dtout>>
        /\ fila' \in Seq(Pacotes) /\ dtin' \in {0, 1} /\ limpo' \in BOOLEAN
        /\ \E d \in Cmds :
              /\ cmd' = [cmd EXCEPT ![p] = d]
              /\ d.voo # "nao" /\ d.fase = cmd[p].fase /\ d.n = cmd[p].n
    BY <1>4, InIs
  <2> QED
    BY <1>t, <2>1, TiposMuda
<1>5. ASSUME NEW p \in Quem_, Expira(p)
      PROVE  UbTipos'
  <2>1. /\ p \in EmCurso /\ limpo' = FALSE
        /\ UNCHANGED <<toggle_out, toggle_in, global_cbw_tag, dtout, dtin, fila>>
        /\ \E d \in Cmds : cmd' = [cmd EXCEPT ![p] = d] /\ d.voo = "erro" /\ Mesmo(cmd[p], d)
    BY <1>5, ExpiraIs
  <2>2. PICK d \in Cmds : cmd' = [cmd EXCEPT ![p] = d] /\ d.voo = "erro" /\ Mesmo(cmd[p], d)
    BY <2>1
  <2>3. d.fase # "fora" /\ d.voo # "nao" /\ d.n = cmd[p].n
    BY <1>t, <2>1, <2>2 DEF Mesmo
  <2> QED
    BY <1>t, <2>1, <2>2, <2>3, TiposMuda
<1>6. ASSUME NEW p \in Quem_, Segue(p)
      PROVE  UbTipos'
  <2>1. /\ p \in EmCurso /\ UNCHANGED <<global_cbw_tag, dtout, dtin, fila>>
        /\ toggle_out' \in {0, 1} /\ toggle_in' \in {0, 1} /\ limpo' \in BOOLEAN
        /\ \E d \in Cmds :
              /\ cmd' = [cmd EXCEPT ![p] = d]
              /\ \/ FaseIs(cmd[p], d, "dados", cmd[p].n, toggle_in)
                 \/ FaseIs(cmd[p], d, "csw", 1, toggle_in')
                 \/ d.voo = "erro" /\ Mesmo(cmd[p], d)
                 \/ d = Nenhum_
    BY <1>6, SegueIs
  <2>2. PICK d \in Cmds :
              /\ cmd' = [cmd EXCEPT ![p] = d]
              /\ \/ FaseIs(cmd[p], d, "dados", cmd[p].n, toggle_in)
                 \/ FaseIs(cmd[p], d, "csw", 1, toggle_in')
                 \/ d.voo = "erro" /\ Mesmo(cmd[p], d)
                 \/ d = Nenhum_
    BY <2>1
  <2>3. \/ d.fase # "fora" /\ d.voo # "nao" /\ d.n = cmd[p].n
        \/ d.fase = "fora" /\ d.voo = "nao"
    BY <1>t, <2>1, <2>2, NenhumIs DEF Mesmo, FaseIs
  <2> QED
    BY <1>t, <2>1, <2>2, <2>3, TiposMuda
<1>7. CASE TestInit
  <2>1. /\ "init" \notin EmCurso
        /\ Corta \in [Quem_ -> Cmds] /\ Corta["init"] = cmd["init"]
        /\ \A q \in Quem_ : /\ Corta[q].fase = cmd[q].fase /\ Corta[q].n = cmd[q].n
                            /\ Corta[q].fase = "fora" <=> Corta[q].voo = "nao"
        /\ fila' \in Seq(Pacotes) /\ dtout' \in {0, 1} /\ dtin' \in {0, 1}
        /\ \/ /\ cmd' = [Corta EXCEPT !["init"] = Comando(1, 0)]
              /\ global_cbw_tag' = global_cbw_tag + 1
              /\ toggle_out' = 0 /\ toggle_in' = 0
              /\ limpo' = (EmCurso = {})
           \/ /\ cmd' = Corta /\ limpo' = FALSE
              /\ UNCHANGED <<global_cbw_tag, toggle_out, toggle_in>>
    BY <1>7, TestInitIs
  <2>2. PICK d : d = Comando(1, 0)
    OBVIOUS
  <2>3. d \in Cmds /\ d.fase = "cbw" /\ d.voo = "ativo" /\ d.n = 1
    BY <2>2, ComandoIs
  <2>4. limpo' \in BOOLEAN
    BY <2>1, Zenon
  <2>5. /\ toggle_out' \in {0, 1} /\ toggle_in' \in {0, 1} /\ global_cbw_tag' \in Nat
    BY <1>t, <2>1
  <2>6. cmd' \in [Quem_ -> Cmds] /\ \A q \in Quem_ : cmd'[q] = Corta[q] \/ (q = "init" /\ cmd'[q] = d)
    BY <2>1, <2>2, <2>3, QuemIs
  <2>7. \A q \in Quem_ : cmd'[q].fase = "fora" <=> cmd'[q].voo = "nao"
    BY <2>1, <2>3, <2>6
  <2>8. \A q \in EmCurso' : cmd'[q].n \in {1, 2} /\ (q = "init" => cmd'[q].n = 1)
    <3> SUFFICES ASSUME NEW q \in Quem_, cmd'[q].fase # "fora"
                 PROVE  cmd'[q].n \in {1, 2} /\ (q = "init" => cmd'[q].n = 1)
      BY DEF EmCurso
    <3>1. CASE q = "init" /\ cmd'[q] = d
      BY <2>3, <3>1
    <3>2. CASE cmd'[q] = Corta[q]
      <4>1. q \in EmCurso
        BY <2>1, <3>2 DEF EmCurso
      <4> QED
        BY <1>t, <2>1, <3>2, <4>1
    <3> QED
      BY <2>6, <3>1, <3>2
  <2> QED
    BY <2>1, <2>4, <2>5, <2>6, <2>7, <2>8 DEF UbTipos
<1>8. CASE Insiste
  <2>1. /\ "init" \in EmCurso /\ UNCHANGED <<dtout, dtin, fila>>
        /\ global_cbw_tag' \in Nat /\ limpo' \in BOOLEAN
        /\ \/ /\ cmd' = [cmd EXCEPT !["init"] = Nenhum_]
              /\ UNCHANGED <<toggle_out, toggle_in, limpo>>
           \/ \E b \in {0, 1} :
                 /\ cmd' = [cmd EXCEPT !["init"] = Comando(1, b)]
                 /\ toggle_out' = b /\ toggle_in' \in {0, 1}
    BY <1>8, InsisteIs
  <2>2. CASE /\ cmd' = [cmd EXCEPT !["init"] = Nenhum_]
             /\ UNCHANGED <<toggle_out, toggle_in, limpo>>
    BY <1>t, <2>1, <2>2, NenhumIs, TiposMuda
  <2>3. ASSUME NEW b \in {0, 1}, cmd' = [cmd EXCEPT !["init"] = Comando(1, b)],
               toggle_out' = b, toggle_in' \in {0, 1}
        PROVE  UbTipos'
    <3>1. PICK d : d = Comando(1, b)
      OBVIOUS
    <3>2. d \in Cmds /\ d.fase = "cbw" /\ d.voo = "ativo" /\ d.n = 1
      BY <3>1, ComandoIs
    <3>3. cmd' = [cmd EXCEPT !["init"] = d]
      BY <2>3, <3>1
    <3>4. /\ fila' \in Seq(Pacotes) /\ dtout' \in {0, 1} /\ dtin' \in {0, 1}
          /\ toggle_out' \in {0, 1} /\ "init" \in Quem_
      BY <1>t, <2>1, <2>3
    <3>5. global_cbw_tag' \in Nat /\ limpo' \in BOOLEAN
      BY <2>1
    <3> QED
      BY <2>3, <3>2, <3>3, <3>4, <3>5, TiposMuda
  <2> QED
    BY <2>1, <2>2, <2>3
<1> QED
  BY <1>0, <1>1, <1>2, <1>3, <1>4, <1>5, <1>6, <1>7, <1>8 DEF UbNext

-----------------------------------------------------------------------------
(* The one command of a clean run is d after a step. *)
LEMMA UmSo ==
  ASSUME UbTipos, NEW p \in Quem_, NEW d \in Cmds, cmd' = [cmd EXCEPT ![p] = d],
         EmCurso \subseteq {p}, d.fase # "fora", UmFim(fila'), EmPasso(d)', Boas(d)'
  PROVE  Certo'
<1>1. EmCurso' = {p} /\ cmd'[p] = d
  BY TrocaIs
<1>2. EmPasso(cmd[p])' /\ Boas(cmd[p])'
  BY <1>1 DEF EmPasso, Boas, Resto, Inverte, Vira
<1>3. UmFim(fila)'
  BY DEF UmFim
<1> QED
  BY <1>1, <1>2, <1>3 DEF Certo

(* ... or there is none. *)
LEMMA Nenhum ==
  ASSUME UbTipos, NEW p \in Quem_, cmd' = [cmd EXCEPT ![p] = Nenhum_], EmCurso \subseteq {p},
         fila' = <<>>, toggle_out' = dtout', toggle_in' = dtin'
  PROVE  Certo'
<1>1. EmCurso' = {}
  BY NenhumIs, TrocaIs
<1>2. UmFim(fila)'
  BY DEF UmFim
<1> QED
  BY <1>1, <1>2 DEF Certo

(* A command starts in step. *)
LEMMA Comeca ==
  ASSUME NEW d, d.fase = "cbw", d.voo = "ativo", d.lidos = <<>>,
         fila' = <<>>, d.t = dtout', toggle_out' = dtout', toggle_in' = dtin'
  PROVE  UmFim(fila') /\ EmPasso(d)' /\ Boas(d)'
BY DEF UmFim, EmPasso, Boas

LEMMA TailIs ==
  ASSUME NEW s \in Seq(Pacotes), Len(s) > 0
  PROVE  /\ Head(s) = s[1] /\ Len(Tail(s)) = Len(s) - 1
         /\ \A i \in 1..Len(Tail(s)) : Tail(s)[i] = s[i + 1] /\ i + 1 \in 1..Len(s)
BY HeadTailProperties

LEMMA OutStep ==
  ASSUME BotInv, NEW p \in Quem_, PacoteOut(p), limpo'
  PROVE  Certo'
<1> USE DEF BotInv
<1>1. /\ p \in EmCurso /\ cmd[p].fase = "cbw" /\ cmd[p].voo = "ativo" /\ limpo
      /\ UNCHANGED <<toggle_out, toggle_in, dtin>>
  BY OutIs
<1>2. EmCurso = {p} /\ EmPasso(cmd[p])
  BY <1>1 DEF PassoInv, Certo
<1>3. /\ cmd[p].lidos = <<>> /\ fila = <<>> /\ cmd[p].t = dtout
      /\ toggle_out = dtout /\ toggle_in = dtin
  BY <1>1, <1>2 DEF EmPasso
<1>4. /\ \E d \in Cmds : cmd' = [cmd EXCEPT ![p] = d] /\ d.voo = "ok" /\ Mesmo(cmd[p], d)
      /\ dtout' = Inverte(dtout)
      /\ \E r \in Respostas(p) : fila' \in {r, fila \o r}
  BY <1>3, OutIs
<1>5. PICK d \in Cmds : cmd' = [cmd EXCEPT ![p] = d] /\ d.voo = "ok" /\ Mesmo(cmd[p], d)
  BY <1>4
<1>6. PICK r \in Respostas(p) : fila' \in {r, fila \o r}
  BY <1>4
<1>7. /\ r \in Seq(Pacotes) /\ UmFim(r)
      /\ \E m \in 1..cmd[p].n, b \in BOOLEAN :
              /\ Len(r) = m + 1 /\ (b => m = cmd[p].n)
              /\ \A i \in 1..(m + 1) : r[i].tag = cmd[p].tag /\ r[i].bom = b
              /\ m = 2 => r[1].tipo = "setor"
              /\ m < cmd[p].n => r[m].tipo = "pouco"
  BY <1>1, RespostaIs
<1>8. fila' = r
  BY <1>3, <1>6, <1>7, ConcatEmptySeq
<1>9. PICK m \in 1..cmd[p].n, b \in BOOLEAN :
              /\ Len(r) = m + 1 /\ (b => m = cmd[p].n)
              /\ \A i \in 1..(m + 1) : r[i].tag = cmd[p].tag /\ r[i].bom = b
              /\ m = 2 => r[1].tipo = "setor"
              /\ m < cmd[p].n => r[m].tipo = "pouco"
  BY <1>7
<1>10. cmd[p].n \in {1, 2} /\ d.n = cmd[p].n /\ d.tag = cmd[p].tag /\ d.fase = "cbw" /\ d.lidos = <<>>
  BY <1>1, <1>3, <1>5 DEF UbTipos, Mesmo
<1>11. m \in {1, 2} /\ m + 1 \in 1..(m + 1) /\ m \in 1..(m + 1)
  BY <1>10
<1>12. Resto(d.n)'
  BY <1>8, <1>9, <1>10, <1>11 DEF Resto
<1>13. toggle_out' = Inverte(dtout')
  BY <1>1, <1>3, <1>4, VirouIs DEF UbTipos
<1>14. EmPasso(d)'
  BY <1>1, <1>3, <1>5, <1>10, <1>12, <1>13 DEF EmPasso, Inverte
<1>15. Boas(d)'
  BY <1>8, <1>9, <1>10, <1>11 DEF Boas
<1> QED
  BY <1>2, <1>5, <1>7, <1>8, <1>10, <1>14, <1>15, UmSo

LEMMA SegueStep ==
  ASSUME BotInv, NEW p \in Quem_, Segue(p), limpo'
  PROVE  Certo'
<1> USE DEF BotInv
<1>1. /\ p \in EmCurso /\ cmd[p].voo = "ok" /\ cmd[p].n \in {1, 2} /\ cmd[p] \in Cmds
      /\ limpo /\ UNCHANGED <<dtout, dtin, fila>>
      /\ \E d \in Cmds :
              /\ cmd' = [cmd EXCEPT ![p] = d]
              /\ \/ /\ cmd[p].fase = "cbw" /\ FaseIs(cmd[p], d, "dados", cmd[p].n, toggle_in)
                    /\ toggle_out' = Inverte(toggle_out) /\ UNCHANGED toggle_in
                 \/ /\ cmd[p].fase = "dados" /\ FaseIs(cmd[p], d, "csw", 1, toggle_in')
                    /\ toggle_in' = Vira(toggle_in, cmd[p].n) /\ UNCHANGED toggle_out
                    /\ limpo' => cmd[p].quer = 0
                 \/ /\ cmd[p].fase = "csw"
                    /\ toggle_in' = Inverte(toggle_in) /\ UNCHANGED toggle_out
                    /\ \/ d.voo = "erro" /\ Mesmo(cmd[p], d)
                       \/ d = Nenhum_
  BY SegueIs
<1>2. PICK d \in Cmds :
              /\ cmd' = [cmd EXCEPT ![p] = d]
              /\ \/ /\ cmd[p].fase = "cbw" /\ FaseIs(cmd[p], d, "dados", cmd[p].n, toggle_in)
                    /\ toggle_out' = Inverte(toggle_out) /\ UNCHANGED toggle_in
                 \/ /\ cmd[p].fase = "dados" /\ FaseIs(cmd[p], d, "csw", 1, toggle_in')
                    /\ toggle_in' = Vira(toggle_in, cmd[p].n) /\ UNCHANGED toggle_out
                    /\ cmd[p].quer = 0
                 \/ /\ cmd[p].fase = "csw"
                    /\ toggle_in' = Inverte(toggle_in) /\ UNCHANGED toggle_out
                    /\ \/ d.voo = "erro" /\ Mesmo(cmd[p], d)
                       \/ d = Nenhum_
  BY <1>1
<1>3. EmCurso = {p} /\ EmPasso(cmd[p]) /\ Boas(cmd[p]) /\ UmFim(fila)
  BY <1>1 DEF PassoInv, Certo
<1>4. dtin \in {0, 1} /\ Inverte(Inverte(dtin)) = dtin /\ Inverte(Inverte(dtout)) = dtout
  BY VirouIs DEF UbTipos
<1>5. UmFim(fila')
  BY <1>1, <1>3
<1>6. ASSUME d.tag = cmd[p].tag, d.lidos = cmd[p].lidos
      PROVE  Boas(d)'
  BY <1>1, <1>3, <1>6 DEF Boas
<1>7. CASE /\ cmd[p].fase = "cbw" /\ FaseIs(cmd[p], d, "dados", cmd[p].n, toggle_in)
           /\ toggle_out' = Inverte(toggle_out) /\ UNCHANGED toggle_in
  <2>1. /\ cmd[p].lidos = <<>> /\ Resto(cmd[p].n) /\ toggle_out = Inverte(dtout) /\ toggle_in = dtin
    BY <1>1, <1>3, <1>7 DEF EmPasso
  <2>2. /\ d.fase = "dados" /\ d.voo = "ativo" /\ d.quer = cmd[p].n /\ d.t = dtin
        /\ d.tag = cmd[p].tag /\ d.n = cmd[p].n /\ d.lidos = <<>>
    BY <1>7, <2>1 DEF FaseIs
  <2>3. Resto(d.quer)'
    BY <1>1, <2>1, <2>2 DEF Resto
  <2>4. d.quer \in 1..d.n /\ Len(d.lidos) = d.n - d.quer
    BY <1>1, <2>2
  <2>5. toggle_out' = dtout' /\ toggle_in' = dtin'
    BY <1>1, <1>4, <1>7, <2>1
  <2>6. EmPasso(d)'
    BY <1>1, <2>2, <2>3, <2>4, <2>5 DEF EmPasso
  <2> QED
    BY <1>2, <1>3, <1>5, <1>6, <2>1, <2>2, <2>6, UmSo
<1>8. CASE /\ cmd[p].fase = "dados" /\ FaseIs(cmd[p], d, "csw", 1, toggle_in')
           /\ toggle_in' = Vira(toggle_in, cmd[p].n) /\ UNCHANGED toggle_out
           /\ cmd[p].quer = 0
  <2>1. /\ Len(fila) = 1 /\ toggle_out = dtout /\ Len(cmd[p].lidos) = cmd[p].n
        /\ dtin = Vira(toggle_in, cmd[p].n)
    BY <1>1, <1>3, <1>8 DEF EmPasso
  <2>2. /\ d.fase = "csw" /\ d.voo = "ativo" /\ d.t = toggle_in'
        /\ d.tag = cmd[p].tag /\ d.n = cmd[p].n /\ d.lidos = cmd[p].lidos
    BY <1>8 DEF FaseIs
  <2>3. EmPasso(d)'
    BY <1>1, <1>8, <2>1, <2>2 DEF EmPasso
  <2> QED
    BY <1>2, <1>3, <1>5, <1>6, <2>2, <2>3, UmSo
<1>9. CASE /\ cmd[p].fase = "csw"
           /\ toggle_in' = Inverte(toggle_in) /\ UNCHANGED toggle_out
           /\ \/ d.voo = "erro" /\ Mesmo(cmd[p], d)
              \/ d = Nenhum_
  <2>1. fila = <<>> /\ toggle_out = dtout /\ toggle_in = Inverte(dtin)
    BY <1>1, <1>3, <1>9 DEF EmPasso
  <2>2. fila' = <<>> /\ toggle_out' = dtout' /\ toggle_in' = dtin'
    BY <1>1, <1>4, <1>9, <2>1
  <2>3. CASE d = Nenhum_
    BY <1>2, <1>3, <2>2, <2>3, Nenhum
  <2>4. CASE d.voo = "erro" /\ Mesmo(cmd[p], d)
    <3>1. d.fase = "csw" /\ d.tag = cmd[p].tag /\ d.lidos = cmd[p].lidos
      BY <1>9, <2>4 DEF Mesmo
    <3>2. EmPasso(d)'
      BY <2>2, <2>4, <3>1 DEF EmPasso
    <3> QED
      BY <1>2, <1>3, <1>5, <1>6, <3>1, <3>2, UmSo
  <2> QED
    BY <1>9, <2>3, <2>4
<1> QED
  BY <1>2, <1>7, <1>8, <1>9

(* A packet of data is taken. *)
LEMMA DadosStep ==
  ASSUME BotInv, NEW p \in Quem_, EmCurso = {p}, EmPasso(cmd[p]), Boas(cmd[p]), UmFim(fila),
         cmd[p].fase = "dados", cmd[p].voo = "ativo", fila # <<>>,
         UNCHANGED <<toggle_out, toggle_in, dtout>>, fila' = Tail(fila), dtin' = Inverte(dtin),
         NEW d \in Cmds, cmd' = [cmd EXCEPT ![p] = d], d.fase = cmd[p].fase, d.n = cmd[p].n,
         Recebe(cmd[p], Head(fila), d)
  PROVE  Certo'
<1> USE DEF BotInv
<1>1. /\ cmd[p] \in Cmds /\ cmd[p].n \in {1, 2} /\ cmd[p].lidos \in Seq(Nat) /\ cmd[p].quer \in Int
      /\ dtin \in {0, 1} /\ fila \in Seq(Pacotes) /\ dtout \in {0, 1}
  BY DEF UbTipos, Cmds
<1>2. /\ cmd[p].quer \in 1..cmd[p].n /\ Len(cmd[p].lidos) = cmd[p].n - cmd[p].quer
      /\ Resto(cmd[p].quer) /\ toggle_out = dtout /\ cmd[p].t = dtin
      /\ toggle_in = IF cmd[p].quer = cmd[p].n THEN dtin ELSE Inverte(dtin)
  BY DEF EmPasso
<1>3. PICK c \in Cmds, k \in Pacotes : c = cmd[p] /\ k = Head(fila)
  BY <1>1
<1>4. /\ d.t = Inverte(c.t) /\ d.quer = c.quer - 1 /\ d.tag = c.tag
      /\ d.voo = IF k.tipo # "setor" \/ c.quer = 1 THEN "ok" ELSE "ativo"
      /\ d.lidos = Append(c.lidos, IF k.bom /\ k.tipo # "csw" THEN k.tag ELSE 0)
  BY <1>3 DEF Recebe
<1>5. Len(fila) \in Nat /\ Len(fila) >= 2
  BY <1>1, <1>2, LenProperties DEF Resto
<1>6. /\ k = fila[1] /\ Len(fila') = Len(fila) - 1 /\ fila' \in Seq(Pacotes)
      /\ \A i \in 1..Len(fila') : fila'[i] = fila[i + 1] /\ i + 1 \in 1..Len(fila)
  BY <1>1, <1>3, <1>5, TailIs
<1>7. k.tipo # "csw" /\ k.tag \in Nat /\ 1 \in 1..Len(fila)
  <2>0. PICK l \in Nat : l = Len(fila) /\ l >= 2
    BY <1>5
  <2>1. 1 \in 1..Len(fila) /\ 1 # Len(fila)
    BY <2>0
  <2>2. fila[1].tipo # "csw"
    BY <2>1 DEF UmFim
  <2>3. k.tag \in Nat
    BY <1>3 DEF Pacotes
  <2> QED
    BY <1>6, <2>1, <2>2, <2>3
<1>8. PICK x \in Nat : x = IF k.bom /\ k.tipo # "csw" THEN k.tag ELSE 0
  BY <1>7
<1>9. /\ Len(d.lidos) = Len(c.lidos) + 1 /\ d.lidos[Len(c.lidos) + 1] = x
      /\ \A i \in 1..Len(c.lidos) : d.lidos[i] = c.lidos[i]
  BY <1>1, <1>3, <1>4, <1>8, AppendProperties
<1>10. UmFim(fila')
  <2> SUFFICES ASSUME NEW i \in 1..Len(fila')
               PROVE  fila'[i].tipo = "csw" <=> i = Len(fila')
    BY DEF UmFim
  <2>1. PICK j \in 1..Len(fila) : j = i + 1
    BY <1>6
  <2>2. fila[j].tipo = "csw" <=> j = Len(fila)
    BY DEF UmFim
  <2> QED
    BY <1>5, <1>6, <2>1, <2>2
<1>11. Boas(d)'
  <2> SUFFICES ASSUME Len(fila') > 0, fila'[Len(fila')].bom
               PROVE  /\ \A i \in 1..Len(fila') : fila'[i].bom /\ fila'[i].tag = d.tag
                      /\ \A i \in 1..Len(d.lidos) : d.lidos[i] = d.tag
    BY DEF Boas
  <2>1. Len(fila') \in 1..Len(fila') /\ fila'[Len(fila')] = fila[Len(fila)]
    BY <1>5, <1>6
  <2>2. /\ \A i \in 1..Len(fila) : fila[i].bom /\ fila[i].tag = c.tag
        /\ \A i \in 1..Len(c.lidos) : c.lidos[i] = c.tag
    BY <1>3, <1>5, <2>1 DEF Boas
  <2>3. x = c.tag
    BY <1>6, <1>7, <1>8, <2>2
  <2>4. \A i \in 1..Len(d.lidos) : d.lidos[i] = d.tag
    <3>1. Len(c.lidos) \in Nat
      BY <1>1, <1>3, LenProperties
    <3>2. \A i \in 1..Len(d.lidos) : i \in 1..Len(c.lidos) \/ i = Len(c.lidos) + 1
      BY <1>9, <3>1
    <3> QED
      BY <1>4, <1>9, <2>2, <2>3, <3>2
  <2> QED
    BY <1>4, <1>6, <2>2, <2>4
<1>12. dtin' \in {0, 1} /\ dtin = Inverte(dtin') /\ d.t = dtin' /\ toggle_out' = dtout'
  BY <1>1, <1>2, <1>3, <1>4, VirouIs
<1>13. EmPasso(d)'
  <2>1. CASE c.quer = 2
    <3>1. c.n = 2 /\ Len(c.lidos) = 0 /\ toggle_in' = Inverte(dtin')
      BY <1>1, <1>2, <1>3, <1>12, <2>1
    <3>2. CASE k.tipo = "setor"
      <4>1. Len(fila) = 3
        BY <1>2, <1>3, <1>6, <2>1, <3>2 DEF Resto
      <4>2. d.voo = "ativo" /\ d.quer = 1 /\ d.n = 2 /\ Len(d.lidos) = 1
        BY <1>3, <1>4, <1>9, <2>1, <3>1, <3>2
      <4>3. Resto(1)'
        BY <1>6, <4>1 DEF Resto
      <4>4. Resto(d.quer)'
        BY <4>2, <4>3 DEF Resto
      <4> QED
        BY <1>12, <3>1, <4>2, <4>4 DEF EmPasso, Inverte
    <3>3. CASE k.tipo # "setor"
      <4>1. Len(fila) = 2
        BY <1>2, <1>3, <1>6, <2>1, <3>3 DEF Resto
      <4>2. d.voo = "ok" /\ d.quer = 1 /\ Len(fila') = 1
        BY <1>4, <1>6, <2>1, <3>3, <4>1
      <4> QED
        BY <1>12, <4>2 DEF EmPasso
    <3> QED
      BY <3>2, <3>3
  <2>2. CASE c.quer = 1
    <3>1. Len(fila) = 2
      BY <1>2, <1>3, <2>2 DEF Resto
    <3>2. d.voo = "ok" /\ d.quer = 0 /\ Len(fila') = 1 /\ Len(d.lidos) = d.n
      BY <1>1, <1>2, <1>3, <1>4, <1>6, <1>9, <2>2, <3>1
    <3>3. dtin' = Vira(toggle_in', d.n)
      <4>1. CASE d.n = 1
        BY <1>2, <1>3, <1>12, <2>2, <4>1, VirouIs
      <4>2. CASE d.n = 2
        BY <1>2, <1>3, <1>12, <2>2, <4>2, VirouIs
      <4> QED
        BY <1>1, <4>1, <4>2
    <3> QED
      BY <1>12, <3>2, <3>3 DEF EmPasso, Vira
  <2> QED
    BY <1>1, <1>2, <1>3, <2>1, <2>2
<1>14. d.fase # "fora"
  OBVIOUS
<1> QED
  BY <1>10, <1>11, <1>13, <1>14, UmSo

(* The status wrapper is taken. *)
LEMMA CswStep ==
  ASSUME BotInv, NEW p \in Quem_, EmCurso = {p}, EmPasso(cmd[p]), Boas(cmd[p]), UmFim(fila),
         cmd[p].fase = "csw", cmd[p].voo = "ativo", fila # <<>>,
         UNCHANGED <<toggle_out, toggle_in, dtout>>, fila' = Tail(fila), dtin' = Inverte(dtin),
         NEW d \in Cmds, cmd' = [cmd EXCEPT ![p] = d], d.fase = cmd[p].fase, d.n = cmd[p].n,
         Recebe(cmd[p], Head(fila), d)
  PROVE  Certo'
<1> USE DEF BotInv
<1>1. /\ cmd[p] \in Cmds /\ dtin \in {0, 1} /\ fila \in Seq(Pacotes)
  BY DEF UbTipos
<1>2. /\ Len(fila) = 1 /\ Len(cmd[p].lidos) = cmd[p].n
      /\ toggle_out = dtout /\ toggle_in = dtin /\ cmd[p].t = dtin
  BY DEF EmPasso
<1>3. PICK c \in Cmds, k \in Pacotes : c = cmd[p] /\ k = Head(fila)
  BY <1>1
<1>4. /\ d.tag = c.tag
      /\ d.voo = IF k.tipo # "setor" \/ c.quer = 1 THEN "ok" ELSE "ativo"
      /\ d.lidos = c.lidos /\ (d.bom <=> k.bom /\ k.tipo = "csw")
  BY <1>3 DEF Recebe
<1>5. k = fila[1] /\ fila' \in Seq(Pacotes) /\ Len(fila') = 0
  BY <1>1, <1>2, <1>3, TailIs
<1>6. fila' = <<>>
  BY <1>5, EmptySeq
<1>7. k.tipo = "csw" /\ d.voo = "ok"
  BY <1>2, <1>4, <1>5 DEF UmFim
<1>8. k.bom => \A i \in 1..Len(c.lidos) : c.lidos[i] = c.tag
  BY <1>2, <1>3, <1>5 DEF Boas
<1>9. toggle_out' = dtout' /\ toggle_in' = Inverte(dtin')
  BY <1>1, <1>2, VirouIs
<1>10. EmPasso(d)'
  BY <1>2, <1>3, <1>4, <1>6, <1>7, <1>8, <1>9 DEF EmPasso, Inverte
<1>11. UmFim(fila') /\ Boas(d)'
  BY <1>6 DEF UmFim, Boas
<1>12. d.fase # "fora"
  OBVIOUS
<1> QED
  BY <1>10, <1>11, <1>12, UmSo

LEMMA PassoStep == BotInv /\ [UbNext]_ubVars => PassoInv'
<1> SUFFICES ASSUME BotInv, [UbNext]_ubVars, limpo'
             PROVE  Certo'
  BY DEF PassoInv
<1> USE DEF BotInv
<1>0. CASE UNCHANGED ubVars
  BY <1>0 DEF PassoInv, ubVars, ubHost, ubDev, EmCurso, Certo, EmPasso, Boas, UmFim, Resto,
              Inverte, Vira
<1>1. ASSUME NEW p \in Tarefas, LeSetores(p)
      PROVE  Certo'
  <2>1. /\ p \in Quem_ /\ \E n \in {1, 2} : cmd' = [cmd EXCEPT ![p] = Comando(n, toggle_out)]
        /\ limpo /\ EmCurso = {} /\ UNCHANGED <<toggle_out, toggle_in, dtout, dtin, fila>>
    BY <1>1, LeIs
  <2>2. fila = <<>> /\ toggle_out = dtout /\ toggle_in = dtin
    BY <2>1 DEF PassoInv, Certo
  <2>3. PICK n \in {1, 2} : cmd' = [cmd EXCEPT ![p] = Comando(n, toggle_out)]
    BY <2>1
  <2>4. PICK b \in {0, 1} : b = toggle_out
    BY DEF UbTipos
  <2>5. PICK d : d = Comando(n, b)
    OBVIOUS
  <2>6. d \in Cmds /\ d.fase = "cbw" /\ d.voo = "ativo" /\ d.t = b /\ d.lidos = <<>>
    BY <2>5, ComandoIs
  <2>7. cmd' = [cmd EXCEPT ![p] = d]
    BY <2>3, <2>4, <2>5
  <2>8. UmFim(fila') /\ EmPasso(d)' /\ Boas(d)'
    BY <2>1, <2>2, <2>4, <2>6, Comeca
  <2> QED
    BY <2>1, <2>6, <2>7, <2>8, UmSo
<1>2. ASSUME NEW p \in Tarefas, Desiste(p)
      PROVE  Certo'
  <2>1. /\ p \in EmCurso /\ cmd[p].voo = "erro" /\ cmd' = [cmd EXCEPT ![p] = Nenhum_]
        /\ UNCHANGED <<toggle_out, toggle_in, dtout, dtin, fila, limpo>>
    BY <1>2, DesisteIs
  <2>2. EmCurso = {p} /\ EmPasso(cmd[p])
    BY <2>1 DEF PassoInv, Certo
  <2>3. fila = <<>> /\ toggle_out = dtout /\ toggle_in = dtin
    BY <2>1, <2>2 DEF EmPasso
  <2> QED
    BY <2>1, <2>2, <2>3, QuemIs, Nenhum
<1>3. ASSUME NEW p \in Quem_, PacoteOut(p)
      PROVE  Certo'
  BY <1>3, OutStep
<1>4. ASSUME NEW p \in Quem_, PacoteIn(p)
      PROVE  Certo'
  <2>1. /\ p \in EmCurso /\ cmd[p].fase \in {"dados", "csw"} /\ cmd[p].voo = "ativo" /\ fila # <<>>
        /\ UNCHANGED <<toggle_out, toggle_in, dtout>> /\ limpo
    BY <1>4, InIs
  <2>2. EmCurso = {p} /\ EmPasso(cmd[p]) /\ Boas(cmd[p]) /\ UmFim(fila)
    BY <2>1 DEF PassoInv, Certo
  <2>3. cmd[p].t = dtin
    BY <2>1, <2>2 DEF EmPasso
  <2>4. PICK d \in Cmds :
              /\ cmd' = [cmd EXCEPT ![p] = d] /\ d.fase = cmd[p].fase /\ d.n = cmd[p].n
              /\ fila' = Tail(fila) /\ dtin' = Inverte(dtin) /\ Recebe(cmd[p], Head(fila), d)
    BY <1>4, <2>3, InIs
  <2>5. CASE cmd[p].fase = "dados"
    BY <2>1, <2>2, <2>4, <2>5, DadosStep
  <2>6. CASE cmd[p].fase = "csw"
    BY <2>1, <2>2, <2>4, <2>6, CswStep
  <2> QED
    BY <2>1, <2>5, <2>6
<1>5. ASSUME NEW p \in Quem_, Expira(p)
      PROVE  Certo'
  BY <1>5, ExpiraIs
<1>6. ASSUME NEW p \in Quem_, Segue(p)
      PROVE  Certo'
  BY <1>6, SegueStep
<1>7. CASE TestInit
  <2>1. /\ Corta \in [Quem_ -> Cmds] /\ \A q \in Quem_ : Corta[q].fase = cmd[q].fase
        /\ cmd' = [Corta EXCEPT !["init"] = Comando(1, 0)]
        /\ toggle_out' = 0 /\ toggle_in' = 0 /\ dtout' = 0 /\ dtin' = 0 /\ fila' = <<>>
        /\ EmCurso = {}
    BY <1>7, TestInitIs
  <2>2. PICK d : d = Comando(1, 0)
    OBVIOUS
  <2>3. d \in Cmds /\ d.fase = "cbw" /\ d.voo = "ativo" /\ d.t = 0 /\ d.lidos = <<>>
    BY <2>2, ComandoIs
  <2>4. cmd'["init"] = d /\ \A q \in Quem_ : q # "init" => cmd'[q].fase = "fora"
    BY <2>1, <2>2, QuemIs DEF EmCurso
  <2>5. EmCurso' = {"init"}
    BY <2>3, <2>4, QuemIs DEF EmCurso
  <2>6. UmFim(fila') /\ EmPasso(d)' /\ Boas(d)'
    BY <2>1, <2>3, Comeca
  <2>7. EmPasso(cmd["init"])' /\ Boas(cmd["init"])'
    BY <2>4, <2>6 DEF EmPasso, Boas, Resto, Inverte, Vira
  <2>8. UmFim(fila)'
    BY <2>6 DEF UmFim
  <2> QED
    BY <2>5, <2>7, <2>8 DEF Certo
<1>8. CASE Insiste
  <2>1. /\ "init" \in EmCurso /\ cmd["init"].voo = "erro" /\ UNCHANGED <<dtout, dtin, fila>>
        /\ \/ /\ cmd' = [cmd EXCEPT !["init"] = Nenhum_]
              /\ UNCHANGED <<toggle_out, toggle_in, limpo>>
           \/ \E b \in {0, 1} :
                 /\ cmd' = [cmd EXCEPT !["init"] = Comando(1, b)]
                 /\ toggle_out' = b /\ toggle_in' \in {0, 1}
                 /\ \/ b = toggle_out /\ UNCHANGED <<toggle_in, limpo>>
                    \/ /\ b = 0 /\ toggle_in' = 0
                       /\ dtout = 0 /\ dtin = 0 /\ fila = <<>>
                       /\ EmCurso = {"init"}
    BY <1>8, InsisteIs
  <2>2. limpo => /\ EmCurso = {"init"} /\ fila = <<>> /\ toggle_out = dtout /\ toggle_in = dtin
    BY <2>1 DEF PassoInv, Certo, EmPasso
  <2>3. CASE /\ cmd' = [cmd EXCEPT !["init"] = Nenhum_]
             /\ UNCHANGED <<toggle_out, toggle_in, limpo>>
    BY <2>1, <2>2, <2>3, QuemIs, Nenhum
  <2>4. ASSUME NEW b \in {0, 1}, cmd' = [cmd EXCEPT !["init"] = Comando(1, b)], toggle_out' = b,
               \/ b = toggle_out /\ UNCHANGED <<toggle_in, limpo>>
               \/ /\ b = 0 /\ toggle_in' = 0
                  /\ dtout = 0 /\ dtin = 0 /\ fila = <<>>
                  /\ EmCurso = {"init"}
        PROVE  Certo'
    <3>1. PICK d : d = Comando(1, b)
      OBVIOUS
    <3>2. d \in Cmds /\ d.fase = "cbw" /\ d.voo = "ativo" /\ d.t = b /\ d.lidos = <<>>
      BY <3>1, ComandoIs
    <3>3. cmd' = [cmd EXCEPT !["init"] = d]
      BY <2>4, <3>1
    <3>4. /\ EmCurso = {"init"} /\ fila' = <<>> /\ toggle_out' = dtout' /\ toggle_in' = dtin'
          /\ b = dtout'
      BY <2>1, <2>2, <2>4
    <3>5. UmFim(fila') /\ EmPasso(d)' /\ Boas(d)'
      BY <3>2, <3>4, Comeca
    <3> QED
      BY <3>2, <3>3, <3>4, <3>5, QuemIs, UmSo
  <2> QED
    BY <2>1, <2>3, <2>4
<1> QED
  BY <1>0, <1>1, <1>2, <1>3, <1>4, <1>5, <1>6, <1>7, <1>8 DEF UbNext

LEMMA BotIs == BotInv => InStep /\ OwnData
<1> SUFFICES ASSUME BotInv, limpo
             PROVE  InStep /\ OwnData
  BY DEF InStep, OwnData
<1>1. UbTipos /\ Certo
  BY DEF BotInv, PassoInv
<1>2. ASSUME NEW p \in EmCurso, cmd[p].voo = "ativo"
      PROVE  cmd[p].t = IF Entra(p) THEN dtin ELSE dtout
  BY <1>1, <1>2 DEF Certo, EmPasso, Entra
<1>3. InStep
  BY <1>1, <1>2 DEF InStep, Certo
<1>4. ASSUME NEW p \in Quem_, Sucede(p)
      PROVE  cmd[p].lidos = [i \in 1..cmd[p].n |-> cmd[p].tag]
  <2>1. p \in EmCurso /\ cmd[p].fase = "csw" /\ cmd[p].voo = "ok" /\ cmd[p].bom
    BY <1>4 DEF Sucede, Falhou, EmCurso
  <2>2. /\ Len(cmd[p].lidos) = cmd[p].n
        /\ \A i \in 1..Len(cmd[p].lidos) : cmd[p].lidos[i] = cmd[p].tag
    BY <1>1, <2>1 DEF Certo, EmPasso
  <2>3. cmd[p].lidos \in Seq(Nat)
    BY <1>1 DEF UbTipos, Cmds
  <2>4. cmd[p].lidos = [i \in 1..Len(cmd[p].lidos) |-> cmd[p].lidos[i]]
    BY <2>3
  <2> QED
    BY <2>2, <2>4
<1> QED
  BY <1>3, <1>4 DEF OwnData

LEMMA BotInvariant == UbSpec => []BotInv
<1>1. BotInv /\ [UbNext]_ubVars => BotInv'
  BY UbTiposStep, PassoStep DEF BotInv
<1> QED
  BY BotInit, <1>1, PTL DEF UbSpec

(* The driver and the disk are in step, whatever the statuses, the short answers *)
(* and the retries, with any number of tasks, until a transfer fails, an answer  *)
(* to two packets falls short or two commands overlap (ehci_storage.c:76-104).   *)
THEOREM DriverInStep == UbSpec => []InStep
BY BotInvariant, BotIs, PTL

(* Until then, too, every command that succeeds has all of its own data and no   *)
(* other (ehci_storage.c:114-133).                                               *)
THEOREM DataIsOwn == UbSpec => []OwnData
BY BotInvariant, BotIs, PTL
=============================================================================
