---------------------------- MODULE StreamProofs ----------------------------
(***************************************************************************)
(* Proofs about the byte streams of the applications: module Serial, for   *)
(* any set of ports, applications and baud rates; module Vfs, for any      *)
(* directory, any heap of nodes and any size of the descriptor table;      *)
(* module Fat32, for any two sound volumes, files, offsets and failures.   *)
(***************************************************************************)
EXTENDS Serial, Vfs, Fat32, SequenceTheorems, FiniteSetTheorems, WellFoundedInduction, TLAPS

Alcas   == {-2, -1} \cup {n - 1 : n \in Portas}
Objetos == [Handle : Alcas, Active : BOOLEAN,
            PortNumber : Portas \cup {1}, BaudRate : Bauds \cup {9600}]

(* The types the proof needs. *)
Tipos ==
  /\ in_use \in [Portas -> BOOLEAN]
  /\ objeto \in [Donos -> Objetos]
  /\ passo \in [Donos -> {"fora", "reabre"}]
  /\ \A d \in Donos : objeto[d].Active \/ passo[d] = "reabre" => objeto[d].PortNumber \in Portas

(* An object that believes it holds port n, and is not inside OS_Serial_SetBaud. *)
Detem(d, n) == passo[d] = "fora" /\ objeto[d].Active /\ objeto[d].Handle = n - 1

(* The lock of a port is held for everyone who believes to hold it, and for one. *)
TrancaInv ==
  \A n \in Portas, d \in Donos : Detem(d, n) =>
    in_use[n] /\ \A e \in Donos : Detem(e, n) => e = d
-----------------------------------------------------------------------------
(* The two system calls, seen from the locks *)

LEMMA OpenIs ==
  ASSUME NEW d \in Donos, Open(d)
  PROVE  \E n \in Portas, b \in Bauds :
           \/ /\ in_use' = in_use
              /\ objeto' = [objeto EXCEPT ![d] = [Handle |-> -2, Active |-> FALSE,
                                                  PortNumber |-> n, BaudRate |-> b]]
           \/ /\ ~in_use[n] /\ in_use' = [in_use EXCEPT ![n] = TRUE]
              /\ objeto' = [objeto EXCEPT ![d] = [Handle |-> n - 1, Active |-> TRUE,
                                                  PortNumber |-> n, BaudRate |-> b]]
<1>1. PICK n \in Portas, b \in Bauds :
        \/ /\ in_use' = in_use
           /\ objeto' = [objeto EXCEPT ![d] = [Handle |-> -2, Active |-> -2 >= 0,
                                               PortNumber |-> n, BaudRate |-> b]]
        \/ /\ ~in_use[n] /\ in_use' = [in_use EXCEPT ![n] = TRUE]
           /\ objeto' = [objeto EXCEPT ![d] = [Handle |-> n - 1, Active |-> n - 1 >= 0,
                                               PortNumber |-> n, BaudRate |-> b]]
  BY DEF Open, SysOpen, Ocupada
<1>2. (-2 >= 0) = FALSE /\ (n - 1 >= 0) = TRUE
  BY PortasAssumption
<1> QED
  BY <1>1, <1>2

LEMMA ReopenIs ==
  ASSUME NEW d \in Donos, SetBaudReabre(d)
  PROVE  \/ in_use' = in_use /\ objeto' = [objeto EXCEPT ![d].Handle = -2]
         \/ LET n == objeto[d].PortNumber
            IN  /\ ~in_use[n] /\ in_use' = [in_use EXCEPT ![n] = TRUE]
                /\ objeto' = [objeto EXCEPT ![d].Handle = n - 1]
BY DEF SetBaudReabre, SysOpen, Ocupada

LEMMA CloseIs ==
  ASSUME NEW n \in Portas, SysClose(n)
  PROVE  in_use' = [in_use EXCEPT ![n] = FALSE]
BY DEF SysClose

(* Every Handle an active object uses is the index of a port. *)
LEMMA HandleIs ==
  ASSUME Tipos, NEW d \in Donos, objeto[d].Handle >= 0
  PROVE  objeto[d].Handle + 1 \in Portas /\ objeto[d].Handle = (objeto[d].Handle + 1) - 1
<1>1. objeto[d].Handle \in {-2, -1} \cup {n - 1 : n \in Portas}
  BY DEF Tipos, Objetos, Alcas
<1> QED
  BY <1>1, PortasAssumption
-----------------------------------------------------------------------------
(* Types *)

LEMMA TiposInit == SeInit => Tipos
BY DEF SeInit, Tipos, Fechado, Objetos, Alcas

(* A record of the shape, stored in one object. *)
LEMMA ObjetoKeeps ==
  ASSUME Tipos, NEW d \in Donos, NEW o \in Objetos, objeto' = [objeto EXCEPT ![d] = o],
         in_use' \in [Portas -> BOOLEAN], passo' \in [Donos -> {"fora", "reabre"}],
         \A e \in Donos : e # d => passo'[e] = passo[e],
         o.Active \/ passo'[d] = "reabre" => o.PortNumber \in Portas
  PROVE  Tipos'
BY DEF Tipos

LEMMA TiposStep == Tipos /\ [SeNext]_seVars => Tipos'
<1> SUFFICES ASSUME Tipos, [SeNext]_seVars
             PROVE  Tipos'
  OBVIOUS
<1>1. ASSUME NEW d \in Donos, Open(d)
      PROVE  Tipos'
  <2>1. UNCHANGED passo /\ passo[d] = "fora"
    BY <1>1 DEF Open, DonoLivre
  <2>2. PICK n \in Portas, b \in Bauds :
           \/ /\ in_use' = in_use
              /\ objeto' = [objeto EXCEPT ![d] = [Handle |-> -2, Active |-> FALSE,
                                                  PortNumber |-> n, BaudRate |-> b]]
           \/ /\ ~in_use[n] /\ in_use' = [in_use EXCEPT ![n] = TRUE]
              /\ objeto' = [objeto EXCEPT ![d] = [Handle |-> n - 1, Active |-> TRUE,
                                                  PortNumber |-> n, BaudRate |-> b]]
    BY <1>1, OpenIs
  <2>3. \E o \in Objetos : o.PortNumber = n /\ objeto' = [objeto EXCEPT ![d] = o]
    <3>1. \A h \in {-2, n - 1}, a \in BOOLEAN :
            [Handle |-> h, Active |-> a, PortNumber |-> n, BaudRate |-> b] \in Objetos
      BY DEF Objetos, Alcas
    <3> QED
      BY <2>2, <3>1
  <2>4. in_use' \in [Portas -> BOOLEAN]
    BY <2>2 DEF Tipos
  <2> QED
    BY <2>1, <2>3, <2>4, ObjetoKeeps DEF Tipos
<1>2. ASSUME NEW d \in Donos, Close(d)
      PROVE  Tipos'
  <2>1. in_use' \in [Portas -> BOOLEAN]
    BY <1>2, CloseIs, HandleIs DEF Close, Tipos
  <2> DEFINE o == [objeto[d] EXCEPT !.Active = FALSE, !.Handle = -1]
  <2>2. UNCHANGED passo /\ passo[d] = "fora" /\ objeto' = [objeto EXCEPT ![d] = o]
    BY <1>2 DEF Close, DonoLivre
  <2>3. o \in Objetos /\ ~o.Active
    <3>1. objeto[d] \in Objetos
      BY DEF Tipos
    <3>2. \A a \in BOOLEAN, r \in Objetos : [r EXCEPT !.Active = a] \in Objetos
      BY DEF Objetos
    <3>3. -1 \in Alcas
      BY DEF Alcas
    <3>4. \A h \in Alcas, r \in Objetos : [r EXCEPT !.Handle = h] \in Objetos
      BY DEF Objetos
    <3>5. o \in Objetos
      BY <3>1, <3>2, <3>3, <3>4
    <3>6. o.Active = FALSE
      BY <3>1 DEF Objetos
    <3> QED
      BY <3>5, <3>6
  <2> HIDE DEF o
  <2> QED
    BY <2>1, <2>2, <2>3, ObjetoKeeps DEF Tipos
<1>3. ASSUME NEW d \in Donos, SetBaudFecha(d)
      PROVE  Tipos'
  <2>1. in_use' \in [Portas -> BOOLEAN]
    BY <1>3, CloseIs, HandleIs DEF SetBaudFecha, Tipos
  <2>2. PICK b \in Bauds : objeto' = [objeto EXCEPT ![d].BaudRate = b]
    BY <1>3 DEF SetBaudFecha
  <2> DEFINE o == [objeto[d] EXCEPT !.BaudRate = b]
  <2>3. objeto' = [objeto EXCEPT ![d] = o] /\ passo' = [passo EXCEPT ![d] = "reabre"]
    BY <1>3, <2>2 DEF SetBaudFecha
  <2>4. o \in Objetos /\ o.PortNumber \in Portas
    BY <1>3 DEF SetBaudFecha, Tipos, Objetos
  <2> HIDE DEF o
  <2> QED
    BY <2>1, <2>3, <2>4, ObjetoKeeps DEF Tipos
<1>4. ASSUME NEW d \in Donos, SetBaudReabre(d)
      PROVE  Tipos'
  <2>1. objeto[d].PortNumber \in Portas /\ objeto[d] \in Objetos
    BY <1>4 DEF SetBaudReabre, Tipos
  <2>2. PICK h \in {-2, objeto[d].PortNumber - 1} : objeto' = [objeto EXCEPT ![d].Handle = h]
    BY <1>4, ReopenIs
  <2>3. in_use' \in [Portas -> BOOLEAN]
    BY <1>4, <2>1, ReopenIs DEF Tipos
  <2> DEFINE o == [objeto[d] EXCEPT !.Handle = h]
  <2>4. objeto' = [objeto EXCEPT ![d] = o] /\ passo' = [passo EXCEPT ![d] = "fora"]
    BY <1>4, <2>2 DEF SetBaudReabre
  <2>5. o \in Objetos /\ o.PortNumber \in Portas
    BY <2>1 DEF Objetos, Alcas
  <2> HIDE DEF o
  <2> QED
    BY <2>3, <2>4, <2>5, ObjetoKeeps DEF Tipos
<1>5. ASSUME NEW d \in Donos, Read(d)
      PROVE  Tipos'
  BY <1>5 DEF Read, Tipos
<1>6. ASSUME NEW d \in Donos, Morre(d)
      PROVE  Tipos'
  <2>1. Fechado \in Objetos /\ ~Fechado.Active
    BY DEF Fechado, Objetos, Alcas
  <2> QED
    BY <1>6, <2>1, ObjetoKeeps DEF Morre, Tipos
<1>7. ASSUME NEW n \in Portas, Chega(n)
      PROVE  Tipos'
  BY <1>7 DEF Chega, Tipos
<1>8. CASE Irq4
  BY <1>8 DEF Irq4, Tipos
<1>9. CASE Irq3
  BY <1>9 DEF Irq3, Tipos
<1>10. CASE UNCHANGED seVars
  BY <1>10 DEF seVars, Tipos
<1> QED
  BY <1>1, <1>2, <1>3, <1>4, <1>5, <1>6, <1>7, <1>8, <1>9, <1>10 DEF SeNext
-----------------------------------------------------------------------------
(* The locks *)

(* What a step of d does to what the others hold: nothing. *)
LEMMA OutrosIs ==
  ASSUME Tipos, NEW d \in Donos, Open(d) \/ Close(d) \/ SetBaudFecha(d) \/ SetBaudReabre(d) \/ Morre(d)
  PROVE  \A e \in Donos, n \in Portas : e # d => (Detem(e, n)' <=> Detem(e, n))
<1>1. \A e \in Donos : e # d => passo'[e] = passo[e]
  BY DEF Open, Close, SetBaudFecha, SetBaudReabre, Morre, Tipos
<1>2. \A e \in Donos : e # d => objeto'[e] = objeto[e]
  BY OpenIs, ReopenIs DEF Close, SetBaudFecha, Morre, Tipos
<1> QED
  BY <1>1, <1>2 DEF Detem

LEMMA TrancaStep == Tipos /\ TrancaInv /\ [SeNext]_seVars => TrancaInv'
<1> SUFFICES ASSUME Tipos, TrancaInv, [SeNext]_seVars
             PROVE  TrancaInv'
  OBVIOUS
<1>0. \A n \in Portas : n - 1 # -2 /\ n \in Int
  BY PortasAssumption
<1>1. ASSUME NEW d \in Donos, Open(d)
      PROVE  TrancaInv'
  <2>1. PICK n \in Portas, b \in Bauds :
           \/ /\ in_use' = in_use
              /\ objeto' = [objeto EXCEPT ![d] = [Handle |-> -2, Active |-> FALSE,
                                                  PortNumber |-> n, BaudRate |-> b]]
           \/ /\ ~in_use[n] /\ in_use' = [in_use EXCEPT ![n] = TRUE]
              /\ objeto' = [objeto EXCEPT ![d] = [Handle |-> n - 1, Active |-> TRUE,
                                                  PortNumber |-> n, BaudRate |-> b]]
    BY <1>1, OpenIs
  <2>2. CASE /\ in_use' = in_use
             /\ objeto' = [objeto EXCEPT ![d] = [Handle |-> -2, Active |-> FALSE,
                                                 PortNumber |-> n, BaudRate |-> b]]
    <3>1. \A m \in Portas : ~Detem(d, m)'
      BY <2>2 DEF Detem, Tipos
    <3> QED
      BY <1>1, <2>2, <3>1, OutrosIs DEF TrancaInv
  <2>3. CASE /\ ~in_use[n] /\ in_use' = [in_use EXCEPT ![n] = TRUE]
             /\ objeto' = [objeto EXCEPT ![d] = [Handle |-> n - 1, Active |-> TRUE,
                                                 PortNumber |-> n, BaudRate |-> b]]
    <3>1. \A m \in Portas : Detem(d, m)' => m = n
      BY <1>0, <2>3 DEF Detem, Tipos
    <3>2. \A e \in Donos : ~Detem(e, n)
      BY <2>3 DEF TrancaInv
    <3>3. in_use'[n] /\ \A m \in Portas : in_use[m] => in_use'[m]
      BY <2>3 DEF Tipos
    <3> QED
      BY <1>1, <3>1, <3>2, <3>3, OutrosIs DEF TrancaInv
  <2> QED
    BY <2>1, <2>2, <2>3
<1>2. ASSUME NEW d \in Donos, Close(d) \/ SetBaudFecha(d)
      PROVE  TrancaInv'
  <2> DEFINE n == objeto[d].Handle + 1
  <2>1. n \in Portas /\ Detem(d, n)
    BY <1>2, HandleIs DEF Close, SetBaudFecha, DonoLivre, Detem
  <2>2. \A m \in Portas : ~Detem(d, m)'
    <3>1. CASE Close(d)
      BY <3>1 DEF Close, Detem, Tipos
    <3>2. CASE SetBaudFecha(d)
      BY <3>2 DEF SetBaudFecha, Detem, Tipos
    <3> QED
      BY <1>2, <3>1, <3>2
  <2>3. \A m \in Portas : m # n => in_use'[m] = in_use[m]
    BY <1>2, <2>1, CloseIs DEF Close, SetBaudFecha, Tipos
  <2>4. \A e \in Donos : e # d => ~Detem(e, n)
    BY <2>1 DEF TrancaInv
  <2> HIDE DEF n
  <2> QED
    BY <1>2, <2>1, <2>2, <2>3, <2>4, OutrosIs DEF TrancaInv
<1>3. ASSUME NEW d \in Donos, SetBaudReabre(d)
      PROVE  TrancaInv'
  <2> DEFINE n == objeto[d].PortNumber
  <2>1. n \in Portas /\ objeto[d] \in Objetos
    BY <1>3 DEF SetBaudReabre, Tipos
  <2>2. CASE in_use' = in_use /\ objeto' = [objeto EXCEPT ![d].Handle = -2]
    <3>1. \A m \in Portas : ~Detem(d, m)'
      BY <1>0, <2>1, <2>2 DEF Detem, Tipos, Objetos
    <3> QED
      BY <1>3, <2>2, <3>1, OutrosIs DEF TrancaInv
  <2>3. CASE /\ ~in_use[n] /\ in_use' = [in_use EXCEPT ![n] = TRUE]
             /\ objeto' = [objeto EXCEPT ![d].Handle = n - 1]
    <3>1. \A m \in Portas : Detem(d, m)' => m = n
      BY <1>0, <2>1, <2>3 DEF Detem, Tipos, Objetos
    <3>2. \A e \in Donos : ~Detem(e, n)
      BY <2>1, <2>3 DEF TrancaInv
    <3>3. in_use'[n] /\ \A m \in Portas : in_use[m] => in_use'[m]
      BY <2>1, <2>3 DEF Tipos
    <3> QED
      BY <1>3, <3>1, <3>2, <3>3, OutrosIs DEF TrancaInv
  <2> QED
    BY <1>3, <2>2, <2>3, ReopenIs
<1>4. ASSUME NEW d \in Donos, Morre(d)
      PROVE  TrancaInv'
  <2>1. \A m \in Portas : ~Detem(d, m)'
    BY <1>4 DEF Morre, Fechado, Detem, Tipos
  <2>2. in_use' = in_use
    BY <1>4 DEF Morre
  <2> QED
    BY <1>4, <2>1, <2>2, OutrosIs DEF TrancaInv
<1>5. ASSUME UNCHANGED <<in_use, objeto, passo>>
      PROVE  TrancaInv'
  BY <1>5 DEF TrancaInv, Detem
<1>6. CASE \E d \in Donos : Read(d)
  BY <1>5, <1>6 DEF Read
<1>7. CASE (\E n \in Portas : Chega(n)) \/ Irq4 \/ Irq3 \/ UNCHANGED seVars
  BY <1>5, <1>7 DEF Chega, Irq4, Irq3, seVars
<1> QED
  BY <1>1, <1>2, <1>3, <1>4, <1>6, <1>7 DEF SeNext

(* Two applications never hold the same port, whatever they open, close, swap *)
(* the baud rate of or leave open when they die.                             *)
THEOREM PortsAreExclusive == SeSpec => []OneHolderPerPort
<1>1. SeInit => TrancaInv
  BY DEF SeInit, TrancaInv, Detem, Fechado
<1>2. Tipos /\ TrancaInv => OneHolderPerPort
  <2> SUFFICES ASSUME Tipos, TrancaInv, NEW d \in Donos, NEW e \in Donos, d # e,
                      objeto[d].Active, objeto[e].Active,
                      objeto[d].Handle >= 0, objeto[d].Handle = objeto[e].Handle,
                      passo[d] # "reabre", passo[e] # "reabre"
               PROVE  FALSE
    BY DEF OneHolderPerPort
  <2>1. passo[d] = "fora" /\ passo[e] = "fora"
    BY DEF Tipos
  <2> DEFINE n == objeto[d].Handle + 1
  <2>2. n \in Portas /\ Detem(d, n) /\ Detem(e, n)
    BY <2>1, HandleIs DEF Detem
  <2> QED
    BY <2>2 DEF TrancaInv
<1> QED
  BY TiposInit, TiposStep, TrancaStep, <1>1, <1>2, PTL DEF SeSpec
-----------------------------------------------------------------------------
(* The virtual file system *)


Descritores == [used : BOOLEAN, node : NoHeap \cup Estaticos \cup {Nenhum}, offset : Nat]

(* A node of the heap says of a file what the directory says. *)
NoInv ==
  /\ DOMAIN no \subseteq NoHeap
  /\ \A x \in DOMAIN no : no[x].tipo = "arq" =>
       no[x].nome \in DOMAIN Arquivos /\ no[x].size = Arquivos[no[x].nome]

(* A descriptor in use has a node that lives, a heap node has one descriptor, and *)
(* a file nobody has written is never read past its size.                        *)
FdInv ==
  /\ fd_table \in [Tabela -> Descritores]
  /\ OpenNodesLive
  /\ \A i, j \in Tabela : i # j /\ fd_table[i].used /\ fd_table[j].used
                          /\ fd_table[i].node \in DOMAIN no => fd_table[i].node # fd_table[j].node
  /\ OffsetInFile

VfInv == NoInv /\ FdInv
-----------------------------------------------------------------------------
(* The arithmetic of a read: what is left of the file, without wrapping. *)
LEMMA RestoIs ==
  ASSUME NEW size \in 0..(U32_ - 1), NEW off \in 0..size
  PROVE  (size - off) % U32_ = size - off
BY VfsAssumption

LEMMA VfInvInit == VfInit => VfInv
BY DEF VfInit, VfInv, NoInv, FdInv, Descritores, Fechado_, OpenNodesLive, OffsetInFile, EhArquivo

(* A new node: those in use are others. *)
LEMMA AcomodaIs ==
  ASSUME NoInv, NEW nome \in Nomes_, NEW x \in NoHeap, Acomoda(nome, x)
  PROVE  /\ x \notin DOMAIN no /\ DOMAIN no' = DOMAIN no \cup {x}
         /\ \A y \in DOMAIN no : no'[y] = no[y]
         /\ NoInv'
<1>1. /\ x \notin DOMAIN no /\ DOMAIN no' = DOMAIN no \cup {x}
      /\ \A y \in DOMAIN no : no'[y] = no[y]
  BY DEF Acomoda
<1>2. no'[x] = [nome |-> nome, tipo |-> IF nome \in Diretorios THEN "dir" ELSE "arq",
                size |-> IF nome \in Diretorios THEN 0 ELSE Arquivos[nome]]
  BY DEF Acomoda
<1>3. no'[x].tipo = "arq" => no'[x].nome \in DOMAIN Arquivos /\ no'[x].size = Arquivos[no'[x].nome]
  BY <1>2 DEF Nomes_
<1> QED
  BY <1>1, <1>3 DEF NoInv

(* A lookup leaves the descriptors sound; whether sys_open then takes the new node *)
(* or another one, or none, is the next lemma.                                      *)
LEMMA AcomodaKeeps ==
  ASSUME VfInv, NEW nome \in Nomes_, NEW x \in NoHeap, Acomoda(nome, x), UNCHANGED <<fd_table, escrito>>
  PROVE  VfInv'
<1>1. /\ x \notin DOMAIN no /\ DOMAIN no' = DOMAIN no \cup {x} /\ NoInv'
      /\ \A y \in DOMAIN no : no'[y] = no[y]
  BY AcomodaIs DEF VfInv
<1>2. \A i \in Tabela : fd_table[i].used => fd_table[i].node # x
  BY <1>1, VfsNodesAssumption DEF VfInv, FdInv, OpenNodesLive, NoInv
<1>3. \A i \in Tabela : EhArquivo(i)' => EhArquivo(i) /\ No(i)' = No(i)
  BY <1>1, <1>2 DEF EhArquivo, No
<1>4. OffsetInFile' /\ OpenNodesLive'
  BY <1>1, <1>3 DEF VfInv, FdInv, OffsetInFile, OpenNodesLive
<1> QED
  BY <1>1, <1>2, <1>4 DEF VfInv, FdInv

(* sys_open of a node nobody has, over nodes that stay what they are. *)
LEMMA OcupaKeeps ==
  ASSUME VfInv, NoInv', NEW x \in NoHeap \cup Estaticos, Ocupa(x), UNCHANGED escrito,
         x \in DOMAIN no' \cup Estaticos,
         DOMAIN no \subseteq DOMAIN no', DOMAIN no' \subseteq DOMAIN no \cup {x},
         \A y \in DOMAIN no : no'[y] = no[y],
         x \in DOMAIN no' => \A i \in Tabela : fd_table[i].used => fd_table[i].node # x
  PROVE  VfInv'
<1>0. \A j \in Tabela : fd_table[j].used /\ fd_table[j].node \in DOMAIN no'
        => fd_table[j].node \in DOMAIN no /\ no'[fd_table[j].node] = no[fd_table[j].node]
  OBVIOUS
<1>1. CASE UNCHANGED fd_table
  <2>1. \A j \in Tabela : EhArquivo(j)' => EhArquivo(j) /\ No(j)' = No(j)
    BY <1>0, <1>1 DEF EhArquivo, No
  <2>2. OffsetInFile' /\ OpenNodesLive'
    BY <1>1, <2>1 DEF VfInv, FdInv, OpenNodesLive, OffsetInFile
  <2> QED
    BY <1>0, <1>1, <2>2 DEF VfInv, FdInv
<1>2. ASSUME NEW i \in Tabela, fd_table' = [fd_table EXCEPT ![i] = Aberto_(x)]
      PROVE  VfInv'
  <2>1. Aberto_(x) \in Descritores /\ Aberto_(x).offset = 0 /\ Aberto_(x).node = x
    BY DEF Aberto_, Descritores
  <2>2. /\ fd_table'[i] = Aberto_(x)
        /\ \A j \in Tabela : j # i => fd_table'[j] = fd_table[j]
        /\ fd_table' \in [Tabela -> Descritores]
    BY <1>2, <2>1 DEF VfInv, FdInv
  <2>4. OpenNodesLive'
    BY <2>1, <2>2 DEF VfInv, FdInv, OpenNodesLive
  <2>5. OffsetInFile'
    <3>1. EhArquivo(i)' => No(i)'.size \in Nat
      BY <2>1, <2>2, VfsFilesAssumption, VfsAssumption DEF EhArquivo, No, NoInv
    <3>2. \A j \in Tabela : j # i /\ EhArquivo(j)' => EhArquivo(j) /\ No(j)' = No(j)
      BY <1>0, <2>2 DEF EhArquivo, No
    <3> QED
      BY <2>1, <2>2, <3>1, <3>2 DEF VfInv, FdInv, OffsetInFile
  <2>6. \A k, j \in Tabela : k # j /\ fd_table'[k].used /\ fd_table'[j].used
                            /\ fd_table'[k].node \in DOMAIN no' => fd_table'[k].node # fd_table'[j].node
    <3>1. \A j \in Tabela : x \in DOMAIN no' /\ j # i /\ fd_table'[j].used => fd_table'[j].node # x
      BY <2>2
    <3>2. \A k, j \in Tabela : k # i /\ j # i /\ k # j /\ fd_table'[k].used /\ fd_table'[j].used
                            /\ fd_table'[k].node \in DOMAIN no' => fd_table'[k].node # fd_table'[j].node
      BY <1>0, <2>2 DEF VfInv, FdInv
    <3> QED
      BY <2>1, <2>2, <3>1, <3>2
  <2> QED
    BY <2>2, <2>4, <2>5, <2>6 DEF VfInv, FdInv
<1> QED
  BY <1>1, <1>2 DEF Ocupa

LEMMA AbreKeeps ==
  ASSUME VfInv, NEW nome \in Nomes_, NEW x \in NoHeap, Acomoda(nome, x), Ocupa(x), UNCHANGED escrito
  PROVE  VfInv'
<1>1. /\ x \notin DOMAIN no /\ DOMAIN no' = DOMAIN no \cup {x} /\ NoInv'
      /\ \A y \in DOMAIN no : no'[y] = no[y]
  BY AcomodaIs DEF VfInv
<1>2. \A i \in Tabela : fd_table[i].used => fd_table[i].node # x
  BY <1>1, VfsNodesAssumption DEF VfInv, FdInv, OpenNodesLive, NoInv
<1> QED
  BY <1>1, <1>2, OcupaKeeps
-----------------------------------------------------------------------------
(* What a read or a write moves is one offset. *)
LEMMA OffsetKeeps ==
  ASSUME VfInv, NEW i \in Tabela, EhArquivo(i), NEW o \in Nat, UNCHANGED no,
         fd_table' = [fd_table EXCEPT ![i].offset = o],
         escrito \subseteq escrito',
         No(i).nome \in escrito' \/ o <= No(i).size
  PROVE  VfInv'
<1> DEFINE v == [fd_table[i] EXCEPT !.offset = o]
<1>1. fd_table \in [Tabela -> Descritores] /\ fd_table[i] \in Descritores
  BY DEF VfInv, FdInv
<1>2. v \in Descritores /\ v.used = fd_table[i].used /\ v.node = fd_table[i].node /\ v.offset = o
  BY <1>1 DEF Descritores
<1>3. fd_table' = [fd_table EXCEPT ![i] = v]
  BY <1>1
<1> HIDE DEF v
<1>4. /\ fd_table' \in [Tabela -> Descritores]
      /\ \A j \in Tabela : fd_table'[j].used = fd_table[j].used /\ fd_table'[j].node = fd_table[j].node
      /\ \A j \in Tabela : j # i => fd_table'[j].offset = fd_table[j].offset
      /\ fd_table'[i].offset = o
  BY <1>1, <1>2, <1>3
<1>5. \A j \in Tabela : (EhArquivo(j)' <=> EhArquivo(j)) /\ (EhArquivo(j) => No(j)' = No(j))
  BY <1>4 DEF EhArquivo, No
<1>6. OffsetInFile'
  <2> SUFFICES ASSUME NEW j \in Tabela, EhArquivo(j)', No(j)'.nome \notin escrito'
               PROVE  fd_table'[j].offset <= No(j)'.size
    BY DEF OffsetInFile
  <2>1. EhArquivo(j) /\ No(j)' = No(j)
    BY <1>5
  <2>2. CASE j = i
    BY <1>4, <2>1, <2>2
  <2>3. CASE j # i
    BY <1>4, <2>1, <2>3 DEF VfInv, FdInv, OffsetInFile
  <2> QED
    BY <2>2, <2>3
<1>7. OpenNodesLive' /\ NoInv'
  BY <1>4 DEF VfInv, FdInv, OpenNodesLive, NoInv
<1> QED
  BY <1>4, <1>6, <1>7 DEF VfInv, FdInv

LEMMA LeKeeps == ASSUME VfInv, NEW i \in Tabela, LeArquivo(i) PROVE VfInv'
<1> DEFINE f == fd_table[i]
           o == f.offset + (IF f.offset < Arquivos[No(i).nome] THEN Lido(i) ELSE 0)
<1>1. EhArquivo(i) /\ fd_table' = [fd_table EXCEPT ![i].offset = o] /\ UNCHANGED <<no, escrito>>
  BY DEF LeArquivo
<1>2. /\ f.offset \in Nat
      /\ No(i).size = Arquivos[No(i).nome] /\ No(i).size \in 0..(U32_ - 1)
      /\ No(i).nome \in escrito \/ f.offset <= No(i).size
  BY <1>1, VfsFilesAssumption DEF VfInv, NoInv, FdInv, OffsetInFile, Descritores, EhArquivo, No
<1>3. o \in Nat /\ (f.offset <= No(i).size => o <= No(i).size)
  <2>1. CASE f.offset < No(i).size
    <3>1. f.offset \in 0..No(i).size
      BY <1>2, <2>1, VfsAssumption
    <3>2. (No(i).size - f.offset) % U32_ = No(i).size - f.offset
      BY <1>2, <3>1, RestoIs
    <3>3. CASE f.offset + TamLeitura > No(i).size
      BY <1>2, <2>1, <3>2, <3>3, VfsAssumption, SMTT(30) DEF Lido
    <3>4. CASE ~(f.offset + TamLeitura > No(i).size)
      BY <1>2, <2>1, <3>4, VfsAssumption, VfsFilesAssumption, SMTT(30) DEF Lido
    <3> QED
      BY <3>3, <3>4
  <2>2. CASE ~(f.offset < No(i).size)
    BY <1>2, <2>2, VfsAssumption
  <2> QED
    BY <2>1, <2>2
<1> HIDE DEF o
<1> QED
  BY <1>1, <1>2, <1>3, OffsetKeeps

LEMMA FechaKeeps == ASSUME VfInv, NEW i \in Tabela, Fecha(i) PROVE VfInv'
<1> DEFINE x == fd_table[i].node
<1>1. /\ fd_table' = [fd_table EXCEPT ![i] = Fechado_] /\ fd_table[i].used
      /\ UNCHANGED escrito
  BY DEF Fecha
<1>2. /\ DOMAIN no' \subseteq DOMAIN no /\ \A y \in DOMAIN no' : no'[y] = no[y]
      /\ \A y \in DOMAIN no : y # x => y \in DOMAIN no'
      /\ x \notin DOMAIN no => no' = no
  BY DEF Fecha, SoltaNo
<1>3. Fechado_ \in Descritores /\ ~Fechado_.used
  BY DEF Fechado_, Descritores
<1>4. /\ fd_table' \in [Tabela -> Descritores] /\ ~fd_table'[i].used
      /\ \A j \in Tabela : j # i => fd_table'[j] = fd_table[j]
  BY <1>1, <1>3 DEF VfInv, FdInv
<1>5. \A j \in Tabela : j # i /\ fd_table[j].used => fd_table[j].node # x \/ x \notin DOMAIN no
  BY <1>1 DEF VfInv, FdInv
<1>6. OpenNodesLive'
  BY <1>2, <1>4, <1>5 DEF VfInv, FdInv, OpenNodesLive
<1>7. OffsetInFile'
  <2>1. \A j \in Tabela : EhArquivo(j)' => j # i /\ EhArquivo(j) /\ No(j)' = No(j)
    BY <1>2, <1>4 DEF EhArquivo, No
  <2> QED
    BY <1>1, <1>4, <2>1 DEF VfInv, FdInv, OffsetInFile
<1>8. NoInv'
  BY <1>2 DEF VfInv, NoInv
<1> QED
  BY <1>2, <1>4, <1>6, <1>7, <1>8 DEF VfInv, FdInv

LEMMA VfInvStep == VfInv /\ [VfNext]_vfVars => VfInv'
<1> SUFFICES ASSUME VfInv, [VfNext]_vfVars
             PROVE  VfInv'
  OBVIOUS
<1>1. CASE InitStreams
  <2>1. \A i \in Tabela : /\ fd_table'[i] \in {Aberto_("teclado"), Aberto_("video"), Fechado_}
                          /\ fd_table'[i] \in Descritores
    BY <1>1 DEF InitStreams, Aberto_, Fechado_, Descritores, Estaticos
  <2>2. fd_table' \in [Tabela -> Descritores]
    <3>1. fd_table' = [i \in Tabela |-> fd_table'[i]]
      BY <1>1 DEF InitStreams
    <3> QED
      BY <2>1, <3>1
  <2>3. \A i \in Tabela : fd_table'[i].used => fd_table'[i].node \in Estaticos
    BY <2>1 DEF Aberto_, Fechado_, Estaticos
  <2>4. no' = no /\ escrito' = escrito /\ DOMAIN no \cap Estaticos = {}
    BY <1>1, VfsNodesAssumption DEF InitStreams, VfInv, NoInv
  <2> QED
    BY <2>2, <2>3, <2>4 DEF VfInv, NoInv, FdInv, OpenNodesLive, OffsetInFile, EhArquivo
<1>2. CASE AbreRaiz
  BY <1>2, OcupaKeeps, VfsNodesAssumption DEF AbreRaiz, Estaticos, VfInv, NoInv
<1>3. ASSUME NEW nome \in Nomes_, Abre(nome)
      PROVE  VfInv'
  <2>1. PICK x \in NoHeap : Acomoda(nome, x) /\ Ocupa(x)
    BY <1>3 DEF Abre
  <2>2. escrito' = escrito
    BY <1>3 DEF Abre
  <2> QED
    BY <2>1, <2>2, AbreKeeps
<1>4. ASSUME NEW nome \in Nomes_, AbreSubdir(nome)
      PROVE  VfInv'
  BY <1>4, AcomodaKeeps DEF AbreSubdir
<1>5. ASSUME NEW i \in Tabela, LeArquivo(i)
      PROVE  VfInv'
  BY <1>5, LeKeeps
<1>6. ASSUME NEW i \in Tabela, EscreveArquivo(i)
      PROVE  VfInv'
  <2>1. fd_table[i].offset + TamLeitura \in Nat
    BY VfsFilesAssumption DEF VfInv, FdInv, Descritores
  <2>2. /\ EhArquivo(i) /\ UNCHANGED no
        /\ fd_table' = [fd_table EXCEPT ![i].offset = fd_table[i].offset + TamLeitura]
        /\ escrito' = escrito \cup {No(i).nome}
    BY <1>6 DEF EscreveArquivo
  <2> QED
    BY <2>1, <2>2, OffsetKeeps
<1>7. ASSUME NEW i \in Tabela, Fecha(i)
      PROVE  VfInv'
  BY <1>7, FechaKeeps
<1>8. CASE UNCHANGED vfVars
  BY <1>8 DEF vfVars, VfInv, NoInv, FdInv, OpenNodesLive, OffsetInFile, EhArquivo, No
<1> QED
  BY <1>1, <1>2, <1>3, <1>4, <1>5, <1>6, <1>7, <1>8 DEF VfNext

(* Every open descriptor is good for a read or a write: its node has not been freed *)
(* by the close of another, and a file is not read past its size (vfs.c:192-286).  *)
THEOREM DescriptorsStaySound == VfSpec => []DescriptorsSound
<1>1. VfInv => DescriptorsSound
  BY DEF VfInv, FdInv, DescriptorsSound
<1> QED
  BY VfInvInit, VfInvStep, <1>1, PTL DEF VfSpec
-----------------------------------------------------------------------------
(* The mounted volume *)

(* The clusters that hold directories of device d, and a cluster an entry may lead to. *)
DirDe(d) == DOMAIN Imagens[d].dir

(* What the directory of device d holds at any cluster: a sequence of entries that  *)
(* lead to long enough chains, those of directories to directories.                *)
Sadia(d, s) ==
  /\ Len(s) \in Nat /\ DOMAIN s = 1..Len(s)
  /\ \A k \in DOMAIN s : /\ s[k].tipo = "dir" => s[k].cl \in DirDe(d) \cup {0}
                         /\ s[k].tam \in Nat /\ Comporta(d, s[k].cl, s[k].tam)

(* While no mount has failed or come in between: the mounted device is one device,  *)
(* and what a change of directory is about to store is a directory or the root.     *)
DirInv ==
  dirOk => /\ geometria \in Dispositivos /\ Coerente
           /\ current_dir_cluster \in DirDe(geometria)
           /\ pc = "cd" => entrada.cl \in DirDe(geometria) \cup {0}

LEMMA RaizIs ==
  ASSUME NEW d \in Dispositivos
  PROVE  Raiz(d) \in DirDe(d)
BY FatImageAssumption DEF Raiz, DirDe

LEMMA SlotsAre ==
  ASSUME NEW d \in Dispositivos, NEW x
  PROVE  Sadia(d, Slots(d, x))
<1>1. CASE x \in DirDe(d)
  BY <1>1, FatImageAssumption DEF Slots, DirDe, Sadia
<1>2. CASE x \notin DirDe(d)
  <2>1. Slots(d, x) = <<FimDir>>
    BY <1>2 DEF Slots, DirDe
  <2>2. FimDir.tipo = "fim" /\ FimDir.tam \in Nat /\ Comporta(d, FimDir.cl, FimDir.tam)
    BY DEF FimDir, Comporta
  <2>3. /\ Len(<<FimDir>>) = 1 /\ DOMAIN <<FimDir>> = 1..1
        /\ \A k \in 1..1 : <<FimDir>>[k] = FimDir
    OBVIOUS
  <2> QED
    BY <2>1, <2>2, <2>3 DEF Sadia
<1> QED
  BY <1>1, <1>2

LEMMA LeastSlot ==
  ASSUME NEW T, T \subseteq Nat, T # {}
  PROVE  \E a \in T : \A x \in T : a <= x
<1>1. PICK a \in T : \A y \in T : ~(<<y, a>> \in OpToRel(<, Nat))
  BY NatLessThanWellFounded, WFMin, Zenon
<1>2. \A y \in T : ~(y < a)
  BY <1>1, Zenon DEF OpToRel
<1> QED
  BY <1>2

(* What a search finds is a slot of the cluster. *)
LEMMA AchaIs ==
  ASSUME NEW s, Len(s) \in Nat, DOMAIN s = 1..Len(s), NEW nome, Acha(s, nome) # 0
  PROVE  Acha(s, nome) \in DOMAIN s
<1> DEFINE ks == {k \in DOMAIN s : s[k].tipo \in {"arq", "dir"} /\ s[k].nome = nome
                                   /\ \A j \in 1..(k - 1) : s[j].tipo # "fim"}
<1>1. CASE ks = {}
  BY <1>1 DEF Acha
<1>2. CASE ks # {}
  <2>1. ks \subseteq Nat
    OBVIOUS
  <2>2. \E k \in ks : \A j \in ks : k <= j
    BY <1>2, <2>1, LeastSlot
  <2>3. (CHOOSE k \in ks : \A j \in ks : k <= j) \in ks
    BY <2>2
  <2>4. Acha(s, nome) = CHOOSE k \in ks : \A j \in ks : k <= j
    BY <1>2 DEF Acha
  <2> QED
    BY <2>3, <2>4
<1> QED
  BY <1>1, <1>2

LEMMA DirInit == FtInit => DirInv
<1> SUFFICES ASSUME FtInit
             PROVE  DirInv
  OBVIOUS
<1>1. Raiz(0) \in DirDe(0) /\ Raiz(0) = Imagens[0].raiz
  BY RaizIs DEF Raiz, Dispositivos
<1> QED
  BY <1>1 DEF FtInit, DirInv, Coerente, Dispositivos

(* A step that leaves the mounted device and the directory, and does not come to   *)
(* the store, keeps the invariant.                                                *)
LEMMA DirStays ==
  ASSUME DirInv, UNCHANGED <<montado, dirOk>>, pc' # "cd" \/ UNCHANGED <<pc, entrada>>
  PROVE  DirInv'
BY DEF DirInv, montado, Coerente

LEMMA BuscaDir ==
  ASSUME DirInv, Busca
  PROVE  DirInv'
<1>1. PICK le \in BOOLEAN, leFat \in BOOLEAN :
       IF c < 2 /\ c # BAD THEN SemEntrada /\ Leu(TRUE)
       ELSE IF ~le THEN SemEntrada /\ Leu(FALSE)
       ELSE LET s == IF Coerente THEN Slots(geometria, c) ELSE <<FimDir>>
                k == Acha(s, op.nome)
            IN  IF k # 0 THEN ComEntrada(s[k]) /\ Leu(TRUE)
                ELSE IF Termina(s) \/ Eoc(Proximo(c, leFat)) THEN SemEntrada /\ Leu(leFat \/ Termina(s))
                ELSE c' = Proximo(c, leFat) /\ VaiPara("busca") /\ Fica /\ Leu(leFat)
  BY DEF Busca
<1>2. UNCHANGED <<montado, dirOk>>
  BY <1>1 DEF Leu
<1>3. CASE SemEntrada
  <2>1. pc' # "cd"
    BY <1>3 DEF SemEntrada, VaiPara, Acaba
  <2> QED
    BY <1>2, <2>1, DirStays
<1>4. CASE VaiPara("busca")
  <2>1. pc' # "cd"
    BY <1>4 DEF VaiPara
  <2> QED
    BY <1>2, <2>1, DirStays
<1>5. CASE ~dirOk
  BY <1>2, <1>5 DEF DirInv
<1>6. ASSUME dirOk, NEW k, k = Acha(Slots(geometria, c), op.nome), k # 0,
             ComEntrada(Slots(geometria, c)[k])
      PROVE  DirInv'
  <2>1. geometria \in Dispositivos /\ Coerente
    BY <1>6 DEF DirInv
  <2>2. PICK s : s = Slots(geometria, c)
    OBVIOUS
  <2>3. Sadia(geometria, s)
    BY <2>1, <2>2, SlotsAre
  <2>4. k \in DOMAIN s
    BY <1>6, <2>2, <2>3, AchaIs DEF Sadia
  <2>5. PICK e : e = s[k]
    OBVIOUS
  <2>6. e.tipo = "dir" => e.cl \in DirDe(geometria) \cup {0}
    BY <2>3, <2>4, <2>5 DEF Sadia
  <2>7. ComEntrada(e)
    BY <1>6, <2>2, <2>5
  <2>8. pc' = "cd" => entrada' = e /\ e.tipo = "dir"
    BY <2>7 DEF ComEntrada, VaiPara, Acaba
  <2> QED
    BY <1>2, <2>6, <2>8 DEF DirInv, montado, Coerente
<1> QED
  BY <1>1, <1>3, <1>4, <1>5, <1>6 DEF DirInv

LEMMA DirStep == DirInv /\ [FtNext]_ftVars => DirInv'
<1> SUFFICES ASSUME DirInv, [FtNext]_ftVars
             PROVE  DirInv'
  OBVIOUS
<1>1. ASSUME NEW faz, Comeca(faz)
      PROVE  DirInv'
  <2>1. UNCHANGED <<montado, dirOk>> /\ pc' # "cd"
    BY <1>1 DEF Comeca
  <2> QED
    BY <2>1, DirStays
<1>2. CASE Busca
  BY <1>2, BuscaDir
<1>3. CASE MudaDir
  <2>1. UNCHANGED <<fat32_current_dev_id, geometria, dirOk>> /\ pc' = "fim" /\ pc = "cd"
        /\ current_dir_cluster' = IF entrada.cl = 0 THEN Raiz(geometria) ELSE entrada.cl
    BY <1>3 DEF MudaDir, Acaba
  <2>2. dirOk => current_dir_cluster' \in DirDe(geometria)
    BY <2>1, RaizIs DEF DirInv
  <2> QED
    BY <2>1, <2>2 DEF DirInv, Coerente
<1>4. CASE Lista \/ Pula \/ Le \/ ApagaBusca \/ ApagaCadeia
  <2>1. UNCHANGED <<montado, dirOk>>
    BY <1>4 DEF Lista, Pula, Le, ApagaBusca, ApagaCadeia, Leu
  <2>2. pc' # "cd"
    BY <1>4 DEF Lista, Pula, Le, ApagaBusca, ApagaCadeia, Apagou, VaiPara, Acaba
  <2> QED
    BY <2>1, <2>2, DirStays
<1>5. CASE Aloca \/ PoeEntrada \/ AnexaBusca \/ AnexaUltimo \/ Anexa
  <2>1. UNCHANGED <<montado, dirOk>>
    BY <1>5 DEF Aloca, PoeEntrada, AnexaBusca, AnexaUltimo, Anexa, Leu
  <2>2. pc' # "cd"
    BY <1>5 DEF Aloca, PoeEntrada, AnexaBusca, AnexaUltimo, Anexa, VaiPara, Acaba
  <2> QED
    BY <2>1, <2>2, DirStays
<1>6. CASE MkdirAloca \/ MkdirVaga \/ CopiaBusca \/ CopiaLe
  <2>1. UNCHANGED <<montado, dirOk>>
    BY <1>6 DEF MkdirAloca, MkdirVaga, CopiaBusca, CopiaLe, Leu
  <2>2. pc' # "cd"
    BY <1>6 DEF MkdirAloca, MkdirVaga, CopiaBusca, CopiaLe, VaiPara, Acaba
  <2> QED
    BY <2>1, <2>2, DirStays
<1>7. ASSUME NEW d \in Dispositivos, Monta(d)
      PROVE  DirInv'
  <2>1. CASE geometria' = d /\ current_dir_cluster' = Raiz(d) /\ dirOk' = (dirOk /\ pc = "fim")
    <3>1. UNCHANGED pc /\ fat32_current_dev_id' = d
      BY <1>7 DEF Monta
    <3> QED
      BY <2>1, <3>1, RaizIs DEF DirInv, Coerente
  <2>2. CASE dirOk' = FALSE
    BY <2>2 DEF DirInv
  <2> QED
    BY <1>7, <2>1, <2>2 DEF Monta
<1>8. CASE UNCHANGED ftVars
  <2>1. UNCHANGED <<montado, dirOk>> /\ UNCHANGED <<pc, entrada>>
    BY <1>8 DEF ftVars, montado
  <2> QED
    BY <2>1, DirStays
<1> QED
  BY <1>1, <1>2, <1>3, <1>4, <1>5, <1>6, <1>7, <1>8 DEF FtNext, Passo

(* The current directory is a directory of the mounted device (Fat32). *)
THEOREM DirectoryIsMounted == FtSpec => []DirIsDirectory
<1>1. DirInv => DirIsDirectory
  BY DEF DirInv, DirIsDirectory, DirDe
<1> QED
  BY <1>1, DirInit, DirStep, PTL DEF FtSpec
-----------------------------------------------------------------------------
(* The files of the mounted volume *)

(* Whole clusters: quotients and remainders *)

LEMMA MultiploIs ==
  ASSUME NEW b \in Nat, b > 0, NEW q \in Nat, NEW w \in Nat, q < w
  PROVE  q * b \in Nat /\ w * b \in Nat /\ q * b + b <= w * b
OBVIOUS

LEMMA DivisaoTypes ==
  ASSUME NEW b \in Nat, b > 0, NEW a \in Nat
  PROVE  /\ a \div b \in Nat /\ a % b \in Nat /\ a % b < b
         /\ a = ((a \div b) * b) + (a % b)
OBVIOUS

LEMMA DivisaoIs ==
  ASSUME NEW b \in Nat, b > 0, NEW q \in Nat, NEW r \in Nat, r < b
  PROVE  /\ q * b + r \in Nat
         /\ (q * b + r) \div b = q
         /\ ((q * b) + r) % b = r
<1>1. PICK m \in Nat : m = q * b
  OBVIOUS
<1>2. PICK w \in Nat, z \in Nat : w = (m + r) \div b /\ z = (m + r) % b /\ z < b
                                /\ m + r = w * b + z
  BY <1>1, DivisaoTypes
<1>3. CASE q < w
  <2>1. PICK n \in Nat : n = w * b /\ m + b <= n
    BY <1>1, <1>3, MultiploIs
  <2> QED BY <1>2, <2>1
<1>4. CASE w < q
  <2>1. PICK n \in Nat : n = w * b /\ n + b <= m
    BY <1>1, <1>4, MultiploIs
  <2> QED BY <1>2, <2>1
<1>5. CASE w = q
  <2>1. m + r = m + z
    BY <1>1, <1>2, <1>5
  <2>2. r = z
    BY <2>1
  <2> QED BY <1>1, <1>2, <1>5, <2>2
<1> QED BY <1>3, <1>4, <1>5

(* f holds the first n links. *)
Trecho(d, x, f, n) == f = [k \in 0..n |-> IF k = 0 THEN x ELSE Elo(d, f[k - 1])]

LEMMA TrechoExiste ==
  ASSUME NEW d, NEW x, NEW n \in Nat
  PROVE  \E f : Trecho(d, x, f, n)
<1> DEFINE T == {k \in Nat : ~\E f : Trecho(d, x, f, k)}
<1> SUFFICES ASSUME T # {}
             PROVE  FALSE
  OBVIOUS
<1>1. PICK m \in T : \A y \in T : m <= y
  BY LeastSlot
<1>2. CASE m = 0
  <2> DEFINE f == [k \in 0..0 |-> x]
             g == [k \in 0..0 |-> IF k = 0 THEN x ELSE Elo(d, f[k - 1])]
  <2>1. f = g
    OBVIOUS
  <2>2. Trecho(d, x, f, 0)
    <3> HIDE DEF f
    <3> QED BY <2>1 DEF Trecho
  <2> QED BY <1>2, <2>2
<1>3. CASE m # 0
  <2>1. PICK n0 : n0 = m - 1 /\ n0 \in Nat /\ m = n0 + 1 /\ n0 \notin T
    BY <1>1, <1>3
  <2>2. PICK f : Trecho(d, x, f, n0)
    BY <2>1
  <2> DEFINE g == [k \in 0..m |-> IF k = 0 THEN x ELSE Elo(d, f[k - 1])]
             e == [k \in 0..m |-> IF k = 0 THEN x ELSE Elo(d, g[k - 1])]
  <2>3. \A k \in 0..n0 : f[k] = g[k]
    <3>0. \A k \in 0..n0 : k \in 0..m
      BY <2>1
    <3>2. \A k \in 0..m : g[k] = IF k = 0 THEN x ELSE Elo(d, f[k - 1])
      OBVIOUS
    <3>1. \A k \in 0..n0 : f[k] = IF k = 0 THEN x ELSE Elo(d, f[k - 1])
      BY <2>2 DEF Trecho
    <3> HIDE DEF g, e
    <3> QED BY <3>0, <3>1, <3>2
  <2>4. \A k \in 0..m : g[k] = e[k]
    <3> SUFFICES ASSUME NEW k \in 0..m
                 PROVE  g[k] = e[k]
      OBVIOUS
    <3>1. g[k] = IF k = 0 THEN x ELSE Elo(d, f[k - 1])
      OBVIOUS
    <3>2. e[k] = IF k = 0 THEN x ELSE Elo(d, g[k - 1])
      OBVIOUS
    <3>3. k # 0 => f[k - 1] = g[k - 1]
      <4>1. k # 0 => k - 1 \in 0..n0
        BY <2>1
      <4> HIDE DEF g, e
      <4> QED BY <4>1, <2>3
    <3> HIDE DEF g, e
    <3> QED BY <3>1, <3>2, <3>3
  <2>5. g = e
    <3>1. g = [k \in 0..m |-> g[k]] /\ e = [k \in 0..m |-> e[k]]
      OBVIOUS
    <3> HIDE DEF g, e
    <3> QED BY <2>4, <3>1
  <2>6. Trecho(d, x, g, m)
    <3> HIDE DEF g
    <3> QED BY <2>5 DEF Trecho
  <2> QED BY <2>6
<1> QED BY <1>2, <1>3

LEMMA TrechoUnico ==
  ASSUME NEW d, NEW x, NEW m \in Nat, NEW n \in Nat, NEW f, NEW g,
         Trecho(d, x, f, m), Trecho(d, x, g, n), NEW i \in Nat, i <= m, i <= n
  PROVE  f[i] = g[i]
<1> DEFINE T == {k \in Nat : k <= m /\ k <= n /\ f[k] # g[k]}
<1> SUFFICES ASSUME T # {}
             PROVE  FALSE
  OBVIOUS
<1>1. PICK k \in T : \A y \in T : k <= y
  BY LeastSlot
<1>2. /\ f[k] = IF k = 0 THEN x ELSE Elo(d, f[k - 1])
      /\ g[k] = IF k = 0 THEN x ELSE Elo(d, g[k - 1])
  BY <1>1 DEF Trecho
<1>3. k # 0 => f[k - 1] = g[k - 1]
  BY <1>1
<1> QED BY <1>1, <1>2, <1>3

(* The links of a chain, one after the other. *)
LEMMA ElosIs ==
  ASSUME NEW d, NEW x
  PROVE  /\ Elos(d, x)[0] = x
         /\ \A k \in Nat : Elos(d, x)[k + 1] = Elo(d, Elos(d, x)[k])
<1> DEFINE t(n) == CHOOSE f : Trecho(d, x, f, n)
           g == [k \in Nat |-> t(k)[k]]
           e == [k \in Nat |-> IF k = 0 THEN x ELSE Elo(d, g[k - 1])]
<1>1. \A n \in Nat : Trecho(d, x, t(n), n)
  BY TrechoExiste
<1> HIDE DEF t
<1>2. ASSUME NEW k \in Nat
      PROVE  g[k] = e[k]
  <2>1. t(k)[k] = IF k = 0 THEN x ELSE Elo(d, t(k)[k - 1])
    <3>1. Trecho(d, x, t(k), k)
      BY <1>1
    <3> QED BY <3>1 DEF Trecho
  <2>2. k # 0 => t(k)[k - 1] = t(k - 1)[k - 1]
    <3> SUFFICES ASSUME k # 0
                 PROVE  t(k)[k - 1] = t(k - 1)[k - 1]
      OBVIOUS
    <3>1. PICK j \in Nat : k = j + 1 /\ k - 1 = j
      OBVIOUS
    <3>2. Trecho(d, x, t(k), k) /\ Trecho(d, x, t(j), j)
      BY <1>1
    <3>3. j <= k /\ j <= j
      BY <3>1
    <3>4. t(k)[j] = t(j)[j]
      BY <3>2, <3>3, TrechoUnico
    <3> QED BY <3>1, <3>4
  <2>3. g[k] = t(k)[k] /\ e[k] = IF k = 0 THEN x ELSE Elo(d, g[k - 1])
    OBVIOUS
  <2>4. k # 0 => g[k - 1] = t(k - 1)[k - 1]
    OBVIOUS
  <2> HIDE DEF g, e
  <2> QED BY <2>1, <2>2, <2>3, <2>4
<1>3. g = e
  <2>1. g = [k \in Nat |-> g[k]] /\ e = [k \in Nat |-> e[k]]
    OBVIOUS
  <2> HIDE DEF g, e
  <2> QED BY <1>2, <2>1
<1>4. \E f : f = [k \in Nat |-> IF k = 0 THEN x ELSE Elo(d, f[k - 1])]
  <2> HIDE DEF g
  <2> QED BY <1>3
<1>5. PICK f : f = Elos(d, x)
  OBVIOUS
<1>6. f = [k \in Nat |-> IF k = 0 THEN x ELSE Elo(d, f[k - 1])]
  BY <1>4, <1>5 DEF Elos
<1>7. f[0] = x
  BY <1>6
<1>8. \A k \in Nat : f[k + 1] = Elo(d, f[k])
  <2>1. \A k \in Nat : k + 1 \in Nat /\ k + 1 # 0 /\ (k + 1) - 1 = k
    OBVIOUS
  <2>2. \A k \in Nat : f[k] = IF k = 0 THEN x ELSE Elo(d, f[k - 1])
    BY <1>6
  <2> QED BY <2>1, <2>2
<1> QED BY <1>5, <1>7, <1>8

(* The clusters before number i neither have the name nor end the directory. *)
Nada(d, x, nome, i) ==
  \A j \in 0..(i - 1) : /\ Acha(Slots(d, Elos(d, x)[j]), nome) = 0
                        /\ ~Termina(Slots(d, Elos(d, x)[j]))

(* The bytes of the chain of x from place p up to place q. *)
Bytes(d, x, p, q) == [k \in 1..(q - p) |-> Byte(d, x, p + (k - 1))]

LEMMA SemDirIs ==
  ASSUME NEW d, NEW x, x \notin DirDe(d), NEW nome
  PROVE  Acha(Slots(d, x), nome) = 0 /\ Termina(Slots(d, x))
<1>1. PICK s : s = Slots(d, x) /\ s = <<FimDir>>
  BY DEF Slots, DirDe
<1>2. DOMAIN s = {1} /\ s[1].tipo = "fim"
  <2>1. FimDir.tipo = "fim"
    BY DEF FimDir
  <2>2. DOMAIN s = {1} /\ s[1] = FimDir
    BY <1>1
  <2> QED
    BY <2>1, <2>2
<1>3. Termina(s)
  BY <1>2 DEF Termina
<1>4. {k \in DOMAIN s : s[k].tipo \in {"arq", "dir"} /\ s[k].nome = nome
                        /\ \A j \in 1..(k - 1) : s[j].tipo # "fim"} = {}
  BY <1>2
<1>5. Acha(s, nome) = 0
  BY <1>4 DEF Acha
<1> QED
  BY <1>1, <1>3, <1>5

(* The directory comes to an end: a search is at one of its clusters. *)
LEMMA NadaIs ==
  ASSUME NEW d \in Dispositivos, NEW x \in DirDe(d), NEW nome, NEW i \in Nat, Nada(d, x, nome, i)
  PROVE  i \in 0..Cardinality(DOMAIN Fat(d))
<1>1. Cardinality(DOMAIN Fat(d)) \in Nat
  BY FatImageAssumption, FS_CardinalityType
<1>2. PICK m \in 0..Cardinality(DOMAIN Fat(d)) : Elos(d, x)[m] \notin DirDe(d)
  BY FatImageAssumption DEF DirDe
<1>3. Termina(Slots(d, Elos(d, x)[m]))
  BY <1>2, SemDirIs
<1>4. ~(m \in 0..(i - 1))
  BY <1>3 DEF Nada
<1> QED
  BY <1>1, <1>2, <1>4

LEMMA AchouIs ==
  ASSUME NEW d \in Dispositivos, NEW x \in DirDe(d), NEW nome, NEW i \in Nat, Nada(d, x, nome, i),
         NEW s, s = Slots(d, Elos(d, x)[i]), Acha(s, nome) # 0
  PROVE  Entradas(d, x, nome) = {s[Acha(s, nome)]}
<1> DEFINE t(k) == Slots(d, Elos(d, x)[k])
           ks == {k \in 0..Cardinality(DOMAIN Fat(d)) :
                    Acha(t(k), nome) # 0 /\ \A j \in 0..(k - 1) : Acha(t(j), nome) = 0 /\ ~Termina(t(j))}
<1>1. i \in 0..Cardinality(DOMAIN Fat(d))
  BY NadaIs
<1>2. \A j \in 0..(i - 1) : Acha(t(j), nome) = 0 /\ ~Termina(t(j))
  BY DEF Nada
<1>3. Entradas(d, x, nome) = {t(k)[Acha(t(k), nome)] : k \in ks}
  BY DEF Entradas
<1>4. s = t(i)
  OBVIOUS
<1> HIDE DEF t
<1>5. i \in ks
  BY <1>1, <1>2, <1>4
<1>6. ASSUME NEW k \in ks
      PROVE  k = i
  <2>1. k \in Nat /\ Acha(t(k), nome) # 0 /\ \A j \in 0..(k - 1) : Acha(t(j), nome) = 0
    OBVIOUS
  <2>2. CASE k < i
    BY <1>2, <2>1, <2>2
  <2>3. CASE i < k
    BY <1>4, <2>1, <2>3
  <2> QED
    BY <2>1, <2>2, <2>3
<1>7. ks = {i}
  BY <1>5, <1>6
<1> HIDE DEF ks
<1> QED
  BY <1>3, <1>4, <1>7

LEMMA NaoAchouIs ==
  ASSUME NEW d \in Dispositivos, NEW x \in DirDe(d), NEW nome, NEW i \in Nat, Nada(d, x, nome, i),
         NEW s, s = Slots(d, Elos(d, x)[i]), Acha(s, nome) = 0, Termina(s)
  PROVE  Entradas(d, x, nome) = {}
<1> DEFINE t(k) == Slots(d, Elos(d, x)[k])
           ks == {k \in 0..Cardinality(DOMAIN Fat(d)) :
                    Acha(t(k), nome) # 0 /\ \A j \in 0..(k - 1) : Acha(t(j), nome) = 0 /\ ~Termina(t(j))}
<1>1. \A j \in 0..(i - 1) : Acha(t(j), nome) = 0
  BY DEF Nada
<1>2. Entradas(d, x, nome) = {t(k)[Acha(t(k), nome)] : k \in ks}
  BY DEF Entradas
<1>3. s = t(i)
  OBVIOUS
<1> HIDE DEF t
<1>4. ASSUME NEW k \in ks
      PROVE  FALSE
  <2>1. k \in Nat /\ Acha(t(k), nome) # 0 /\ \A j \in 0..(k - 1) : ~Termina(t(j))
    OBVIOUS
  <2>2. CASE k < i
    BY <1>1, <2>1, <2>2
  <2>3. CASE i < k
    BY <1>3, <2>1, <2>3
  <2>4. CASE k = i
    BY <1>3, <2>1, <2>4
  <2> QED
    BY <2>1, <2>2, <2>3, <2>4
<1>5. ks = {}
  BY <1>4
<1> HIDE DEF ks
<1> QED
  BY <1>2, <1>5

(* The next cluster of a search that has not come to the end. *)
LEMMA NadaSegue ==
  ASSUME NEW d, NEW x, NEW nome, NEW i \in Nat, Nada(d, x, nome, i),
         NEW s, s = Slots(d, Elos(d, x)[i]), Acha(s, nome) = 0, ~Termina(s)
  PROVE  Nada(d, x, nome, i + 1)
<1> SUFFICES ASSUME NEW j \in 0..((i + 1) - 1)
             PROVE  /\ Acha(Slots(d, Elos(d, x)[j]), nome) = 0
                    /\ ~Termina(Slots(d, Elos(d, x)[j]))
  BY DEF Nada
<1>1. j = i \/ j \in 0..(i - 1)
  OBVIOUS
<1> QED
  BY <1>1 DEF Nada

(* Within a cluster the place of a byte moves on, then to the next one's start. *)
LEMMA BlocoIs ==
  ASSUME NEW b \in Nat, b > 0, NEW a \in Nat, NEW n \in Nat, n <= b - (a % b)
  PROVE  /\ \A k \in Nat : k < n => (a + k) \div b = a \div b /\ (a + k) % b = (a % b) + k
         /\ n = b - (a % b) => (a + n) \div b = (a \div b) + 1 /\ (a + n) % b = 0
<1>1. PICK q \in Nat, r \in Nat : q = a \div b /\ r = a % b /\ r < b /\ a = (q * b) + r
  BY DivisaoTypes
<1>2. ASSUME NEW k \in Nat, k < n
      PROVE  (a + k) \div b = q /\ (a + k) % b = r + k
  <2>1. r + k \in Nat /\ r + k < b
    BY <1>1, <1>2
  <2>2. ((q * b) + (r + k)) \div b = q /\ ((q * b) + (r + k)) % b = r + k
    BY <2>1, DivisaoIs
  <2>3. a + k = (q * b) + (r + k)
    BY <1>1
  <2> QED
    BY <2>2, <2>3
<1>3. ASSUME n = b - r
      PROVE  (a + n) \div b = q + 1 /\ (a + n) % b = 0
  <2>1. (((q + 1) * b) + 0) \div b = q + 1 /\ (((q + 1) * b) + 0) % b = 0
    BY DivisaoIs
  <2>2. a + n = ((q + 1) * b) + 0
    BY <1>1, <1>3
  <2> QED
    BY <2>1, <2>2
<1> QED
  BY <1>1, <1>2, <1>3

(* Each cluster up to that of a place holds a place of its own. *)
LEMMA AntesIs ==
  ASSUME NEW b \in Nat, b > 0, NEW a \in Nat, NEW j \in Nat, j <= a \div b
  PROVE  \E p \in 0..a : p \div b = j
<1>1. PICK q \in Nat, r \in Nat : q = a \div b /\ r = a % b /\ a = (q * b) + r
  BY DivisaoTypes
<1>2. (j * b) + 0 \in Nat /\ ((j * b) + 0) \div b = j
  BY DivisaoIs
<1>3. j * b <= q * b
  BY <1>1, MultiploIs
<1>4. (j * b) + 0 \in 0..a
  BY <1>1, <1>2, <1>3
<1> QED
  BY <1>2, <1>4

LEMMA BytesTypes ==
  ASSUME NEW d, NEW x, NEW p \in Nat, NEW q \in Nat, p <= q
  PROVE  /\ Bytes(d, x, p, q) \in Seq({Byte(d, x, z) : z \in Nat})
         /\ Len(Bytes(d, x, p, q)) = q - p
<1>1. \A k \in 1..(q - p) : p + (k - 1) \in Nat
  OBVIOUS
<1>2. Bytes(d, x, p, q) \in [1..(q - p) -> {Byte(d, x, z) : z \in Nat}]
  BY <1>1 DEF Bytes
<1>3. q - p \in Nat
  OBVIOUS
<1> QED
  BY <1>2, <1>3

LEMMA BytesNada ==
  ASSUME NEW d, NEW x, NEW p \in Nat
  PROVE  <<>> = Bytes(d, x, p, p)
<1>1. 1..(p - p) = {}
  OBVIOUS
<1> QED
  BY <1>1 DEF Bytes

LEMMA BytesJunta ==
  ASSUME NEW d, NEW x, NEW p \in Nat, NEW q \in Nat, NEW w \in Nat, p <= q, q <= w
  PROVE  Bytes(d, x, p, q) \o Bytes(d, x, q, w) = Bytes(d, x, p, w)
<1>1. PICK s, t, u : s = Bytes(d, x, p, q) /\ t = Bytes(d, x, q, w) /\ u = Bytes(d, x, p, w)
  OBVIOUS
<1>2. PICK S : S = {Byte(d, x, z) : z \in Nat}
  OBVIOUS
<1>3. p <= w
  OBVIOUS
<1>4. /\ s \in Seq(S) /\ Len(s) = q - p
      /\ t \in Seq(S) /\ Len(t) = w - q
      /\ u \in Seq(S) /\ Len(u) = w - p
  BY <1>1, <1>2, <1>3, BytesTypes
<1>5. /\ s \o t \in Seq(S) /\ Len(s \o t) = w - p
      /\ \A k \in 1..(w - p) : (s \o t)[k] = IF k <= q - p THEN s[k] ELSE t[k - (q - p)]
  BY <1>4, ConcatProperties
<1>6. ASSUME NEW k \in 1..(w - p)
      PROVE  (s \o t)[k] = u[k]
  <2>1. u[k] = Byte(d, x, p + (k - 1))
    BY <1>1 DEF Bytes
  <2>2. CASE k <= q - p
    <3>1. k \in 1..(q - p)
      BY <2>2
    <3>2. s[k] = Byte(d, x, p + (k - 1))
      BY <1>1, <3>1 DEF Bytes
    <3> QED
      BY <1>5, <2>1, <2>2, <3>2
  <2>3. CASE ~(k <= q - p)
    <3>1. k - (q - p) \in 1..(w - q) /\ q + ((k - (q - p)) - 1) = p + (k - 1)
      BY <2>3
    <3>2. t[k - (q - p)] = Byte(d, x, q + ((k - (q - p)) - 1))
      BY <1>1, <3>1 DEF Bytes
    <3> QED
      BY <1>5, <2>1, <2>3, <3>1, <3>2
  <2> QED
    BY <2>2, <2>3
<1>7. s \o t = u
  BY <1>4, <1>5, <1>6, SeqEqual
<1> QED
  BY <1>1, <1>7

(* Where a read stands. *)
Lendo ==
  /\ pc = "busca" =>
       /\ lidos = <<>>
       /\ \E i \in Nat : /\ c = Elos(geometria, current_dir_cluster)[i]
                         /\ Nada(geometria, current_dir_cluster, op.nome, i)
  /\ pc \in {"pula", "le"} =>
       /\ Entradas(geometria, current_dir_cluster, op.nome) = {entrada}
       /\ entrada.tam \in Nat /\ op.pos < entrada.tam
       /\ Comporta(geometria, entrada.cl, entrada.tam)
  /\ pc = "pula" =>
       /\ lidos = <<>>
       /\ falta \in 0..(op.pos \div BytesPorCluster)
       /\ c = Elos(geometria, entrada.cl)[(op.pos \div BytesPorCluster) - falta]
       /\ interno = op.pos % BytesPorCluster
  /\ pc = "le" => \E a \in op.pos..(op.pos + Pedido) :
       /\ lidos = Bytes(geometria, entrada.cl, op.pos, a)
       /\ a < op.pos + Pedido => /\ c = Elos(geometria, entrada.cl)[a \div BytesPorCluster]
                                 /\ interno = a % BytesPorCluster
  /\ pc = "fim" =>
       LET es == Entradas(geometria, current_dir_cluster, op.nome)
       IN  /\ es = {} => res = "nao_achou"
           /\ \A e \in es : e.tam \in Nat
           /\ \A e \in es :
                IF op.pos >= e.tam THEN res = "erro"
                ELSE /\ res = "ok"
                     /\ lidos = Bytes(geometria, e.cl, op.pos, op.pos + Menor(op.tam, e.tam - op.pos))

LendoInv ==
  /\ falhou \in BOOLEAN /\ dirOk \in BOOLEAN /\ "faz" \in DOMAIN op
  /\ op.faz = "le" =>
       /\ pc \in {"busca", "pula", "le", "fim"}
       /\ op.tam \in Nat /\ op.tam > 0 /\ op.pos \in Nat
       /\ ~falhou /\ dirOk => Lendo

LEMMA LendoInit == FtInit => LendoInv
<1>1. Parado.faz = "nada" /\ "faz" \in DOMAIN Parado
  BY DEF Parado
<1> QED
  BY <1>1 DEF FtInit, LendoInv

LEMMA LeuIs ==
  ASSUME NEW le, Leu(le)
  PROVE  /\ falhou' \in BOOLEAN /\ UNCHANGED dirOk /\ UNCHANGED montado
         /\ ~falhou' => ~falhou /\ le
BY DEF Leu

(* A step of another operation. *)
LEMMA OutraStep ==
  ASSUME LendoInv, falhou' \in BOOLEAN, dirOk' \in BOOLEAN, "faz" \in DOMAIN op', op'.faz # "le"
  PROVE  LendoInv'
BY DEF LendoInv

(* Without an entry a read is over. *)
LEMMA LendoSem ==
  ASSUME LendoInv, op.faz = "le", SemEntrada, NEW le, Leu(le),
         ~falhou /\ dirOk /\ le => Entradas(geometria, current_dir_cluster, op.nome) = {}
  PROVE  LendoInv'
<1>1. pc' = "fim" /\ res' = "nao_achou" /\ UNCHANGED op
  BY DEF SemEntrada, Acaba, Fica, locais
<1>2. /\ falhou' \in BOOLEAN /\ UNCHANGED <<dirOk, geometria, current_dir_cluster>>
      /\ ~falhou' => ~falhou /\ le
  BY LeuIs DEF montado
<1>3. ~falhou' /\ dirOk' => Lendo'
  BY <1>1, <1>2 DEF Lendo
<1> QED
  BY <1>1, <1>2, <1>3 DEF LendoInv

LEMMA LendoBusca ==
  ASSUME DirInv, LendoInv, op.faz = "le", Busca
  PROVE  LendoInv'
<1>1. PICK le \in BOOLEAN, leFat \in BOOLEAN :
       IF c < 2 /\ c # BAD THEN SemEntrada /\ Leu(TRUE)
       ELSE IF ~le THEN SemEntrada /\ Leu(FALSE)
       ELSE LET s == IF Coerente THEN Slots(geometria, c) ELSE <<FimDir>>
                k == Acha(s, op.nome)
            IN  IF k # 0 THEN ComEntrada(s[k]) /\ Leu(TRUE)
                ELSE IF Termina(s) \/ Eoc(Proximo(c, leFat)) THEN SemEntrada /\ Leu(leFat \/ Termina(s))
                ELSE c' = Proximo(c, leFat) /\ VaiPara("busca") /\ Fica /\ Leu(leFat)
  BY DEF Busca
<1>2. PICK s : s = IF Coerente THEN Slots(geometria, c) ELSE <<FimDir>>
  OBVIOUS
<1>3. PICK k : k = Acha(s, op.nome)
  OBVIOUS
<1>4. pc = "busca" /\ op.tam \in Nat /\ op.tam > 0 /\ op.pos \in Nat
  BY DEF LendoInv, Busca
<1> DEFINE Bem == ~falhou /\ dirOk
           es == Entradas(geometria, current_dir_cluster, op.nome)
<1>5. ASSUME Bem
      PROVE  /\ geometria \in Dispositivos /\ Coerente /\ current_dir_cluster \in DirDe(geometria)
             /\ s = Slots(geometria, c) /\ lidos = <<>>
             /\ \E i \in Nat : /\ c = Elos(geometria, current_dir_cluster)[i]
                               /\ Nada(geometria, current_dir_cluster, op.nome, i)
  BY <1>2, <1>4, <1>5 DEF DirInv, LendoInv, Lendo
<1>6. ASSUME Bem, k = 0, Termina(s)
      PROVE  es = {}
  BY <1>3, <1>5, <1>6, NaoAchouIs
<1>7. ASSUME Bem, c \notin DirDe(geometria)
      PROVE  k = 0 /\ Termina(s)
  BY <1>3, <1>5, <1>7, SemDirIs
<1>8. CASE c < 2 /\ c # BAD
  <2>1. Bem => c \notin DirDe(geometria)
    BY <1>5, <1>8, FatImageAssumption DEF DirDe
  <2>2. SemEntrada /\ Leu(TRUE)
    BY <1>1, <1>8
  <2> QED
    BY <1>6, <1>7, <2>1, <2>2, LendoSem
<1>9. CASE ~(c < 2 /\ c # BAD) /\ ~le
  <2>1. SemEntrada /\ Leu(FALSE)
    BY <1>1, <1>9
  <2> QED
    BY <2>1, LendoSem
<1>10. CASE ~(c < 2 /\ c # BAD) /\ le /\ k # 0
  <2>1. PICK e : e = s[k]
    OBVIOUS
  <2>2. ComEntrada(e) /\ Leu(TRUE)
    BY <1>1, <1>2, <1>3, <1>10, <2>1
  <2>3. /\ entrada' = e /\ UNCHANGED <<op, lidos>>
        /\ op.pos >= e.tam => pc' = "fim" /\ res' = "erro"
        /\ ~(op.pos >= e.tam) => /\ pc' = "pula" /\ c' = e.cl
                                 /\ falta' = op.pos \div BytesPorCluster
                                 /\ interno' = op.pos % BytesPorCluster
    BY <2>2 DEF ComEntrada, VaiPara, Acaba
  <2>4. /\ falhou' \in BOOLEAN /\ UNCHANGED <<dirOk, geometria, current_dir_cluster>>
        /\ ~falhou' => ~falhou
    BY <2>2, LeuIs DEF montado
  <2>5. ASSUME Bem
        PROVE  /\ es = {e} /\ lidos = <<>>
               /\ e.tam \in Nat /\ Comporta(geometria, e.cl, e.tam)
    <3>1. es = {e}
      BY <1>3, <1>5, <1>10, <2>1, <2>5, AchouIs
    <3>2. Sadia(geometria, s)
      BY <1>5, <2>5, SlotsAre
    <3>3. k \in DOMAIN s
      BY <1>3, <1>10, <3>2, AchaIs DEF Sadia
    <3> QED
      BY <1>5, <2>1, <2>5, <3>1, <3>2, <3>3 DEF Sadia
  <2>6. ASSUME Bem
        PROVE  Lendo'
    <3>1. PICK q : q \in Nat /\ q = op.pos \div BytesPorCluster
      BY <1>4, DivisaoTypes, FatBytesAssumption
    <3>2. q - q = 0 /\ q \in 0..q
      BY <3>1
    <3>3. Elos(geometria, e.cl)[0] = e.cl
      BY ElosIs
    <3>4. CASE op.pos >= e.tam
      BY <2>3, <2>4, <2>5, <2>6, <3>4 DEF Lendo
    <3>5. CASE ~(op.pos >= e.tam)
      <4>1. op.pos < e.tam
        BY <1>4, <2>5, <2>6, <3>5
      <4> QED
        BY <2>3, <2>4, <2>5, <2>6, <3>1, <3>2, <3>3, <3>5, <4>1 DEF Lendo
    <3> QED
      BY <3>4, <3>5
  <2> QED
    BY <1>4, <2>3, <2>4, <2>6 DEF LendoInv
<1>11. CASE ~(c < 2 /\ c # BAD) /\ le /\ k = 0 /\ (Termina(s) \/ Eoc(Proximo(c, leFat)))
  <2>1. SemEntrada /\ Leu(leFat \/ Termina(s))
    BY <1>1, <1>2, <1>3, <1>11
  <2>2. ASSUME Bem, ~Termina(s), leFat
        PROVE  es = {}
    <3>1. PICK i \in Nat : /\ c = Elos(geometria, current_dir_cluster)[i]
                           /\ Nada(geometria, current_dir_cluster, op.nome, i)
      BY <1>5, <2>2
    <3>2. c \in DirDe(geometria) /\ c \in DOMAIN Fat(geometria)
      BY <1>5, <1>7, <2>2, FatImageAssumption DEF DirDe
    <3>3. Elos(geometria, current_dir_cluster)[i + 1] = EOF
      <4>1. Proximo(c, leFat) = Fat(geometria)[c] /\ Proximo(c, leFat) = EOF
        BY <1>5, <1>11, <2>2, <3>2 DEF Proximo, Eoc
      <4>2. Elos(geometria, current_dir_cluster)[i + 1] = Elo(geometria, c)
        BY <3>1, ElosIs
      <4> QED
        BY <3>2, <4>1, <4>2 DEF Elo
    <3>4. Nada(geometria, current_dir_cluster, op.nome, i + 1)
      BY <1>3, <1>5, <1>11, <2>2, <3>1, NadaSegue
    <3>5. EOF \notin DirDe(geometria)
      BY <1>5, <2>2, FatImageAssumption DEF DirDe, EOF
    <3> QED
      BY <1>5, <2>2, <3>3, <3>4, <3>5, SemDirIs, NaoAchouIs
  <2> QED
    BY <1>6, <1>11, <2>1, <2>2, LendoSem
<1>12. CASE ~(c < 2 /\ c # BAD) /\ le /\ k = 0 /\ ~(Termina(s) \/ Eoc(Proximo(c, leFat)))
  <2>1. c' = Proximo(c, leFat) /\ VaiPara("busca") /\ Fica /\ Leu(leFat)
    BY <1>1, <1>2, <1>3, <1>12
  <2>2. pc' = "busca" /\ UNCHANGED <<op, lidos>>
    BY <2>1 DEF VaiPara, Fica, locais
  <2>3. /\ falhou' \in BOOLEAN /\ UNCHANGED <<dirOk, geometria, current_dir_cluster>>
        /\ ~falhou' => ~falhou /\ leFat
    BY <2>1, LeuIs DEF montado
  <2>4. ASSUME Bem, leFat
        PROVE  Lendo'
    <3>1. PICK i \in Nat : /\ c = Elos(geometria, current_dir_cluster)[i]
                           /\ Nada(geometria, current_dir_cluster, op.nome, i)
      BY <1>5, <2>4
    <3>2. c \in DOMAIN Fat(geometria)
      BY <1>5, <1>7, <1>12, <2>4, FatImageAssumption DEF DirDe
    <3>3. c' = Elos(geometria, current_dir_cluster)[i + 1]
      <4>1. c' = Fat(geometria)[c]
        BY <1>5, <2>1, <2>4, <3>2 DEF Proximo
      <4>2. Elos(geometria, current_dir_cluster)[i + 1] = Elo(geometria, c)
        BY <3>1, ElosIs
      <4> QED
        BY <3>2, <4>1, <4>2 DEF Elo
    <3>4. Nada(geometria, current_dir_cluster, op.nome, i + 1)
      BY <1>3, <1>5, <1>12, <2>4, <3>1, NadaSegue
    <3>5. i + 1 \in Nat /\ lidos = <<>>
      BY <1>5, <2>4
    <3> QED
      BY <2>2, <2>3, <3>3, <3>4, <3>5 DEF Lendo
  <2> QED
    BY <1>4, <2>2, <2>3, <2>4 DEF LendoInv
<1> QED
  BY <1>8, <1>9, <1>10, <1>11, <1>12

(* A chain that holds place p goes on from its cluster. *)
LEMMA ComportaIs ==
  ASSUME NEW d \in Dispositivos, NEW x, NEW tam \in Nat, Comporta(d, x, tam), NEW p \in Nat, p < tam
  PROVE  LET y == Elos(d, x)[p \div BytesPorCluster]
         IN  /\ y \in DOMAIN Fat(d) /\ ~Eoc(y) /\ y \notin {0, 1}
             /\ Elos(d, x)[(p \div BytesPorCluster) + 1] = Fat(d)[y]
<1>1. p \in 0..(tam - 1)
  OBVIOUS
<1>2. PICK y : y = Elos(d, x)[p \div BytesPorCluster] /\ y \in DOMAIN Fat(d)
  BY <1>1 DEF Comporta
<1>3. y \in Nat \ {0, 1}
  BY <1>2, FatImageAssumption
<1>4. p \div BytesPorCluster \in Nat
  BY DivisaoTypes, FatBytesAssumption
<1>5. Elos(d, x)[(p \div BytesPorCluster) + 1] = Fat(d)[y]
  BY <1>2, <1>4, ElosIs DEF Elo
<1> QED
  BY <1>2, <1>3, <1>5 DEF Eoc, EOF

LEMMA PedidoIs ==
  ASSUME op.tam \in Nat, op.tam > 0, op.pos \in Nat, entrada.tam \in Nat, op.pos < entrada.tam
  PROVE  /\ Pedido \in Nat /\ Pedido > 0 /\ op.pos + Pedido <= entrada.tam
         /\ Pedido = Menor(op.tam, entrada.tam - op.pos)
BY DEF Pedido, Menor

LEMMA LendoPula ==
  ASSUME DirInv, LendoInv, op.faz = "le", Pula
  PROVE  LendoInv'
<1> DEFINE Bem == ~falhou /\ dirOk
           cad(k) == Elos(geometria, entrada.cl)[k]
<1>1. pc = "pula" /\ op.tam \in Nat /\ op.tam > 0 /\ op.pos \in Nat
  BY DEF LendoInv, Pula
<1>2. PICK q : q = op.pos \div BytesPorCluster /\ q \in Nat
  BY <1>1, DivisaoTypes, FatBytesAssumption
<1>3. ASSUME Bem
      PROVE  /\ geometria \in Dispositivos /\ Coerente
             /\ Entradas(geometria, current_dir_cluster, op.nome) = {entrada}
             /\ entrada.tam \in Nat /\ op.pos < entrada.tam
             /\ Comporta(geometria, entrada.cl, entrada.tam)
             /\ lidos = <<>> /\ falta \in 0..q /\ c = cad(q - falta)
             /\ interno = op.pos % BytesPorCluster
  BY <1>1, <1>2, <1>3 DEF DirInv, LendoInv, Lendo
<1> HIDE DEF cad
<1>6. BytesPorCluster \in Nat /\ BytesPorCluster > 0
  BY FatBytesAssumption
<1>4. CASE falta = 0
  <2>1. pc' = "le" /\ UNCHANGED <<c, op, entrada, interno, lidos>> /\ Leu(TRUE)
    BY <1>4 DEF Pula, VaiPara, Fica, locais
  <2>2. /\ falhou' \in BOOLEAN /\ UNCHANGED <<dirOk, geometria, current_dir_cluster>>
        /\ ~falhou' => ~falhou
    BY <2>1, LeuIs DEF montado
  <2>3. ASSUME Bem
        PROVE  Lendo'
    <3>1. Pedido' = Pedido /\ op.pos \in op.pos..(op.pos + Pedido)
      BY <1>1, <1>3, <2>1, <2>3, PedidoIs DEF Pedido
    <3>2. lidos' = Bytes(geometria, entrada.cl, op.pos, op.pos)
      BY <1>1, <1>3, <2>1, <2>3, BytesNada
    <3>3. q - falta = q
      BY <1>2, <1>4
    <3>4. c' = cad(op.pos \div BytesPorCluster) /\ interno' = op.pos % BytesPorCluster
      BY <1>2, <1>3, <2>1, <2>3, <3>3
    <3> QED
      BY <1>3, <2>1, <2>2, <2>3, <3>1, <3>2, <3>4 DEF Lendo, cad
  <2> QED
    BY <1>1, <2>1, <2>2, <2>3 DEF LendoInv
<1>5. CASE falta # 0
  <2>1. PICK le \in BOOLEAN :
          /\ c' = Proximo(c, le)
          /\ falta' = falta - 1
          /\ IF Eoc(c') THEN Acaba("erro") ELSE VaiPara("pula")
          /\ UNCHANGED <<op, entrada, interno, lidos>>
          /\ Leu(le)
    BY <1>5 DEF Pula
  <2>2. /\ falhou' \in BOOLEAN /\ UNCHANGED <<dirOk, geometria, current_dir_cluster>>
        /\ ~falhou' => ~falhou /\ le
    BY <2>1, LeuIs DEF montado
  <2>3. ASSUME Bem, le
        PROVE  Lendo'
    <3>1. PICK j \in Nat : j = q - falta /\ j + 1 = q - falta' /\ j + 1 <= q /\ falta' \in 0..q
      BY <1>2, <1>3, <1>5, <2>1, <2>3
    <3>2. PICK p \in 0..op.pos : p \div BytesPorCluster = j
      <4>1. j \in Nat /\ j <= op.pos \div BytesPorCluster
        BY <1>2, <3>1
      <4> QED
        BY <1>1, <1>6, <4>1, AntesIs
    <3>3. c \in DOMAIN Fat(geometria) /\ cad(j + 1) = Fat(geometria)[c]
      <4>1. p \in Nat /\ p < entrada.tam
        BY <1>1, <1>3, <2>3, <3>2
      <4> QED
        BY <1>3, <2>3, <3>1, <3>2, <4>1, ComportaIs DEF cad
    <3>4. c' = cad(j + 1)
      BY <1>3, <2>1, <2>3, <3>3 DEF Proximo
    <3>5. ~Eoc(cad(j + 1))
      <4>1. PICK z \in 0..op.pos : z \div BytesPorCluster = j + 1
        <5>1. j + 1 \in Nat /\ j + 1 <= op.pos \div BytesPorCluster
          BY <1>2, <3>1
        <5> QED
          BY <1>1, <1>6, <5>1, AntesIs
      <4>2. z \in Nat /\ z < entrada.tam
        BY <1>1, <1>3, <2>3, <4>1
      <4> QED
        BY <1>3, <2>3, <4>1, <4>2, ComportaIs DEF cad
    <3>6. pc' = "pula"
      BY <2>1, <3>4, <3>5 DEF VaiPara
    <3> QED
      BY <1>2, <1>3, <2>1, <2>2, <2>3, <3>1, <3>4, <3>6 DEF Lendo, cad
  <2>4. pc' \in {"fim", "pula"}
    BY <2>1 DEF VaiPara, Acaba
  <2> QED
    BY <1>1, <2>1, <2>2, <2>3, <2>4 DEF LendoInv
<1> QED
  BY <1>4, <1>5

LEMMA LendoLe ==
  ASSUME DirInv, LendoInv, op.faz = "le", Le
  PROVE  LendoInv'
<1> DEFINE Bem == ~falhou /\ dirOk
           cad(k) == Elos(geometria, entrada.cl)[k]
<1>1. pc = "le" /\ op.tam \in Nat /\ op.tam > 0 /\ op.pos \in Nat
  BY DEF LendoInv, Le
<1>2. PICK b : b = BytesPorCluster /\ b \in Nat /\ b > 0
  BY FatBytesAssumption
<1>6. PICK ate : ate = op.pos + Pedido
  OBVIOUS
<1>3. ASSUME Bem
      PROVE  /\ geometria \in Dispositivos /\ Coerente
             /\ Entradas(geometria, current_dir_cluster, op.nome) = {entrada}
             /\ entrada.tam \in Nat /\ op.pos < entrada.tam
             /\ Comporta(geometria, entrada.cl, entrada.tam)
             /\ Pedido \in Nat /\ ate \in Nat /\ ate <= entrada.tam
             /\ Pedido = Menor(op.tam, entrada.tam - op.pos)
             /\ \E a \in op.pos..ate :
                  /\ lidos = Bytes(geometria, entrada.cl, op.pos, a)
                  /\ a < ate => c = cad(a \div b) /\ interno = a % b
  <2>1. /\ geometria \in Dispositivos /\ Coerente
        /\ Entradas(geometria, current_dir_cluster, op.nome) = {entrada}
        /\ entrada.tam \in Nat /\ op.pos < entrada.tam
        /\ Comporta(geometria, entrada.cl, entrada.tam)
        /\ \E a \in op.pos..ate :
             /\ lidos = Bytes(geometria, entrada.cl, op.pos, a)
             /\ a < ate => c = cad(a \div b) /\ interno = a % b
    BY <1>1, <1>2, <1>3, <1>6 DEF DirInv, LendoInv, Lendo
  <2> QED
    BY <1>1, <1>6, <2>1, PedidoIs
<1>4. CASE Eoc(c) \/ c \in {0, 1} \/ Len(lidos) >= Pedido
  <2>1. pc' = "fim" /\ res' = "ok" /\ UNCHANGED <<c, op, entrada, interno, lidos>> /\ Leu(TRUE)
    BY <1>4 DEF Le, Acaba, Fica, locais
  <2>2. /\ falhou' \in BOOLEAN /\ UNCHANGED <<dirOk, geometria, current_dir_cluster>>
        /\ ~falhou' => ~falhou
    BY <2>1, LeuIs DEF montado
  <2>3. ASSUME Bem
        PROVE  Lendo'
    <3>1. PICK a \in op.pos..ate :
             /\ lidos = Bytes(geometria, entrada.cl, op.pos, a)
             /\ a < ate => c = cad(a \div b) /\ interno = a % b
      BY <1>3, <2>3
    <3>2. /\ a \in Nat /\ op.pos <= a /\ a <= ate /\ ate <= entrada.tam
          /\ Len(lidos) = a - op.pos
      <4>1. a \in Nat /\ op.pos <= a /\ a <= ate /\ ate <= entrada.tam
        BY <1>1, <1>3, <2>3
      <4>2. Len(Bytes(geometria, entrada.cl, op.pos, a)) = a - op.pos
        BY <1>1, <4>1, BytesTypes
      <4> QED
        BY <3>1, <4>1, <4>2
    <3>3. a = ate
      <4>1. CASE a < ate
        <5>1. a < entrada.tam
          BY <1>3, <2>3, <3>2, <4>1
        <5>2. ~Eoc(c) /\ c \notin {0, 1}
          BY <1>2, <1>3, <2>3, <3>1, <3>2, <4>1, <5>1, ComportaIs
        <5>3. Len(lidos) >= Pedido
          BY <1>4, <5>2
        <5> QED
          BY <1>1, <1>3, <1>6, <2>3, <3>2, <4>1, <5>3
      <4> QED
        BY <1>3, <2>3, <3>2, <4>1
    <3>4. lidos' = Bytes(geometria, entrada.cl, op.pos, op.pos + Menor(op.tam, entrada.tam - op.pos))
      BY <1>3, <1>6, <2>1, <2>3, <3>1, <3>3
    <3>5. ~(op.pos >= entrada.tam)
      BY <1>1, <1>3, <2>3
    <3> HIDE DEF cad
    <3> QED
      BY <1>3, <2>1, <2>2, <2>3, <3>4, <3>5 DEF Lendo
  <2> QED
    BY <1>1, <2>1, <2>2, <2>3 DEF LendoInv
<1>5. CASE ~(Eoc(c) \/ c \in {0, 1} \/ Len(lidos) >= Pedido)
  <2> DEFINE m == Menor(Pedido - Len(lidos), b - interno)
  <2>1. PICK le \in BOOLEAN, leFat \in BOOLEAN :
          /\ lidos' = lidos \o [k \in 1..m |->
               IF le /\ Coerente THEN <<fat32_current_dev_id, c, interno + k - 1>> ELSE <<BAD, BAD, BAD>>]
          /\ interno' = Desloca(m)
          /\ c' = Proximo(c, leFat)
          /\ VaiPara("le")
          /\ UNCHANGED <<op, entrada, falta>>
          /\ Leu(le /\ leFat)
    BY <1>2, <1>5 DEF Le
  <2>2. /\ falhou' \in BOOLEAN /\ UNCHANGED <<dirOk, geometria, current_dir_cluster>>
        /\ ~falhou' => ~falhou /\ le /\ leFat
    BY <2>1, LeuIs DEF montado
  <2>3. pc' = "le" /\ UNCHANGED <<op, entrada>> /\ Pedido' = Pedido
    BY <2>1 DEF VaiPara, Pedido
  <2>4. ASSUME Bem, le, leFat
        PROVE  Lendo'
    <3>1. PICK a \in op.pos..ate :
             /\ lidos = Bytes(geometria, entrada.cl, op.pos, a)
             /\ a < ate => c = cad(a \div b) /\ interno = a % b
      BY <1>3, <2>4
    <3>2. /\ a \in Nat /\ op.pos <= a /\ a < ate /\ a < entrada.tam
          /\ Len(lidos) = a - op.pos
      <4>1. a \in Nat /\ op.pos <= a /\ a <= ate /\ ate <= entrada.tam
        BY <1>1, <1>3, <2>4
      <4>2. Len(Bytes(geometria, entrada.cl, op.pos, a)) = a - op.pos
        BY <1>1, <4>1, BytesTypes
      <4>3. Len(lidos) = a - op.pos
        BY <3>1, <4>2
      <4> QED
        BY <1>1, <1>3, <1>5, <1>6, <2>4, <4>1, <4>3
    <3>4. /\ a \div b \in Nat /\ a % b \in Nat /\ a % b < b
          /\ c = cad(a \div b) /\ interno = a % b
      BY <1>2, <3>1, <3>2, DivisaoTypes
    <3>5. /\ m \in Nat /\ m <= b - (a % b) /\ a + m <= ate
          /\ a + m < ate => m = b - (a % b)
      <4>1. Pedido - Len(lidos) = ate - a
        BY <1>1, <1>3, <1>6, <2>4, <3>2
      <4> QED
        BY <1>2, <1>3, <2>4, <3>2, <3>4, <4>1 DEF Menor
    <3> HIDE DEF m
    <3>3. PICK w \in Nat : w = a + m /\ a <= w /\ w <= ate /\ w - a = m
      BY <1>3, <2>4, <3>2, <3>5
    <3>6. lidos' = Bytes(geometria, entrada.cl, op.pos, w)
      <4>1. ASSUME NEW k \in 1..m
            PROVE  <<fat32_current_dev_id, c, interno + k - 1>> = Byte(geometria, entrada.cl, a + (k - 1))
        <5>1. k - 1 \in Nat /\ k - 1 < m
          BY <3>5
        <5>2. (a + (k - 1)) \div b = a \div b /\ (a + (k - 1)) % b = (a % b) + (k - 1)
          BY <1>2, <3>2, <3>5, <5>1, BlocoIs
        <5>3. interno + k - 1 = (a % b) + (k - 1)
          BY <3>4, <3>5
        <5>4. fat32_current_dev_id = geometria
          BY <1>3, <2>4 DEF Coerente
        <5> HIDE DEF cad
        <5>5. <<fat32_current_dev_id, c, interno + k - 1>>
              = <<geometria, cad((a + (k - 1)) \div b), (a + (k - 1)) % b>>
          BY <3>4, <5>2, <5>3, <5>4
        <5> QED
          BY <1>2, <5>5 DEF Byte, cad
      <4>2. [k \in 1..m |-> IF le /\ Coerente THEN <<fat32_current_dev_id, c, interno + k - 1>>
                            ELSE <<BAD, BAD, BAD>>]
            = Bytes(geometria, entrada.cl, a, w)
        BY <1>3, <2>4, <3>3, <4>1 DEF Bytes
      <4>3. lidos' = Bytes(geometria, entrada.cl, op.pos, a) \o Bytes(geometria, entrada.cl, a, w)
        BY <2>1, <3>1, <4>2
      <4> QED
        <5>1. /\ op.pos \in Nat /\ a \in Nat /\ w \in Nat /\ op.pos <= a /\ a <= w
          BY <1>1, <3>2, <3>3
        <5>2. Bytes(geometria, entrada.cl, op.pos, a) \o Bytes(geometria, entrada.cl, a, w)
              = Bytes(geometria, entrada.cl, op.pos, w)
          BY <5>1, BytesJunta
        <5> QED
          BY <4>3, <5>2, Zenon
    <3>7. ASSUME w < ate
          PROVE  c' = cad(w \div b) /\ interno' = w % b
      <4>1. m = b - (a % b)
        BY <3>3, <3>5, <3>7
      <4>2. (a + m) \div b = (a \div b) + 1 /\ (a + m) % b = 0
        BY <1>2, <3>2, <3>5, <4>1, BlocoIs
      <4>3. c \in DOMAIN Fat(geometria) /\ cad((a \div b) + 1) = Fat(geometria)[c]
        BY <1>2, <1>3, <2>4, <3>2, <3>4, ComportaIs
      <4>4. c' = Fat(geometria)[c]
        BY <1>3, <2>1, <2>4, <4>3 DEF Proximo
      <4>5. interno' = 0
        BY <2>1 DEF Desloca
      <4> HIDE DEF cad
      <4> QED
        BY <3>3, <4>2, <4>3, <4>4, <4>5
    <3>8. w \in op.pos..(op.pos + Pedido)
      BY <1>1, <1>3, <1>6, <2>4, <3>2, <3>3
    <3> QED
      BY <1>2, <1>3, <1>6, <2>2, <2>3, <2>4, <3>6, <3>7, <3>8 DEF Lendo
  <2> HIDE DEF m
  <2> QED
    BY <1>1, <2>1, <2>2, <2>3, <2>4 DEF LendoInv
<1> QED
  BY <1>4, <1>5

LEMMA LendoComeca ==
  ASSUME DirInv, LendoInv, NEW faz, Comeca(faz)
  PROVE  LendoInv'
<1>1. PICK n \in Nomes, t \in Tamanhos, p \in Posicoes :
        op' = [faz |-> faz, nome |-> n, tam |-> t, pos |-> p]
  BY DEF Comeca
<1>2. /\ falhou' = FALSE /\ dirOk' \in BOOLEAN /\ UNCHANGED <<geometria, current_dir_cluster>>
      /\ c' = current_dir_cluster /\ lidos' = <<>>
      /\ faz = "le" => pc' = "busca"
  BY DEF Comeca, LendoInv, montado
<1>3. "faz" \in DOMAIN op' /\ op'.faz = faz /\ op'.tam \in Nat /\ op'.tam > 0 /\ op'.pos \in Nat
  BY <1>1, FatBytesAssumption
<1>4. ASSUME faz = "le"
      PROVE  Lendo'
  <2>1. c' = Elos(geometria, current_dir_cluster)[0]
    BY <1>2, ElosIs
  <2>2. Nada(geometria, current_dir_cluster, op'.nome, 0)
    BY DEF Nada
  <2> QED
    BY <1>2, <1>4, <2>1, <2>2 DEF Lendo
<1> QED
  BY <1>2, <1>3, <1>4 DEF LendoInv

LEMMA LendoStep == DirInv /\ LendoInv /\ [FtNext]_ftVars => LendoInv'
<1> SUFFICES ASSUME DirInv, LendoInv, [FtNext]_ftVars
             PROVE  LendoInv'
  OBVIOUS
<1>1. ASSUME NEW faz, Comeca(faz)
      PROVE  LendoInv'
  BY <1>1, LendoComeca
<1>2. CASE op.faz = "le" /\ (Busca \/ Pula \/ Le)
  BY <1>2, LendoBusca, LendoPula, LendoLe
<1>3. CASE op.faz # "le" /\ (Busca \/ Pula \/ Le)
  <2>1. UNCHANGED op /\ "faz" \in DOMAIN op
    BY <1>3 DEF LendoInv, Busca, Pula, Le, SemEntrada, ComEntrada, Fica, locais
  <2>2. falhou' \in BOOLEAN /\ dirOk' \in BOOLEAN
    BY <1>3 DEF Busca, Pula, Le, Leu, LendoInv
  <2> QED
    BY <1>3, <2>1, <2>2, OutraStep
<1>4. CASE Lista \/ MudaDir \/ ApagaBusca \/ ApagaCadeia
  <2>1. op.faz # "le" /\ UNCHANGED op /\ "faz" \in DOMAIN op
    BY <1>4 DEF LendoInv, Lista, MudaDir, ApagaBusca, ApagaCadeia, Fica, locais
  <2>2. falhou' \in BOOLEAN /\ dirOk' \in BOOLEAN
    BY <1>4 DEF LendoInv, Lista, MudaDir, ApagaBusca, ApagaCadeia, Leu
  <2> QED
    BY <2>1, <2>2, OutraStep
<1>5. CASE Aloca \/ PoeEntrada \/ AnexaBusca \/ AnexaUltimo \/ Anexa
  <2>1. op.faz # "le" /\ UNCHANGED op /\ "faz" \in DOMAIN op
    BY <1>5 DEF LendoInv, Aloca, PoeEntrada, AnexaBusca, AnexaUltimo, Anexa, Fica, locais
  <2>2. falhou' \in BOOLEAN /\ dirOk' \in BOOLEAN
    BY <1>5 DEF LendoInv, Aloca, PoeEntrada, AnexaBusca, AnexaUltimo, Anexa, Leu
  <2> QED
    BY <2>1, <2>2, OutraStep
<1>6. CASE MkdirAloca \/ MkdirVaga \/ CopiaBusca
  <2>1. op.faz # "le" /\ UNCHANGED op /\ "faz" \in DOMAIN op
    BY <1>6 DEF LendoInv, MkdirAloca, MkdirVaga, CopiaBusca, Fica, locais
  <2>2. falhou' \in BOOLEAN /\ dirOk' \in BOOLEAN
    BY <1>6 DEF LendoInv, MkdirAloca, MkdirVaga, CopiaBusca, Leu
  <2> QED
    BY <2>1, <2>2, OutraStep
<1>7. CASE CopiaLe
  <2>1. op.faz # "le" /\ (UNCHANGED op \/ op' = [op EXCEPT !.faz = "grava", !.tam = entrada.tam])
    BY <1>7 DEF LendoInv, CopiaLe
  <2>2. "faz" \in DOMAIN op' /\ op'.faz # "le"
    BY <2>1 DEF LendoInv
  <2>3. falhou' \in BOOLEAN /\ dirOk' \in BOOLEAN
    BY <1>7 DEF LendoInv, CopiaLe, Leu
  <2> QED
    BY <2>2, <2>3, OutraStep
<1>8. ASSUME NEW d \in Dispositivos, Monta(d)
      PROVE  LendoInv'
  <2>1. falhou' = TRUE /\ UNCHANGED <<pc, op>>
    BY <1>8 DEF Monta
  <2>2. dirOk' \in BOOLEAN
    BY <1>8 DEF Monta
  <2> QED
    BY <2>1, <2>2 DEF LendoInv
<1>9. CASE UNCHANGED ftVars
  BY <1>9 DEF ftVars, LendoInv, Lendo, Pedido
<1> QED
  BY <1>1, <1>2, <1>3, <1>4, <1>5, <1>6, <1>7, <1>8, <1>9 DEF FtNext, Passo

(* A read returns the bytes of the file (Fat32). *)
THEOREM ReadsReturnTheFile == FtSpec => []ReadsTheFile
<1>1. LendoInv => ReadsTheFile
  <2> SUFFICES ASSUME LendoInv, pc = "fim", op.faz = "le", ~falhou, dirOk
               PROVE  LET es == Entradas(geometria, current_dir_cluster, op.nome)
                      IN  /\ es = {} => res = "nao_achou"
                          /\ \A e \in es :
                               IF op.pos >= e.tam THEN res = "erro"
                               ELSE /\ res = "ok"
                                    /\ lidos = [k \in 1..Menor(op.tam, e.tam - op.pos) |->
                                                  Byte(geometria, e.cl, op.pos + (k - 1))]
    BY DEF ReadsTheFile
  <2>1. Lendo /\ op.pos \in Nat /\ op.tam \in Nat
    BY DEF LendoInv
  <2> DEFINE ate(e) == Menor(op.tam, e.tam - op.pos)
  <2>2. ASSUME NEW e \in Entradas(geometria, current_dir_cluster, op.nome)
        PROVE  Bytes(geometria, e.cl, op.pos, op.pos + ate(e))
               = [k \in 1..ate(e) |-> Byte(geometria, e.cl, op.pos + (k - 1))]
    <3>1. e.tam \in Nat
      BY <2>1 DEF Lendo
    <3>2. (op.pos + ate(e)) - op.pos = ate(e)
      BY <2>1, <3>1 DEF Menor
    <3> QED
      BY <3>2 DEF Bytes
  <2> QED
    BY <2>1, <2>2 DEF Lendo
<1> QED
  BY <1>1, DirInit, DirStep, LendoInit, LendoStep, PTL DEF FtSpec
=============================================================================
