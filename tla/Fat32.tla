------------------------------- MODULE Fat32 -------------------------------
(***************************************************************************)
(* fs/fat32*.c over storage_read_sectors and ahci_hal_ler: one caller runs *)
(* one operation at a time, a cluster per step, while a system call of     *)
(* another process may mount a device between two steps (only fat32_mount  *)
(* takes fat_lock).  Any read may fail; each function treats that its way. *)
(*                                                                         *)
(* A cluster is one sector.  A directory cluster is a sequence of slots, a *)
(* byte of a file is <<device, cluster, index>>.  No function writes: the  *)
(* stub ahci_hal_escrever and fat32_set_cluster_entry leave the disk as it *)
(* is, so the images are constants.                                        *)
(***************************************************************************)
EXTENDS Integers, Sequences, FiniteSets

CONSTANTS
  Imagens,     \* per device (0 SATA, 1 USB): [raiz, fat, dir], see FatImageAssumption
  BytesPorCluster,
  Nomes,       \* file names the callers use
  Tamanhos,    \* lengths of the reads, writes and appends they ask for
  Posicoes     \* offsets of the reads

MISTA == 2     \* disk_bpb of a mount that failed after reading it, the rest older
BAD == -1      \* FAT32_BAD_CLUSTER, less than FAT32_EOC in the code
EOF == -2      \* FAT32_EOF

Dispositivos == {0, 1}
Vaga    == [tipo |-> "vaga", nome |-> "", cl |-> 0, tam |-> 0]      \* 0xE5
FimDir  == [tipo |-> "fim", nome |-> "", cl |-> 0, tam |-> 0]       \* 0x00

Fat(d) == Imagens[d].fat

(* Elos(d, x)[k] is the cluster k links behind x, EOF from the end of the chain on. *)
Elo(d, x)  == IF x \in DOMAIN Fat(d) THEN Fat(d)[x] ELSE EOF
Elos(d, x) == LET f[k \in Nat] == IF k = 0 THEN x ELSE Elo(d, f[k - 1]) IN f

(* Cluster x begins a chain that is long enough for tam bytes. *)
Comporta(d, x, tam) ==
  \A p \in 0..(tam - 1) : Elos(d, x)[p \div BytesPorCluster] \in DOMAIN Fat(d)

ASSUME FatBytesAssumption ==
  BytesPorCluster \in Nat \ {0} /\ Tamanhos \subseteq Nat \ {0} /\ Posicoes \subseteq Nat

(* A sound volume: chains stay inside the FAT, directories lead to directories *)
(* and come to an end, a file's chain holds its bytes.                         *)
ASSUME FatImageAssumption ==
  \A d \in Dispositivos :
    /\ Imagens[d].raiz \in DOMAIN Imagens[d].dir
    /\ DOMAIN Fat(d) \subseteq Nat \ {0, 1} /\ IsFiniteSet(DOMAIN Fat(d))
    /\ \A c \in DOMAIN Fat(d) : Fat(d)[c] \in DOMAIN Fat(d) \cup {0, EOF}
    /\ DOMAIN Imagens[d].dir \subseteq DOMAIN Fat(d)
    /\ \A x \in DOMAIN Imagens[d].dir :
         LET s == Imagens[d].dir[x]
         IN  /\ s # <<>> /\ Len(s) \in Nat /\ DOMAIN s = 1..Len(s)
             /\ \A k \in DOMAIN s :
                  /\ s[k].tipo = "dir" => s[k].cl \in DOMAIN Imagens[d].dir \cup {0}
                  /\ s[k].tam \in Nat /\ Comporta(d, s[k].cl, s[k].tam)
             /\ \E k \in 0..Cardinality(DOMAIN Fat(d)) : Elos(d, x)[k] \notin DOMAIN Imagens[d].dir

VARIABLES
  fat32_current_dev_id,
  geometria,             \* the device disk_bpb, fat_start_sector, data_start_sector describe
  current_dir_cluster,
  pc,                    \* where the operation is
  op,                    \* the operation: [faz, nome, tam, pos]
  c,                     \* the cluster it is at
  entrada,               \* the directory entry it found
  falta,                 \* clusters to skip, bytes to write
  interno,               \* internal_offset
  lidos,                 \* what has been copied to the caller's buffer
  res,                   \* what the operation returned
  falhou,                \* a read of the operation failed, or a mount came between
  dirOk                  \* no mount has failed or interrupted an operation

ftVars == <<fat32_current_dev_id, geometria, current_dir_cluster, pc, op, c, entrada,
            falta, interno, lidos, res, falhou, dirOk>>
montado == <<fat32_current_dev_id, geometria, current_dir_cluster>>
locais  == <<op, entrada, falta, interno, lidos>>

Parado == [faz |-> "nada", nome |-> "", tam |-> 0, pos |-> 0]

FtInit ==
  /\ fat32_current_dev_id = 0
  /\ geometria = 0
  /\ current_dir_cluster = Imagens[0].raiz
  /\ pc = "fim" /\ op = Parado
  /\ c = 0 /\ entrada = FimDir /\ falta = 0 /\ interno = 0 /\ lidos = <<>>
  /\ res = "nada"
  /\ falhou = FALSE /\ dirOk = TRUE

-----------------------------------------------------------------------------
(* What the disk holds.  A sector found with the geometry of one device and  *)
(* read from another counts as an empty one.                                 *)

Eoc(x)    == x = EOF
Coerente  == geometria = fat32_current_dev_id

Slots(d, x) == IF x \in DOMAIN Imagens[d].dir THEN Imagens[d].dir[x] ELSE <<FimDir>>

(* disk_bpb.root_cluster *)
Raiz(g) == IF g \in Dispositivos THEN Imagens[g].raiz ELSE 0

(* fat32_cluster_to_lba sends clusters 0 and 1 to the root directory. *)
Setor(x) == IF x \in {0, 1} THEN Raiz(geometria) ELSE x

(* Mutant of Proximo: the end mark is not recognised and leads to the root. *)
ProximoRecomeca(x, le) ==
  IF ~le THEN BAD
  ELSE IF ~Coerente \/ x \notin DOMAIN Fat(geometria) THEN 0
  ELSE IF Eoc(Fat(geometria)[x]) THEN Raiz(geometria) ELSE Fat(geometria)[x]

(* fat32_get_next_cluster; le: the FAT sector could be read. *)
Proximo(x, le) ==
  IF ~le THEN BAD
  ELSE IF Coerente /\ x \in DOMAIN Fat(geometria) THEN Fat(geometria)[x] ELSE 0

(* The slots a directory search sees in cluster x: those of the disk or, when *)
(* the result of the read is ignored, what the buffer held before.            *)
Vistos(d, x, le) ==
  IF le THEN {IF Coerente THEN Slots(d, Setor(x)) ELSE <<FimDir>>}
  ELSE {<<Vaga>>, IF d \in Dispositivos THEN Slots(d, Raiz(d)) ELSE <<FimDir>>}

(* The first slot of s whose entry is live and has this name, 0 if none. *)
Acha(s, nome) ==
  LET ks == {k \in DOMAIN s : s[k].tipo \in {"arq", "dir"} /\ s[k].nome = nome
                              /\ \A j \in 1..(k - 1) : s[j].tipo # "fim"}
  IN  IF ks = {} THEN 0 ELSE CHOOSE k \in ks : \A j \in ks : k <= j

Termina(s) == \E k \in DOMAIN s : s[k].tipo = "fim"

(* fat32_find_free_cluster: 0 when the FAT is full or cannot be read. *)
ClusterLivre(le) ==
  LET livres == {x \in DOMAIN Fat(geometria) : Fat(geometria)[x] = 0}
  IN  IF ~le \/ ~Coerente \/ livres = {} THEN 0
      ELSE CHOOSE x \in livres : \A y \in livres : x <= y

Menor(a, b) == IF a <= b THEN a ELSE b

-----------------------------------------------------------------------------
(* The steps share these conjuncts. *)

VaiPara(x) == pc' = x /\ UNCHANGED res
Acaba(r) == pc' = "fim" /\ res' = r
Leu(le) == falhou' = (falhou \/ ~le) /\ UNCHANGED <<montado, dirOk>>
Fica == UNCHANGED locais

Comeca(faz) ==
  /\ pc = "fim"
  /\ \E n \in Nomes, t \in Tamanhos, p \in Posicoes :
       op' = [faz |-> faz, nome |-> n, tam |-> t, pos |-> p]
  /\ c' = current_dir_cluster
  /\ falta' = 0 /\ interno' = 0 /\ lidos' = <<>>
  /\ entrada' = FimDir
  /\ falhou' = FALSE
  /\ pc' = (CASE faz = "apaga" -> "apaga_busca"
              [] faz = "anexa" -> "anexa_busca"
              [] faz = "copia" -> "copia_busca"
              [] faz = "ls"    -> "lista"
              [] OTHER         -> "busca")
  /\ res' = "correndo"
  /\ UNCHANGED <<montado, dirOk>>

(* Where the caller of fat32_find_entry goes on without an entry ... *)
SemEntrada ==
  CASE op.faz = "grava" -> VaiPara("aloca") /\ falta' = op.tam /\ UNCHANGED <<c, op, entrada, interno, lidos>>
    [] op.faz = "mkdir" -> VaiPara("mkdir_aloca") /\ UNCHANGED c /\ Fica
    [] OTHER            -> Acaba("nao_achou") /\ UNCHANGED c /\ Fica

(* ... and with entry e. *)
ComEntrada(e) ==
  /\ entrada' = e
  /\ CASE op.faz = "grava" -> /\ VaiPara("apaga_busca")
                              /\ c' = current_dir_cluster
                              /\ UNCHANGED <<falta, interno, lidos>>
       [] op.faz = "mkdir" -> Acaba("existe") /\ UNCHANGED <<c, falta, interno, lidos>>
       [] op.faz = "cd"    -> UNCHANGED <<c, falta, interno, lidos>>
                              /\ IF e.tipo = "dir" THEN VaiPara("cd") ELSE Acaba("erro")
       [] OTHER            ->
            IF op.pos >= e.tam THEN Acaba("erro") /\ UNCHANGED <<c, falta, interno, lidos>>
            ELSE /\ VaiPara("pula")
                 /\ c' = e.cl
                 /\ falta' = op.pos \div BytesPorCluster
                 /\ interno' = op.pos % BytesPorCluster
                 /\ UNCHANGED lidos
  /\ UNCHANGED op

(* One turn of fat32_find_entry's loop: a directory cluster, then the FAT. *)
Busca ==
  /\ pc = "busca"
  /\ \E le \in BOOLEAN, leFat \in BOOLEAN :
       IF c < 2 /\ c # BAD THEN SemEntrada /\ Leu(TRUE)
       ELSE IF ~le THEN SemEntrada /\ Leu(FALSE)
       ELSE LET s == IF Coerente THEN Slots(geometria, c) ELSE <<FimDir>>
                k == Acha(s, op.nome)
            IN  IF k # 0 THEN ComEntrada(s[k]) /\ Leu(TRUE)
                ELSE IF Termina(s) \/ Eoc(Proximo(c, leFat)) THEN SemEntrada /\ Leu(leFat \/ Termina(s))
                ELSE c' = Proximo(c, leFat) /\ VaiPara("busca") /\ Fica /\ Leu(leFat)

(* fat32_list_directory: a cluster that cannot be read is passed over.  What is *)
(* drawn, and the end of the screen, are left out.                              *)
Lista ==
  /\ pc = "lista"
  /\ \E le \in BOOLEAN, leFat \in BOOLEAN :
       IF (c < 2 /\ c # BAD) \/ (le /\ Termina(IF Coerente THEN Slots(geometria, c) ELSE <<FimDir>>))
       THEN Acaba("ok") /\ UNCHANGED c /\ Leu(TRUE)
       ELSE /\ c' = Proximo(c, leFat)
            /\ IF Eoc(c') THEN Acaba("ok") ELSE VaiPara("lista")
            /\ Leu(le /\ leFat)
  /\ Fica

(* Mutant of MudaDir: ".." of a first-level directory is not told from a cluster. *)
MudaDirZero ==
  /\ pc = "cd"
  /\ current_dir_cluster' = entrada.cl
  /\ Acaba("ok")
  /\ UNCHANGED <<fat32_current_dev_id, geometria, op, c, entrada, falta, interno, lidos, falhou, dirOk>>

(* fat32_change_directory stores what it found; cluster 0 is the root. *)
MudaDir ==
  /\ pc = "cd"
  /\ current_dir_cluster' = IF entrada.cl = 0 THEN Raiz(geometria) ELSE entrada.cl
  /\ Acaba("ok")
  /\ UNCHANGED <<fat32_current_dev_id, geometria, op, c, entrada, falta, interno, lidos, falhou, dirOk>>

-----------------------------------------------------------------------------
(* fat32_read_file_at_offset *)

(* Skip the clusters before the offset. *)
Pula ==
  /\ pc = "pula"
  /\ IF falta = 0
     THEN VaiPara("le") /\ UNCHANGED c /\ Fica /\ Leu(TRUE)
     ELSE \E le \in BOOLEAN :
            /\ c' = Proximo(c, le)
            /\ falta' = falta - 1
            /\ IF Eoc(c') THEN Acaba("erro") ELSE VaiPara("pula")
            /\ UNCHANGED <<op, entrada, interno, lidos>>
            /\ Leu(le)

(* Mutant of Desloca: the offset inside the first cluster is kept for the others. *)
DeslocaSempre(k) == interno

(* internal_offset after the first cluster. *)
Desloca(k) == 0

Pedido == Menor(op.tam, entrada.tam - op.pos)

(* One cluster: the result of the data read is ignored. *)
Le ==
  /\ pc = "le"
  /\ IF Eoc(c) \/ c \in {0, 1} \/ Len(lidos) >= Pedido
     THEN Acaba("ok") /\ UNCHANGED c /\ Fica /\ Leu(TRUE)
     ELSE \E le \in BOOLEAN, leFat \in BOOLEAN :
            LET n == Menor(Pedido - Len(lidos), BytesPorCluster - interno)
                certo == le /\ Coerente
            IN  /\ lidos' = lidos \o [k \in 1..n |->
                     IF certo THEN <<fat32_current_dev_id, c, interno + k - 1>> ELSE <<BAD, BAD, BAD>>]
                /\ interno' = Desloca(n)
                /\ c' = Proximo(c, leFat)
                /\ VaiPara("le")
                /\ UNCHANGED <<op, entrada, falta>>
                /\ Leu(le /\ leFat)

-----------------------------------------------------------------------------
(* fat32_delete_file, alone or called by fat32_write_file *)

(* The end of the delete: fat32_write_file goes on whatever it answered. *)
Apagou(r) ==
  IF op.faz = "apaga" THEN Acaba(r) /\ UNCHANGED falta
  ELSE VaiPara("aloca") /\ falta' = op.tam

(* The directory search ignores failed reads and has no lower bound. *)
ApagaBusca ==
  /\ pc = "apaga_busca"
  /\ \E le \in BOOLEAN, leFat \in BOOLEAN : \E s \in Vistos(geometria, c, le) :
       LET k == Acha(s, op.nome)
       IN  IF k # 0
           THEN VaiPara("apaga_cadeia") /\ c' = s[k].cl /\ UNCHANGED falta /\ Leu(le)
           ELSE IF Termina(s) \/ Eoc(Proximo(c, leFat))
           THEN Apagou("nao_achou") /\ UNCHANGED c /\ Leu(le)
           ELSE VaiPara("apaga_busca") /\ c' = Proximo(c, leFat) /\ UNCHANGED falta /\ Leu(le /\ leFat)
  /\ UNCHANGED <<op, entrada, interno, lidos>>

(* Walk the chain, "freeing" each cluster. *)
ApagaCadeia ==
  /\ pc = "apaga_cadeia"
  /\ IF c \in {0, 1} \/ Eoc(c)
     THEN Apagou("ok") /\ UNCHANGED c /\ Leu(TRUE)
     ELSE \E le \in BOOLEAN : c' = Proximo(c, le) /\ VaiPara("apaga_cadeia") /\ UNCHANGED falta /\ Leu(le)
  /\ UNCHANGED <<op, entrada, interno, lidos>>

-----------------------------------------------------------------------------
(* fat32_write_file *)

(* One cluster of data; find_free_cluster finds the same one every time. *)
Aloca ==
  /\ pc = "aloca"
  /\ IF falta = 0
     THEN VaiPara("entrada") /\ c' = current_dir_cluster /\ UNCHANGED falta /\ Leu(TRUE)
     ELSE \E le \in BOOLEAN :
            /\ IF ClusterLivre(le) = 0 THEN Acaba("cheio") /\ UNCHANGED falta
               ELSE VaiPara("aloca") /\ falta' = falta - Menor(falta, BytesPorCluster)
            /\ UNCHANGED c
            /\ Leu(le)
  /\ UNCHANGED <<op, entrada, interno, lidos>>

TemVaga(s) == \E k \in DOMAIN s : s[k].tipo \in {"vaga", "fim"}

(* Look for a free slot of the directory; nothing is stored in it. *)
PoeEntrada ==
  /\ pc = "entrada"
  /\ \E le \in BOOLEAN, leFat \in BOOLEAN : \E s \in Vistos(geometria, c, le) :
       IF TemVaga(s) THEN Acaba("ok") /\ UNCHANGED c /\ Leu(le)
       ELSE /\ c' = Proximo(c, leFat)
            /\ IF Eoc(c') THEN Acaba("cheio") ELSE VaiPara("entrada")
            /\ Leu(le /\ leFat)
  /\ Fica

-----------------------------------------------------------------------------
(* fat32_append_file *)

(* This search does not stop at the end marker: a later cluster's slots count. *)
AnexaBusca ==
  /\ pc = "anexa_busca"
  /\ \E le \in BOOLEAN, leFat \in BOOLEAN : \E s \in Vistos(geometria, c, le) :
       LET k == Acha(s, op.nome)
       IN  IF k # 0
           THEN /\ entrada' = s[k] /\ c' = s[k].cl
                /\ VaiPara("anexa_ultimo") /\ Leu(le)
           ELSE /\ c' = Proximo(c, leFat)
                /\ IF Eoc(c') THEN Acaba("nao_achou") ELSE VaiPara("anexa_busca")
                /\ Leu(le /\ leFat) /\ UNCHANGED entrada
  /\ UNCHANGED <<op, falta, interno, lidos>>

(* To the last cluster: each turn reads the FAT twice.  A failed read gives *)
(* BAD, which is not the end of a chain: the walk goes on from there.       *)
AnexaUltimo ==
  /\ pc = "anexa_ultimo"
  /\ \E le \in BOOLEAN, le2 \in BOOLEAN :
       /\ IF Eoc(Proximo(c, le))
          THEN /\ LET resta == BytesPorCluster - (entrada.tam % BytesPorCluster)
                      cabe  == IF entrada.tam % BytesPorCluster # 0 \/ entrada.tam = 0
                               THEN Menor(op.tam, resta) ELSE 0
                  IN  falta' = op.tam - cabe
               /\ VaiPara("anexa") /\ UNCHANGED c
               /\ Leu(le)
          ELSE c' = Proximo(c, le2) /\ VaiPara("anexa_ultimo") /\ UNCHANGED falta /\ Leu(le /\ le2)
  /\ UNCHANGED <<op, entrada, interno, lidos>>

(* New clusters for the rest, then the entry's size. *)
Anexa ==
  /\ pc = "anexa"
  /\ \E le \in BOOLEAN :
       IF falta = 0 THEN Acaba("ok") /\ UNCHANGED falta /\ Leu(le)
       ELSE /\ IF ClusterLivre(le) = 0 THEN Acaba("cheio") /\ UNCHANGED falta
               ELSE VaiPara("anexa") /\ falta' = falta - Menor(falta, BytesPorCluster)
            /\ Leu(le)
  /\ UNCHANGED <<c, op, entrada, interno, lidos>>

-----------------------------------------------------------------------------
(* fat32_create_directory; the slot is looked for with ahci_hal_ler, on the *)
(* SATA disk whatever device is mounted.                                    *)

(* A directory sector of the SATA disk at the place another geometry gives. *)
Sata(x) == IF geometria = 0 THEN Slots(0, Setor(x)) ELSE <<FimDir>>

MkdirAloca ==
  /\ pc = "mkdir_aloca"
  /\ \E le \in BOOLEAN :
       /\ IF ClusterLivre(le) = 0 THEN Acaba("erro") /\ UNCHANGED c
          ELSE VaiPara("mkdir_vaga") /\ c' = current_dir_cluster
       /\ Leu(le)
  /\ Fica

MkdirVaga ==
  /\ pc = "mkdir_vaga"
  /\ \E le \in BOOLEAN, leFat \in BOOLEAN :
     \E s \in IF le THEN {Sata(c)} ELSE {<<>>, <<Vaga>>} :
       IF TemVaga(s) THEN Acaba("ok") /\ UNCHANGED c /\ Leu(le)
       ELSE /\ c' = Proximo(c, leFat)
            /\ IF Eoc(c') THEN Acaba("ok") ELSE VaiPara("mkdir_vaga")
            /\ Leu(le /\ leFat)
  /\ Fica

-----------------------------------------------------------------------------
(* fat32_copy_file: reads the SATA disk, then calls fat32_write_file *)

CopiaBusca ==
  /\ pc = "copia_busca"
  /\ \E le \in BOOLEAN, leFat \in BOOLEAN :
       IF (c < 2 /\ c # BAD) \/ ~le
       THEN Acaba("nao_achou") /\ UNCHANGED <<c, entrada>> /\ Leu(le)
       ELSE LET k == Acha(Sata(c), op.nome)
            IN  IF k # 0
                THEN /\ entrada' = Sata(c)[k] /\ c' = Sata(c)[k].cl
                     /\ VaiPara("copia_le") /\ Leu(TRUE)
                ELSE IF Termina(Sata(c)) \/ Eoc(Proximo(c, leFat))
                THEN Acaba("nao_achou") /\ UNCHANGED <<c, entrada>> /\ Leu(leFat)
                ELSE c' = Proximo(c, leFat) /\ VaiPara("copia_busca") /\ UNCHANGED entrada /\ Leu(leFat)
  /\ UNCHANGED <<op, falta, interno, lidos>>

CopiaLe ==
  /\ pc = "copia_le"
  /\ IF c \in {0, 1} \/ Eoc(c) \/ interno >= entrada.tam
     THEN /\ op' = [op EXCEPT !.faz = "grava", !.tam = entrada.tam]
          /\ c' = current_dir_cluster
          /\ VaiPara("busca") /\ UNCHANGED interno /\ Leu(TRUE)
     ELSE \E le \in BOOLEAN, leFat \in BOOLEAN :
            /\ IF le THEN /\ interno' = Menor(entrada.tam, interno + BytesPorCluster)
                          /\ c' = Proximo(c, leFat)
                          /\ VaiPara("copia_le") /\ Leu(leFat)
               ELSE Acaba("erro") /\ UNCHANGED <<c, interno>> /\ Leu(FALSE)
            /\ UNCHANGED op
  /\ UNCHANGED <<entrada, falta, lidos>>

-----------------------------------------------------------------------------
(* fat32_mount *)

(* Another process's system call: the device changes first, disk_bpb before *)
(* the boot sector's signature is looked at, the rest only if it is there.   *)
Monta(d) ==
  /\ fat32_current_dev_id' = d
  /\ \/ geometria' = d /\ current_dir_cluster' = Raiz(d)
        /\ dirOk' = (dirOk /\ pc = "fim")
     \/ geometria' \in {geometria, MISTA} /\ UNCHANGED current_dir_cluster /\ dirOk' = FALSE
  /\ falhou' = TRUE
  /\ UNCHANGED <<pc, op, c, entrada, falta, interno, lidos, res>>

Passo ==
  \/ Busca \/ Lista \/ MudaDir \/ Pula \/ Le
  \/ ApagaBusca \/ ApagaCadeia \/ Aloca \/ PoeEntrada
  \/ AnexaBusca \/ AnexaUltimo \/ Anexa
  \/ MkdirAloca \/ MkdirVaga
  \/ CopiaBusca \/ CopiaLe

FtNext ==
  \/ \E faz \in {"le", "grava", "apaga", "anexa", "mkdir", "cd", "copia", "ls"} : Comeca(faz)
  \/ Passo
  \/ \E d \in Dispositivos : Monta(d)

FtSpec == FtInit /\ [][FtNext]_ftVars

-----------------------------------------------------------------------------
(* Reference definitions: the entries a name has in the directory that starts *)
(* at x, up to the first cluster that holds one or the end mark, and the byte  *)
(* at place p of a chain.                                                      *)
Entradas(d, x, nome) ==
  LET s(k) == Slots(d, Elos(d, x)[k])
  IN  {s(k)[Acha(s(k), nome)] : k \in
         {k \in 0..Cardinality(DOMAIN Fat(d)) :
            Acha(s(k), nome) # 0 /\ \A j \in 0..(k - 1) : Acha(s(j), nome) = 0 /\ ~Termina(s(j))}}

Byte(d, x, p) == <<d, Elos(d, x)[p \div BytesPorCluster], p % BytesPorCluster>>

(* fat32_read_file_at_offset returns the file's bytes from the offset on: for *)
(* every chain, offset and length, across the directory's clusters, when no   *)
(* read failed and no mount came between.                                     *)
ReadsTheFile ==
  pc = "fim" /\ op.faz = "le" /\ ~falhou /\ Coerente /\ dirOk =>
    LET es == Entradas(geometria, current_dir_cluster, op.nome)
    IN  /\ es = {} => res = "nao_achou"
        /\ \A e \in es :
             IF op.pos >= e.tam THEN res = "erro"
             ELSE /\ res = "ok"
                  /\ lidos = [k \in 1..Menor(op.tam, e.tam - op.pos) |->
                                Byte(geometria, e.cl, op.pos + (k - 1))]

(* The current directory is a directory of the mounted device, as long as no  *)
(* mount failed or came in the middle of an operation.                        *)
DirIsDirectory ==
  dirOk => Coerente /\ current_dir_cluster \in DOMAIN Imagens[geometria].dir

(* An operation whose reads succeed comes to its end. *)
OperationEnds == (pc # "fim") ~> (pc = "fim" \/ falhou)
=============================================================================
