-------------------------------- MODULE Vfs --------------------------------
(***************************************************************************)
(* drivers/vfs.c: the node tree, path lookup and the table of open files,  *)
(* one for all processes.  The root looks in RamFS, which nothing fills,   *)
(* then in the current FAT32 directory; each match there becomes a fresh   *)
(* node of the kernel heap.  kmalloc may fail, except for the root.        *)
(*                                                                         *)
(* vfs_init_standard_streams has no caller in this commit: without it the  *)
(* root is NULL and SYS_OPEN answers -1.  The model lets the kernel call   *)
(* it once, as its parameters ask: the console nodes are static.           *)
(***************************************************************************)
EXTENDS Integers, Sequences, FiniteSets

CONSTANTS
  Tabela,      \* file descriptors: 0..MAX_FILES_PER_PROCESS - 1
  NoHeap,      \* addresses kmalloc may answer for a node
  Arquivos,    \* per name of the FAT32 directory: its size
  Diretorios,  \* names of directories there
  TamLeitura,  \* length of the reads and writes
  U32_         \* 2^32, the modulus of a uint32_t

ASSUME VfsAssumption == Tabela = 0..(Cardinality(Tabela) - 1) /\ 2 \in Tabela
                       /\ U32_ \in Nat \ {0}

Nenhum  == "nenhum"
Estaticos == {"/", "teclado", "video"}
ASSUME VfsNodesAssumption == NoHeap \cap (Estaticos \cup {Nenhum}) = {}
ASSUME VfsFilesAssumption ==
  /\ \A nome \in DOMAIN Arquivos : Arquivos[nome] \in 0..(U32_ - 1) /\ nome \notin Diretorios
  /\ TamLeitura \in Nat

VARIABLES
  vfs_root,     \* "/" or Nenhum
  no,           \* the heap nodes: their contents, by address
  fd_table,     \* per descriptor: [used, node, offset]
  escrito       \* the file a write has lengthened on the disk, by name

vfVars == <<vfs_root, no, fd_table, escrito>>

Nomes_ == DOMAIN Arquivos \cup Diretorios
Vivo(x) == x \in DOMAIN no

VfTypeOK ==
  /\ vfs_root \in {"/", Nenhum}
  /\ DOMAIN no \subseteq NoHeap
  /\ \A x \in DOMAIN no : no[x].nome \in Nomes_ /\ no[x].tipo \in {"arq", "dir"}
  /\ \A i \in Tabela : /\ fd_table[i].used \in BOOLEAN
                       /\ fd_table[i].node \in NoHeap \cup Estaticos \cup {Nenhum}
                       /\ fd_table[i].offset \in Nat
  /\ escrito \subseteq DOMAIN Arquivos

Fechado_ == [used |-> FALSE, node |-> Nenhum, offset |-> 0]
Aberto_(x) == [used |-> TRUE, node |-> x, offset |-> 0]

VfInit ==
  /\ vfs_root = Nenhum
  /\ no = <<>>
  /\ fd_table = [i \in Tabela |-> Fechado_]
  /\ escrito = {}

(* vfs_init_standard_streams *)
InitStreams ==
  /\ vfs_root = Nenhum
  /\ vfs_root' = "/"
  /\ fd_table' = [i \in Tabela |-> IF i = 0 THEN Aberto_("teclado")
                                   ELSE IF i \in {1, 2} THEN Aberto_("video") ELSE Fechado_]
  /\ UNCHANGED <<no, escrito>>

(* Mutant of Acomoda: a second lookup of a name answers the node of the first. *)
AcomodaUmSo(nome, x) ==
  IF \E y \in DOMAIN no : no[y].nome = nome THEN x \in DOMAIN no /\ no[x].nome = nome /\ UNCHANGED no
  ELSE /\ x \in NoHeap \ DOMAIN no
       /\ no' = [y \in DOMAIN no \cup {x} |-> IF y = x
            THEN [nome |-> nome, tipo |-> IF nome \in Diretorios THEN "dir" ELSE "arq",
                  size |-> IF nome \in Diretorios THEN 0 ELSE Arquivos[nome]] ELSE no[y]]

(* vfs_root_combined_finddir makes a node x for the FAT32 entry. *)
Acomoda(nome, x) ==
  /\ x \in NoHeap \ DOMAIN no
  /\ no' = [y \in DOMAIN no \cup {x} |-> IF y = x
       THEN [nome |-> nome, tipo |-> IF nome \in Diretorios THEN "dir" ELSE "arq",
             size |-> IF nome \in Diretorios THEN 0 ELSE Arquivos[nome]] ELSE no[y]]

(* The first free descriptor. *)
Primeiro(i) == ~fd_table[i].used /\ \A j \in Tabela : j < i => fd_table[j].used

(* sys_open after a lookup that answered node x. *)
Ocupa(x) ==
  \/ \E i \in Tabela : Primeiro(i) /\ fd_table' = [fd_table EXCEPT ![i] = Aberto_(x)]
  \/ (\A i \in Tabela : fd_table[i].used) /\ UNCHANGED fd_table

(* SYS_OPEN of "/". *)
AbreRaiz ==
  /\ vfs_root # Nenhum
  /\ Ocupa("/")
  /\ UNCHANGED <<vfs_root, no, escrito>>

(* SYS_OPEN of a name of the current directory.  With the table full the new *)
(* node stays behind.                                                        *)
Abre(nome) ==
  /\ vfs_root # Nenhum
  /\ \E x \in NoHeap : Acomoda(nome, x) /\ Ocupa(x)
  /\ UNCHANGED <<vfs_root, escrito>>

(* SYS_OPEN of "dir/nome": the node of dir has ramfs_dir_ops and a cluster    *)
(* number where they expect a list; a name is never found there and the node  *)
(* of dir stays behind.                                                       *)
AbreSubdir(dir) ==
  /\ vfs_root # Nenhum /\ dir \in Diretorios
  /\ \E x \in NoHeap : Acomoda(dir, x)
  /\ UNCHANGED <<vfs_root, fd_table, escrito>>

(* What the node of descriptor i says of its file, if it is one of the FAT32. *)
EhArquivo(i) == fd_table[i].used /\ fd_table[i].node \in DOMAIN no /\ no[fd_table[i].node].tipo = "arq"
No(i) == no[fd_table[i].node]

(* vfs_fat32_read answers what is left when the request goes beyond the size *)
(* of the node, in unsigned arithmetic.                                      *)
Lido(i) ==
  IF fd_table[i].offset + TamLeitura > No(i).size
  THEN (No(i).size - fd_table[i].offset) % U32_
  ELSE TamLeitura

(* SYS_READ of a file.  fat32_read_file_at_offset compares the offset with   *)
(* the size in the directory, which a write cannot change yet.               *)
LeArquivo(i) ==
  /\ EhArquivo(i)
  /\ LET cabe == fd_table[i].offset < Arquivos[No(i).nome]
     IN  fd_table' = [fd_table EXCEPT ![i].offset = @ + IF cabe THEN Lido(i) ELSE 0]
  /\ UNCHANGED <<vfs_root, no, escrito>>

(* sys_write of a file; fat32_write_file and fat32_append_file succeed or not. *)
EscreveArquivo(i) ==
  /\ EhArquivo(i)
  /\ fd_table[i].offset < 2 * TamLeitura
  /\ fd_table' = [fd_table EXCEPT ![i].offset = @ + TamLeitura]
  /\ escrito' = escrito \cup {No(i).nome}
  /\ UNCHANGED <<vfs_root, no>>

(* sys_close frees the node of a FAT32 file, and of nothing else. *)
SoltaNo(x) ==
  IF x \in DOMAIN no /\ no[x].tipo = "arq"
  THEN no' = [y \in DOMAIN no \ {x} |-> no[y]]
  ELSE UNCHANGED no

(* sys_close *)
Fecha(i) ==
  /\ fd_table[i].used
  /\ SoltaNo(fd_table[i].node)
  /\ fd_table' = [fd_table EXCEPT ![i] = Fechado_]
  /\ UNCHANGED <<vfs_root, escrito>>

VfNext ==
  \/ InitStreams
  \/ AbreRaiz
  \/ \E nome \in Nomes_ : Abre(nome) \/ AbreSubdir(nome)
  \/ \E i \in Tabela : LeArquivo(i) \/ EscreveArquivo(i) \/ Fecha(i)

VfSpec == VfInit /\ [][VfNext]_vfVars

-----------------------------------------------------------------------------
(* No open descriptor points to a node that sys_close has given back to the  *)
(* heap: two descriptors never share a node of it.                           *)
OpenNodesLive ==
  \A i \in Tabela : fd_table[i].used => fd_table[i].node \in DOMAIN no \cup Estaticos

(* A file read through the table never goes past the size of its node.       *)
OffsetInFile ==
  \A i \in Tabela : EhArquivo(i) /\ No(i).nome \notin escrito => fd_table[i].offset <= No(i).size

(* Every open descriptor is good for a read or a write (vfs.c:192-286).                *)
DescriptorsSound == OpenNodesLive /\ OffsetInFile
=============================================================================
