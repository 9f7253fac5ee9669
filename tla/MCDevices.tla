----------------------------- MODULE MCDevices -----------------------------
(***************************************************************************)
(* The keyboard, the mouse, the serial ports, the file descriptors, the     *)
(* console and FAT32, one at a time: qual says which one moves.             *)
(***************************************************************************)
EXTENDS Keyboard, Mouse, Serial, Vfs, Console, Fat32, TLC

VARIABLE qual
vars == <<qual, kbVars, msVars, seVars, vfVars, cnVars, ftVars>>

MCArquivos == [n \in {"a"} |-> 3]

Arq(n, x, t) == [tipo |-> "arq", nome |-> n, cl |-> x, tam |-> t]
Dir(n, x)    == [tipo |-> "dir", nome |-> n, cl |-> x, tam |-> 0]

(* The SATA disk: a root directory of two clusters, a file of two that do not  *)
(* follow each other, a subdirectory whose ".." is cluster 0.  The USB disk    *)
(* has a full FAT, a root without an end marker and a file whose name is that  *)
(* of a directory of the other disk.                                           *)
MCImagens == [d \in {0, 1} |->
  IF d = 0
  THEN [raiz |-> 2,
        fat  |-> 2 :> 4 @@ 3 :> 6 @@ 4 :> EOF @@ 5 :> EOF @@ 6 :> EOF @@ 7 :> 0,
        dir  |-> 2 :> <<Vaga, Dir("sub", 5)>> @@ 4 :> <<Arq("a", 3, 4), FimDir>>
                 @@ 5 :> <<Dir("sub", 0), FimDir>>]
  ELSE [raiz |-> 2,
        fat  |-> 2 :> EOF @@ 3 :> EOF @@ 4 :> EOF,
        dir  |-> 2 :> <<Arq("a", 4, 1), Arq("sub", 3, 2)>>]]

MCInit ==
  /\ qual \in {"teclado", "mouse", "serial", "vfs", "console", "fat"}
  /\ KbInit /\ MsInit /\ SeInit /\ VfInit /\ CnInit /\ FtInit
  /\ qual # "teclado" => foco = "pai"

MCNext ==
  /\ UNCHANGED qual
  /\ \/ qual = "teclado" /\ KbNext /\ UNCHANGED <<msVars, seVars, vfVars, cnVars, ftVars>>
     \/ qual = "mouse"   /\ MsNext /\ UNCHANGED <<kbVars, seVars, vfVars, cnVars, ftVars>>
     \/ qual = "serial"  /\ SeNext /\ UNCHANGED <<kbVars, msVars, vfVars, cnVars, ftVars>>
     \/ qual = "vfs"     /\ VfNext /\ UNCHANGED <<kbVars, msVars, seVars, cnVars, ftVars>>
     \/ qual = "console" /\ CnNext /\ UNCHANGED <<kbVars, msVars, seVars, vfVars, ftVars>>
     \/ qual = "fat"     /\ FtNext /\ UNCHANGED <<kbVars, msVars, seVars, vfVars, cnVars>>

(* The CPU takes an unmasked IRQ 4 when the current system call is over; the  *)
(* process in a FAT32 operation runs again and again.                         *)
MCSpec ==
  /\ MCInit /\ [][MCNext]_vars
  /\ WF_seVars(qual = "serial" /\ Irq4)
  /\ WF_ftVars(qual = "fat" /\ Passo)
=============================================================================
