------------------------------ MODULE MCDisks ------------------------------
(***************************************************************************)
(* The SATA driver, the USB controller's list, the USB disk's commands and *)
(* an application's heap, one at a time: qual says which one moves.        *)
(***************************************************************************)
EXTENDS Ahci, EhciList, UsbBot, UserMalloc

VARIABLE qual
vars == <<qual, ahVars, ehVars, ubVars, umVars>>

MCInit ==
  /\ qual \in {"ahci", "lista", "comandos", "heap"}
  /\ AhInit /\ EhInit /\ UbInit /\ UmInit
  /\ qual # "comandos" => eps = 1

MCNext ==
  /\ UNCHANGED qual
  /\ \/ qual = "ahci"     /\ AhNext /\ UNCHANGED <<ehVars, ubVars, umVars>>
     \/ qual = "lista"    /\ EhNext /\ UNCHANGED <<ahVars, ubVars, umVars>>
     \/ qual = "comandos" /\ UbNext /\ UNCHANGED <<ahVars, ehVars, umVars>>
     \/ qual = "heap"     /\ UmNext /\ UNCHANGED <<ahVars, ehVars, ubVars>>

MCSpec == MCInit /\ [][MCNext]_vars
=============================================================================
