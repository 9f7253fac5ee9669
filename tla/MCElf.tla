------------------------------- MODULE MCElf -------------------------------
(* Small programs for ElfLoad.  The lowest word of the bitmap stands for the
   8 MB that detect_memory_from_e820 keeps for the kernel. *)
EXTENDS ElfLoad

Seg1 == <<"pag1">>
Seg2 == <<"pag1", "pag2">>
Pil  == <<"pil1">>
Ram  == WordBits..(TotalBlocks - 1)
=============================================================================
