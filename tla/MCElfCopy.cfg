SPECIFICATION Spec
CONSTANTS
  Chamadores = {"App_Exec"}
  TotalBlocks = 12
  WordBits = 4
  Usable <- Ram
  Segmento <- Seg1
  Pilha <- Pil
  Partes = 2
  MaxLoads = 1
INVARIANT ProgramWhole
