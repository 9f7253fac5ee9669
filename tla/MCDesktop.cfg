SPECIFICATION MCSpec
CONSTANTS
  HEAP_START_SAFE = 1
  PAGE_SIZE = 8
  MaxPages = 3
  Requests = {16, 17, 80}
  Chamadores = {"App_Exec"}
  TotalBlocks = 30
  WordBits = 4
  Usable <- Ram
  Segmento <- Seg2
  Pilha <- Pil
  Partes = 2
  MaxLoads = 3
  Slots = {0, 1}
  Apps = {5, 6}
  Segura = 1
  Layouts <- MCLayouts
  Pontos = {1, 2, 3, 4, 5, 6, 7, 8, 9}
  MaxRegistro = 4
  MaxFilhos = 100
  MaxJanelas = 2
  TURNOS = 2
  LimiteEdit = 2
  AlocInicial = 4
  Colunas = 2
  Linhas = 1
  MaxTexto = 4
  MaxRolagem = 4
INVARIANTS DoublyLinked Tiled Coalesced StatsAddUp OwnSpace AllOrNothing NoHoleBelow
           DragIsFocused OwnWindow TwinsAgree NothingStaysPressed CaretWhereKeysGo MemoSound
PROPERTIES KeepsPromise LoadEnds ClosedIsSwept
CHECK_DEADLOCK FALSE
