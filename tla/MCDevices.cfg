SPECIFICATION MCSpec
CONSTANTS
  KbSize = 3
  Leitores = {"pai", "filho"}
  Teclas = {"letra", "enter", "muda"}
  MaxTeclas = 3
  Largura = 3
  Altura = 3
  Cabecas = {8, 9, 24}
  Deltas = {0, 2, 8, 255}
  MaxTortos = 3
  Portas = {1, 2, 3}
  Donos = {"a", "b"}
  FifoSize = 1
  RxSize = 2
  Bauds = {230400}
  Tabela = {0, 1, 2, 3}
  NoHeap = {"n1", "n2"}
  Arquivos <- MCArquivos
  Diretorios = {"d"}
  TamLeitura = 2
  U32_ = 256
  Colunas = 2
  Fileiras = 2
  LineSize = 3
  Letras = {"a", "b"}
  Sinais = {"nl", "tab"}
  MaxSinais = 2
  Discos = {0, 1}
  Imagens <- MCImagens
  BytesPorCluster = 2
  Nomes = {"a", "sub", "x"}
  Tamanhos = {1, 3}
  Posicoes = {0, 1, 3}
INVARIANTS TypedInOrder ShiftHeals OneHolderPerPort DescriptorsSound CursorComesBack EchoIsLineEnd DrawnIsPending ReadsTheFile 
PROPERTIES ChildStartsClean Com1Delivered OperationEnds
CHECK_DEADLOCK FALSE
