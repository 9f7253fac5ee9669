------------------------------ MODULE Console ------------------------------
(***************************************************************************)
(* drivers/video.c: the terminal, a cursor over ram_buffer; shell/shell.c: *)
(* the line editor, which prints with interrupts enabled, one access to    *)
(* shared memory at a time (the kernel is built without optimisation);     *)
(* the system calls of an application that print, clear or paint, behind   *)
(* an interrupt gate; double_buffering.c: Kernel_Task copies ram_buffer to *)
(* the screen when refresh_screen asks for it.                             *)
(*                                                                         *)
(* The cursor is counted in cells of a character.  A cell holds the glyphs *)
(* drawn over each other since it was last erased.  Of the screen itself   *)
(* only whether it shows ram_buffer is kept.                               *)
(***************************************************************************)
EXTENDS Integers, Sequences, FiniteSets

CONSTANTS
  Colunas, Fileiras,  \* the screen, in cells
  LineSize,         \* CMD_BUFFER_SIZE
  Letras,           \* printable characters the shell's user types
  Sinais,           \* what an application prints: of "x", "nl", "cr", "tab"
  MaxSinais         \* bound: characters, clears and pictures of the application

ASSUME CnAssumption ==
  /\ Colunas \in Nat \ {0} /\ Fileiras \in Nat \ {0} /\ LineSize \in Nat \ {0}
  /\ MaxSinais \in Nat
  /\ Letras \cap {">", "x", "nl", "cr", "tab", "bs", "cls", "figura"} = {}

VARIABLES
  cx, cy,       \* term_cursor_x, term_cursor_y
  ram,          \* ram_buffer, by row and column
  mostrada,     \* whether the screen shows ram_buffer as it is
  refresh,      \* refresh_screen
  onde,         \* per printer: where it is in terminal_putc
  car,          \* per printer: the character it prints
  reg,          \* per printer: the value it loaded and has not stored yet, or 0
  linha,        \* cmd_buffer[0 .. idx - 1]
  sh,           \* what shell_task does next
  ap,           \* whether the application is in the loop of SYS_WRITE
  restam        \* ghost bound: what the application may still do

tela   == <<ram, mostrada>>
cursor == <<cx, cy>>
quem   == <<linha, sh, ap, restam>>
cnVars == <<cursor, tela, refresh, onde, car, reg, quem>>

Printers == {"shell", "app"}
Cols == 0..(Colunas - 1)
Rows == 0..(Fileiras - 1)
Blank == [r \in Rows |-> [c \in Cols |-> {}]]

CnTypeOK ==
  /\ cx \in Int /\ cy \in Int
  /\ ram \in [Rows -> [Cols -> SUBSET (Letras \cup {">", "x", "figura"})]]
  /\ mostrada \in BOOLEAN /\ refresh \in BOOLEAN
  /\ DOMAIN onde = Printers /\ DOMAIN car = Printers /\ reg \in [Printers -> Int]
  /\ linha \in Seq(Letras) /\ Len(linha) < LineSize
  /\ sh \in {"prompt", "le", "executa"} /\ ap \in BOOLEAN /\ restam \in 0..MaxSinais

(* After video_init, which clears and shows the screen. *)
CnInit ==
  /\ cx = 0 /\ cy = 0
  /\ ram = Blank /\ mostrada = TRUE /\ refresh = FALSE
  /\ onde = [p \in Printers |-> "fora"]
  /\ car = [p \in Printers |-> "nl"] /\ reg = [p \in Printers |-> 0]
  /\ linha = <<>> /\ sh = "prompt" /\ ap = FALSE /\ restam = MaxSinais

(* Behind the gate of a system call only the application runs. *)
Desmascarada == onde["app"] = "fora" /\ ~ap
Roda(p) == p = "app" \/ Desmascarada

Em(p, l) == onde[p] = l /\ Roda(p)
Vai(p, l) == onde' = [onde EXCEPT ![p] = l]

-----------------------------------------------------------------------------
(* terminal_putc, step by step *)

(* The call: the character decides the branch; "cls" is terminal_clear. *)
Chama(p, c) ==
  /\ Em(p, "fora")
  /\ car' = [car EXCEPT ![p] = c]
  /\ Vai(p, CASE c \in {"nl", "cr"} -> "margem" [] c = "tab" -> "avanca"
              [] c = "bs" -> "testa" [] c = "cls" -> "limpa" [] OTHER -> "desenha")
  /\ UNCHANGED <<cursor, tela, refresh, reg>>

(* put_pixel and draw_rect skip what is off the screen. *)
Naveis == cy \in Rows /\ cx \in Cols

(* draw_char adds the glyph's pixels and erases none. *)
Desenha(p) ==
  /\ Em(p, "desenha")
  /\ Vai(p, "avanca")
  /\ IF Naveis THEN /\ ram' = [ram EXCEPT ![cy][cx] = @ \cup {car[p]}]
                    /\ mostrada' = FALSE
               ELSE UNCHANGED tela
  /\ UNCHANGED <<cursor, refresh, car, reg>>

(* draw_rect paints the cell black. *)
Apaga(p) ==
  /\ Em(p, "apaga")
  /\ Vai(p, "quebra")
  /\ IF Naveis THEN /\ ram' = [ram EXCEPT ![cy][cx] = {}]
                    /\ mostrada' = FALSE
               ELSE UNCHANGED tela
  /\ UNCHANGED <<cursor, refresh, car, reg>>

(* The loads of term_cursor_x += 8, its tab and -= 8, and of term_cursor_y += 16. *)
CarregaX(p) ==
  /\ \E l \in {"avanca", "volta"} :
       /\ Em(p, l)
       /\ Vai(p, IF l = "avanca" THEN "avancou" ELSE "voltou")
  /\ reg' = [reg EXCEPT ![p] = cx]
  /\ UNCHANGED <<cursor, tela, refresh, car>>

CarregaY(p) ==
  /\ \E l \in {"linha", "desce"} :
       /\ Em(p, l)
       /\ Vai(p, IF l = "linha" THEN "linhou" ELSE "desceu")
  /\ reg' = [reg EXCEPT ![p] = cy]
  /\ UNCHANGED <<cursor, tela, refresh, car>>

(* ... and their stores; a tab goes to the next multiple of four cells. *)
GuardaX(p) ==
  /\ \/ /\ Em(p, "avancou")
        /\ cx' = IF car[p] = "tab" THEN 4 * ((reg[p] + 4) \div 4) ELSE reg[p] + 1
        /\ Vai(p, "quebra")
     \/ /\ Em(p, "voltou")
        /\ cx' = reg[p] - 1
        /\ Vai(p, "apaga")
  /\ reg' = [reg EXCEPT ![p] = 0]
  /\ UNCHANGED <<cy, tela, refresh, car>>

GuardaY(p) ==
  /\ \/ Em(p, "linhou") /\ Vai(p, "quebra")
     \/ Em(p, "desceu") /\ Vai(p, "fundo")
  /\ cy' = reg[p] + 1
  /\ reg' = [reg EXCEPT ![p] = 0]
  /\ UNCHANGED <<cx, tela, refresh, car>>

(* term_cursor_x = 0: of \n and \r, of the wrap, and of the two resets. *)
Margem(p) ==
  /\ \E l \in {"margem", "zera", "limpa_x", "fim_x"} :
       /\ Em(p, l)
       /\ Vai(p, CASE l = "margem" -> IF car[p] = "nl" THEN "linha" ELSE "quebra"
                   [] l = "zera" -> "desce" [] l = "limpa_x" -> "limpa_y"
                   [] OTHER -> "avisa")
  /\ cx' = 0
  /\ UNCHANGED <<cy, tela, refresh, car, reg>>

(* Mutant of NoFundo: the last row is left only when the cursor is past it. *)
NoFundoTarde == cy > Fileiras

(* The tests of '\b', of the wrap and of the last row. *)
TemOndeVoltar == cx >= 1
NoFim   == cx + 1 > Colunas
NoFundo == cy + 1 > Fileiras

Testa(p) ==
  /\ \/ Em(p, "testa") /\ Vai(p, IF TemOndeVoltar THEN "volta" ELSE "quebra")
     \/ Em(p, "quebra") /\ Vai(p, IF NoFim THEN "zera" ELSE "fundo")
     \/ Em(p, "fundo") /\ Vai(p, IF NoFundo THEN "limpa" ELSE "avisa")
  /\ UNCHANGED <<cursor, tela, refresh, car, reg>>

(* terminal_clear: the memory, the cursor, and video_flush in two halves. *)
Limpa(p) ==
  /\ Em(p, "limpa")
  /\ Vai(p, "limpa_x")
  /\ ram' = Blank /\ mostrada' = FALSE
  /\ UNCHANGED <<cursor, refresh, car, reg>>

(* term_cursor_y = 0, in terminal_clear and again after it. *)
Topo(p) ==
  /\ \/ Em(p, "limpa_y") /\ Vai(p, "copia")
     \/ Em(p, "fim_y") /\ Vai(p, "fim_x")
  /\ cy' = 0
  /\ UNCHANGED <<cx, tela, refresh, car, reg>>

(* video_flush reads ram_buffer ... *)
Copia(p) ==
  /\ Em(p, "copia")
  /\ Vai(p, "copiou")
  /\ UNCHANGED <<cursor, tela, refresh, car, reg>>

(* ... and writes the screen: what others drew in between may be missed. *)
Copiou(p) ==
  /\ Em(p, "copiou")
  /\ Vai(p, IF car[p] = "cls" THEN "avisa" ELSE "fim_y")
  /\ mostrada' \in IF p = "app" THEN {TRUE} ELSE BOOLEAN
  /\ UNCHANGED <<cursor, ram, refresh, car, reg>>

(* Mutant of Avisa: only a change of line asks for the screen. *)
AvisaNaMargem(p) ==
  /\ Em(p, "avisa")
  /\ Vai(p, "fora")
  /\ refresh' = (refresh \/ cx = 0)
  /\ car' = [car EXCEPT ![p] = "nl"]
  /\ UNCHANGED <<cursor, tela, reg>>

(* refresh_screen = 1, and the return of terminal_putc or SYS_CLEAR. *)
Avisa(p) ==
  /\ Em(p, "avisa")
  /\ Vai(p, "fora")
  /\ refresh' = TRUE
  /\ car' = [car EXCEPT ![p] = "nl"]
  /\ UNCHANGED <<cursor, tela, reg>>

Putc(p) ==
  /\ \/ Desenha(p) \/ Apaga(p) \/ CarregaX(p) \/ CarregaY(p) \/ GuardaX(p) \/ GuardaY(p)
     \/ Margem(p) \/ Testa(p) \/ Limpa(p) \/ Topo(p) \/ Copia(p) \/ Copiou(p) \/ Avisa(p)
  /\ UNCHANGED quem
-----------------------------------------------------------------------------
(* shell_task *)

Prompt ==
  /\ sh = "prompt"
  /\ Chama("shell", ">")
  /\ sh' = "le" /\ linha' = <<>>
  /\ UNCHANGED <<ap, restam>>

(* Mutant of Digita: a full line is still echoed. *)
DigitaCheia(c) ==
  /\ sh = "le"
  /\ linha' = IF Len(linha) < LineSize - 1 THEN Append(linha, c) ELSE linha
  /\ Chama("shell", c)
  /\ UNCHANGED <<sh, ap, restam>>

(* A printable character that still fits; another is ignored. *)
Digita(c) ==
  /\ sh = "le"
  /\ Len(linha) < LineSize - 1
  /\ linha' = Append(linha, c)
  /\ Chama("shell", c)
  /\ UNCHANGED <<sh, ap, restam>>

Backspace ==
  /\ sh = "le"
  /\ linha # <<>>
  /\ linha' = SubSeq(linha, 1, Len(linha) - 1)
  /\ Chama("shell", "bs")
  /\ UNCHANGED <<sh, ap, restam>>

Enter ==
  /\ sh = "le"
  /\ Chama("shell", "nl")
  /\ sh' = "executa"
  /\ UNCHANGED <<linha, ap, restam>>

(* shell_execute_command of a line that is not empty, here cls; a command that
   prints nothing leaves the console alone. *)
Executa ==
  /\ sh = "executa"
  /\ sh' = "prompt"
  /\ \/ linha # <<>> /\ Chama("shell", "cls")
     \/ Em("shell", "fora") /\ UNCHANGED <<cursor, tela, refresh, onde, car, reg>>
  /\ UNCHANGED <<linha, ap, restam>>

Shell == Prompt \/ (\E c \in Letras : Digita(c)) \/ Backspace \/ Enter \/ Executa
-----------------------------------------------------------------------------
(* The application, and Kernel_Task *)

(* SYS_WRITE to fd 1 or 2: a character, and the next. *)
SysWrite(c) ==
  /\ restam > 0 /\ restam' = restam - 1
  /\ Roda("shell") \/ ap
  /\ Chama("app", c)
  /\ ap' = TRUE
  /\ UNCHANGED <<linha, sh>>

(* video_flush at its end. *)
SysWriteFim ==
  /\ ap /\ Em("app", "fora")
  /\ mostrada' = TRUE /\ ap' = FALSE
  /\ UNCHANGED <<cursor, ram, refresh, onde, car, reg, linha, sh, restam>>

SysClear ==
  /\ restam > 0 /\ restam' = restam - 1
  /\ ~ap
  /\ Chama("app", "cls")
  /\ UNCHANGED <<linha, sh, ap>>

(* SYS_VIDEO_FLIP: the memory, which the application's picture may cover first,
   is shown. *)
VideoFlip ==
  /\ restam > 0 /\ restam' = restam - 1
  /\ Desmascarada
  /\ ram' \in {ram, [r \in Rows |-> [c \in Cols |-> {"figura"}]]}
  /\ mostrada' = TRUE
  /\ UNCHANGED <<cursor, refresh, onde, car, reg, linha, sh, ap>>

(* db_swap_buffers: the flag goes down and the screen is copied under cli. *)
SwapBuffers ==
  /\ Desmascarada
  /\ refresh
  /\ refresh' = FALSE /\ mostrada' = TRUE
  /\ UNCHANGED <<cursor, ram, onde, car, reg, quem>>

App == (\E c \in Sinais : SysWrite(c)) \/ SysWriteFim \/ SysClear \/ VideoFlip

CnNext == Shell \/ App \/ SwapBuffers \/ \E p \in Printers : Putc(p)

CnSpec == CnInit /\ [][CnNext]_cnVars
-----------------------------------------------------------------------------
(* Properties *)

(* Whatever system calls print between two accesses of the shell, once nobody
   prints the cursor is on the screen, or one cell left of it: a '\n' between
   the test of '\b' and its load makes the shell step back from column 0
   (video.c:197-198), and the next character comes back (video.c:209-219). *)
CursorComesBack ==
  (\A p \in Printers : onde[p] = "fora") => cx \in -1..(Colunas - 1) /\ cy \in Rows

(* The row of the cursor, from its prompt if it holds one. *)
Visto ==
  LET i == IF ram[cy][0] = {">"} THEN 1 ELSE 0
  IN  [k \in 1..(cx - i) |-> ram[cy][k - 1 + i]]

(* While the shell has the console for itself, what it shows on the row of the
   cursor, up to the cursor, is the end of the line it will execute, and nothing
   is left behind the cursor: across wraps, '\b' at the margin, a full line and
   the clear at the bottom (shell.c:61-80). *)
EchoIsLineEnd ==
  restam = MaxSinais /\ sh = "le" /\ onde["shell"] = "fora" =>
    /\ Len(Visto) <= Len(linha)
    /\ \A k \in 1..Len(Visto) : Visto[k] = {linha[Len(linha) - Len(Visto) + k]}
    /\ \A c \in Cols : c >= cx => ram[cy][c] = {}

(* What is drawn and not on the screen is still to be shown: the flag asks for
   it, or a printer has yet to raise the flag or to copy the memory.  Nobody
   lowers the flag between a drawing and its announcement without copying, and
   a copy that another drawing overtook is asked for again (video.c:204-223,
   double_buffering.c:32-48). *)
DrawnIsPending == ~mostrada => refresh \/ ap \/ \E p \in Printers : onde[p] # "fora"
=============================================================================
