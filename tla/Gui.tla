-------------------------------- MODULE Gui --------------------------------
(***************************************************************************)
(* One application's window: the GUI library it links (gui.c,              *)
(* gui_interaction.c, wm.c, z_order.c, input_events.c), the runtime's twin  *)
(* of every control (Runtime/components) and the event loop the            *)
(* applications share (test.c, tarefa.c).  A control exists twice: the      *)
(* library's record, that is painted and hit first, and the runtime's,      *)
(* that the application reads and types into.  Nothing copies one to the    *)
(* other but gui_set_prop, so the two must see the same clicks.  A turn of  *)
(* the loop is one step: nothing in it waits for another process.           *)
(***************************************************************************)
EXTENDS Naturals, Sequences, SequencesExt

CONSTANTS
  Layouts,      \* the applications: [ctl, sub], ctl the controls in creation order
                \* [tipo, area, dentro, sobe, desce, grupo, liga, itens, texto], sub
                \* the windows OS_CreateForm adds [area, titulo]
  Pontos,       \* where the explorer may report a click
  MaxRegistro,  \* MAX_APP_CONTROLS
  MaxFilhos,    \* the controls a TForm holds
  MaxJanelas,   \* MAX_WINDOWS
  TURNOS,       \* turns a click is held: mouse_hold_timer
  LimiteEdit,   \* the most characters of a TEdit, MaxLength - 1
  AlocInicial,  \* the memo's first buffer
  Colunas, Linhas,  \* characters in a memo line, lines in view
  MaxTexto, MaxRolagem  \* bounds of the model: text of a memo, its scroll

NULO == 0
PRINCIPAL == 1
Digita == {"edit", "memo"}
Marca == {"check", "radio"}

ASSUME GuiAssumption ==
  /\ {MaxJanelas, TURNOS, Colunas, Linhas} \subseteq Nat \ {0}
  /\ AlocInicial \in Nat /\ AlocInicial > 2
  /\ MaxRegistro \in Nat /\ NULO \notin Pontos

(* Where the applications put their controls: none over another or under a window  *)
(* they add, none checked from the start, those with text among the first.         *)
ASSUME LayoutAssumption ==
  \A l \in Layouts :
    /\ Len(l.ctl) \in Nat /\ DOMAIN l.ctl = 1..Len(l.ctl)
    /\ Len(l.sub) \in Nat /\ DOMAIN l.sub = 1..Len(l.sub)
    /\ \A c \in DOMAIN l.ctl :
         /\ l.ctl[c].area \subseteq Pontos /\ l.ctl[c].dentro \subseteq l.ctl[c].area
         /\ l.ctl[c].tipo \in Digita => c <= MaxRegistro
         /\ l.ctl[c].tipo = "check" => ~l.ctl[c].liga
         /\ \A d \in DOMAIN l.ctl : c # d => l.ctl[c].area \cap l.ctl[d].area = {}
         /\ \A f \in DOMAIN l.sub : l.ctl[c].area \cap (l.sub[f].area \cup l.sub[f].titulo) = {}

VARIABLES
  lay,  \* the application's layout
  gui,  \* the library's state
  rt   \* the runtime's and the loop's
guiVars == <<lay, gui, rt>>

Ctl == lay.ctl
Tipo(c) == Ctl[c].tipo
OMemo == {c \in DOMAIN Ctl : Tipo(c) = "memo"}

GuInit ==
  /\ lay \in Layouts
  /\ gui = [filhos |-> 0, estado |-> [c \in DOMAIN Ctl |-> 0], marcado |-> {},
            legenda |-> [c \in DOMAIN Ctl |-> <<>>], foco |-> NULO, texto |-> NULO, rolagem |-> 0,
            pilha |-> <<PRINCIPAL>>, ativa |-> PRINCIPAL, arrasto |-> FALSE, movidas |-> {},
            botao |-> 0, ultimo |-> NULO]
  /\ rt = [registro |-> <<>>, formas |-> 1, foco |-> NULO, marcado |-> {},
            texto |-> [c \in DOMAIN Ctl |-> <<>>], item |-> [c \in DOMAIN Ctl |-> 0],
            memo |-> <<>>, buffer |-> 1, aloc |-> AlocInicial, rolagem |-> 0,
            timer |-> 0, clique |-> NULO, viva |-> TRUE]

-----------------------------------------------------------------------------
(* The library: properties.                                                *)

(* gui_set_prop, PROP_SET_FOCUS, of a control or of none. *)
PropFoco(g, c) == [g EXCEPT !.foco = c]

(* PROP_CAPTION copies the text, but only keeps the address of a memo's. *)
PropLegenda(g, c, t) == [g EXCEPT !.legenda[c] = t]
PropTexto(g, b) == [g EXCEPT !.texto = b]

-----------------------------------------------------------------------------
(* The library: hits.  Its rectangles hold their right and bottom edges.    *)

Filhos(g) == 1..g.filhos
Dentro(c, p) == p \in Ctl[c].area

(* gui_process_hover *)
Paira(g, p) ==
  [g EXCEPT !.estado = [c \in DOMAIN Ctl |->
    IF c \notin Filhos(g) THEN @[c]
    ELSE IF Dentro(c, p) THEN (IF @[c] # 2 THEN 1 ELSE 2)
    ELSE IF @[c] = 1 THEN 0 ELSE @[c]]]

(* gui_process_press: the last control created that holds the point.  The    *)
(* library never learns GroupIndex: every radio button is in group 0.        *)
Pressiona(g, p) ==
  LET alvo == {c \in Filhos(g) : Dentro(c, p)}
      a == CHOOSE c \in alvo : \A d \in alvo : d <= c
      f == [g EXCEPT !.foco = a]
  IN CASE alvo = {} -> [g EXCEPT !.foco = NULO]
       [] alvo # {} /\ Tipo(a) = "check" -> [f EXCEPT !.marcado = SymDiff(@, {a})]
       [] alvo # {} /\ Tipo(a) = "radio" ->
            [f EXCEPT !.marcado = {c \in @ : Tipo(c) # "radio"} \union {a}]
       [] OTHER -> [f EXCEPT !.estado[a] = 2]

(* gui_process_release: the events it pushes are never popped. *)
Libera(g) ==
  [g EXCEPT !.estado = [c \in DOMAIN Ctl |-> IF c \in Filhos(g) /\ @[c] = 2 THEN 1 ELSE @[c]]]

-----------------------------------------------------------------------------
(* The window manager.                                                     *)

Area(f) == IF f = PRINCIPAL THEN Pontos ELSE lay.sub[f - 1].area
Titulo(f) == IF f = PRINCIPAL THEN {} ELSE lay.sub[f - 1].titulo

(* z_order_find_at: the topmost window that holds the point. *)
Acha(g, p) == g.pilha[CHOOSE i \in DOMAIN g.pilha :
                        /\ p \in Area(g.pilha[i])
                        /\ \A j \in DOMAIN g.pilha : p \in Area(g.pilha[j]) => j <= i]

(* z_order_bring_to_front: the windows above move one place down. *)
TrazParaFrente(g, f) ==
  LET n == Len(g.pilha)
      i == CHOOSE k \in 1..n : g.pilha[k] = f
  IN [g EXCEPT !.pilha = [k \in 1..n |-> IF k < i THEN @[k] ELSE IF k < n THEN @[k + 1] ELSE f]]

(* wm_add_window, z_order_add: a window past the limit is active and in no list. *)
Adiciona(g, f) ==
  [g EXCEPT !.pilha = IF Len(@) < MaxJanelas THEN Append(@, f) ELSE @, !.ativa = f]

(* wm_handle_mouse_event, EVENT_MOUSE_DOWN *)
Desce(g, p) ==
  LET f == Acha(g, p)
      t == [TrazParaFrente(g, f) EXCEPT !.ativa = f]
  IN IF p \in Titulo(f) THEN [t EXCEPT !.arrasto = TRUE]
     ELSE IF f = PRINCIPAL THEN Pressiona(t, p) ELSE [t EXCEPT !.foco = NULO]

(* EVENT_MOUSE_MOVE *)
Move(g, p) ==
  IF g.arrasto THEN [g EXCEPT !.movidas = @ \union {g.ativa}]
  ELSE IF Acha(g, p) = PRINCIPAL THEN Paira(g, p) ELSE g

(* EVENT_MOUSE_UP *)
Sobe(g, p) ==
  LET s == [g EXCEPT !.arrasto = FALSE]
  IN IF Acha(g, p) = PRINCIPAL THEN Libera(s) ELSE s

(* events_process_mouse: the edges of the button, and a move when the point changed. *)
(* Mutant of Mouse: the level of the button, not its edge. *)
MouseSemMemoria(g, p, b) ==
  LET m == IF g.ultimo \notin {NULO, p} THEN Move(g, p) ELSE g
  IN [(IF b = 1 THEN Desce(m, p) ELSE m) EXCEPT !.ultimo = p]

Mouse(g, p, b) ==
  LET m == IF g.ultimo \notin {NULO, p} THEN Move(g, p) ELSE g
      e == IF b > g.botao THEN Desce(m, p) ELSE IF b < g.botao THEN Sobe(m, p) ELSE m
  IN [e EXCEPT !.botao = b, !.ultimo = p]

-----------------------------------------------------------------------------
(* The library: painting.                                                  *)

(* gui_draw_memo counts the lines of the text it was given ... *)
Quebra(q, x) ==
  IF x = "n" THEN [lin |-> q.lin + 1, col |-> 0]
  ELSE IF q.col >= Colunas THEN [lin |-> q.lin + 1, col |-> 1]
  ELSE [q EXCEPT !.col = @ + 1]

Total(t) ==
  LET conta[k \in 0..Len(t)] ==
        IF k = 0 THEN [lin |-> 0, col |-> 0] ELSE Quebra(conta[k - 1], t[k])
      q == conta[Len(t)]
      n == q.lin + (IF q.col > 0 THEN 1 ELSE 0)
  IN IF n = 0 THEN 1 ELSE n

(* ... and holds ScrollY to them. *)
Trava(r, t) ==
  IF Total(t) <= Linhas THEN 0 ELSE IF r > Total(t) - Linhas THEN Total(t) - Linhas ELSE r

(* The text at the address the memo keeps; the buffer it names may be gone. *)
TextoVisto(g, a) == IF g.texto = a.buffer THEN a.memo ELSE <<>>

Pinta(g, a) == [g EXCEPT !.rolagem = Trava(@, TextoVisto(g, a))]

(* What gui_draw_memo shows: the text; the caret when its place is in view. *)
MemoPintado(c) == [texto |-> TextoVisto(gui, rt), cursor |-> gui.foco = c]

(* gui_draw_edit: the caption, and the caret where it ends. *)
EditPintado(c) == [texto |-> gui.legenda[c], cursor |-> gui.foco = c]

(* gui_draw_radiobutton, gui_draw_checkbox: a mark. *)
MarcaPintada(c) == [marca |-> c \in gui.marcado]

(* gui_draw_button: a sunken or a raised border. *)
BotaoPintado(c) == [fundo |-> gui.estado[c] = 2]

(* gui_draw_combobox: the caption. *)
ComboPintado(c) == [texto |-> gui.legenda[c]]

-----------------------------------------------------------------------------
(* The runtime's components.  A step that changes both sides works on the    *)
(* pair s = [g, a].                                                          *)

(* OS_Edit_AddChar *)
EditTecla(s, c, k) ==
  LET t == s.a.texto[c]
      u == IF k = "bs" THEN (IF t = <<>> THEN t ELSE Front(t))
           ELSE IF k # "n" /\ Len(t) < LimiteEdit THEN Append(t, k) ELSE t
  IN [g |-> PropLegenda(s.g, c, u), a |-> [s.a EXCEPT !.texto[c] = u]]

(* OS_Memo_AddChar; ok says whether a realloc it needs succeeds. *)
(* Mutant of Cresce: the buffer grows when it is already past its end. *)
CresceTarde(a) == Len(a.memo) >= a.aloc

Cresce(a) == Len(a.memo) + 2 >= a.aloc

MemoTecla(s, k, ok) ==
  LET cresce == k # "bs" /\ Cresce(s.a)
      m == [s.a EXCEPT !.memo = IF k = "bs" THEN (IF @ = <<>> THEN @ ELSE Front(@)) ELSE Append(@, k)]
      n == IF cresce THEN [m EXCEPT !.aloc = @ * 2, !.buffer = @ + 1] ELSE m
  IN IF cresce /\ ~ok THEN s ELSE [g |-> PropTexto(s.g, n.buffer), a |-> n]

(* OS_Memo_AddStr of a line: a character and the line's end. *)
MemoFrase(s, ok) ==
  IF OMemo = {} THEN s ELSE MemoTecla(MemoTecla(s, "x", ok), "n", ok)

(* OS_Memo_SetScroll *)
MemoRola(s, r) == [g |-> [s.g EXCEPT !.rolagem = r], a |-> [s.a EXCEPT !.rolagem = r]]

(* OS_CheckBox_Toggle: PROP_STATE is an enumerator, its #ifdef never holds. *)
Alterna(s, c) == [s EXCEPT !.a.marcado = SymDiff(@, {c})]

(* OS_RadioButton_Select *)
Seleciona(s, c) ==
  LET irmaos == {d \in Range(s.a.registro) : Tipo(d) = "radio" /\ Ctl[d].grupo = Ctl[c].grupo}
  IN IF c \in s.a.marcado THEN s ELSE [s EXCEPT !.a.marcado = (@ \ irmaos) \union {c}]

(* OS_ComboBox_UpdateKernelText, OS_ComboBox_Rotate *)
Mostra(g, c, i, n) == PropLegenda(g, c, <<i + 1, n>>)

Gira(s, c) ==
  LET n == Ctl[c].itens
      i == (s.a.item[c] + 1) % n
  IN IF n = 0 THEN s ELSE [g |-> Mostra(s.g, c, i, n), a |-> [s.a EXCEPT !.item[c] = i]]

(* OS_ProcessKeyboard *)
Teclado(s, k, ok) ==
  LET c == s.a.foco
  IN IF k = "" \/ c = NULO THEN s
     ELSE IF Tipo(c) = "edit" THEN EditTecla(s, c, k) ELSE MemoTecla(s, k, ok)

(* OS_ProcessMouseClick: the first control registered that holds the point and *)
(* handles clicks, or is a picture or a label.                                 *)
(* Mutant of ClicaControles: the keyboard's focus is reset after the scan, not before. *)
ClicaEReseta(s, p) ==
  LET alvo == {i \in DOMAIN s.a.registro :
                 Dentro(s.a.registro[i], p) /\ Tipo(s.a.registro[i]) \in Marca}
      c == s.a.registro[CHOOSE i \in alvo : \A j \in alvo : i <= j]
      z == [s EXCEPT !.a.foco = NULO]
  IN IF alvo = {} THEN z ELSE IF Tipo(c) = "check" THEN Alterna(z, c) ELSE Seleciona(z, c)

ClicaControles(s, p) ==
  LET alvo == {i \in DOMAIN s.a.registro :
                 Dentro(s.a.registro[i], p) /\ Tipo(s.a.registro[i]) \notin {"botao", "painel"}}
      c == s.a.registro[CHOOSE i \in alvo : \A j \in alvo : i <= j]
      z == [s EXCEPT !.a.foco = NULO]
  IN CASE alvo = {} -> z
       [] alvo # {} /\ Tipo(c) = "combo" -> Gira(z, c)
       [] alvo # {} /\ Tipo(c) = "check" -> Alterna(z, c)
       [] alvo # {} /\ Tipo(c) = "radio" -> Seleciona(z, c)
       [] alvo # {} /\ Tipo(c) \in Digita -> [z EXCEPT !.a.foco = c]
       [] OTHER -> z

-----------------------------------------------------------------------------
(* The application.                                                        *)

(* gui_create_*: a zeroed record, last of the window's controls.  The creators *)
(* of buttons, labels, panels and pictures leave Type at TYPE_CONTROL.         *)
Nasce(g) == [g EXCEPT !.filhos = IF @ < MaxFilhos THEN @ + 1 ELSE @]

(* OS_RegisterControl: the runtime's twin, unless its table is full. *)
Registra(a, c) == [a EXCEPT !.registro = IF Len(@) < MaxRegistro THEN Append(@, c) ELSE @]

(* OS_Create*: the twin is registered, then the library's is created and given *)
(* its properties.  What the kinds add to that:                                *)
CriaSimples(s, c) == [g |-> Nasce(s.g), a |-> Registra(s.a, c)]

CriaMemo(s, c) ==
  [CriaSimples(s, c) EXCEPT !.a.memo = <<>>, !.a.buffer = 1, !.a.aloc = AlocInicial]

CriaEdit(s, c) ==
  LET n == CriaSimples(s, c)
  IN [g |-> PropLegenda(n.g, c, Ctl[c].texto), a |-> [n.a EXCEPT !.texto[c] = Ctl[c].texto]]

(* The first item the application adds is shown at once, as one of one. *)
CriaCombo(s, c) ==
  LET n == CriaSimples(s, c)
  IN IF Ctl[c].itens = 0 THEN n ELSE [n EXCEPT !.g = Mostra(@, c, 0, 1)]

(* The application stores Checked itself, in its own twin only. *)
CriaCheck(s, c) ==
  LET n == CriaSimples(s, c)
  IN IF Ctl[c].liga THEN [n EXCEPT !.a.marcado = @ \union {c}] ELSE n

(* os_radiobutton.c declares gui_create_radio with three arguments, gui.c takes a *)
(* caption as the fourth: what the register holds is copied, or faults.           *)
CriaRadio(s, c) == {CriaCheck(s, c), [CriaSimples(s, c) EXCEPT !.a.viva = FALSE]}

Cria ==
  LET c == gui.filhos + 1
      s == [g |-> gui, a |-> rt]
      fim == CASE Tipo(c) = "memo"  -> {CriaMemo(s, c)}
               [] Tipo(c) = "edit"  -> {CriaEdit(s, c)}
               [] Tipo(c) = "combo" -> {CriaCombo(s, c)}
               [] Tipo(c) = "check" -> {CriaCheck(s, c)}
               [] Tipo(c) = "radio" -> CriaRadio(s, c)
               [] OTHER             -> {CriaSimples(s, c)}
  IN /\ rt.viva /\ gui.filhos < Len(Ctl) /\ gui.filhos < MaxFilhos
     /\ \E n \in fim : gui' = n.g /\ rt' = n.a
     /\ UNCHANGED lay

Pronto == rt.viva /\ gui.filhos = Len(Ctl)

(* OS_CreateForm, called by the application. *)
AbreForma ==
  /\ Pronto /\ rt.formas <= Len(lay.sub)
  /\ rt' = [rt EXCEPT !.formas = @ + 1]
  /\ gui' = Adiciona(gui, rt.formas + 1)
  /\ UNCHANGED lay

(* The loop's own focus rule.  Its rectangles leave their last edge out. *)
Foca(s, p) ==
  LET alvo == {c \in DOMAIN Ctl : Tipo(c) \in Digita /\ p \in Ctl[c].dentro}
      c == CHOOSE d \in alvo : TRUE
  IN IF alvo = {} THEN [s EXCEPT !.g = PropFoco(@, NULO)]
     ELSE IF p \in Ctl[c].sobe THEN MemoRola(s, IF s.a.rolagem < 2 THEN 0 ELSE s.a.rolagem - 2)
     ELSE IF p \in Ctl[c].desce THEN MemoRola(s, s.a.rolagem + 2)
     ELSE [s EXCEPT !.g = PropFoco(@, c)]

Botoes == {c \in DOMAIN Ctl : Tipo(c) = "botao"}

(* The handlers: a button sinks and logs; EXEC clears the path it read when   *)
(* the request was taken (feito).                                             *)
Trata(s, p, ok, feito) ==
  LET alvo == {c \in DOMAIN Ctl : Tipo(c) \in Marca \union {"botao", "combo"} /\ p \in Ctl[c].dentro}
      b == {c \in alvo : c \in Botoes}
      n == [s EXCEPT !.g.estado = [c \in DOMAIN Ctl |-> IF c \in b THEN 2 ELSE @[c]]]
      l == IF alvo = {} THEN n ELSE MemoFrase(n, ok)
      e == {c \in DOMAIN Ctl : Tipo(c) = "edit" /\ l.g.legenda[c] # <<>>}
  IN IF b = {} \/ e = {} \/ ~feito THEN l
     ELSE [l EXCEPT !.g = PropLegenda(@, CHOOSE c \in e : TRUE, <<>>)]

(* The click the explorer left, unless one is still held. *)
Recebe(s, p, ok, feito) ==
  IF p = NULO \/ s.a.timer > 0 THEN s
  ELSE LET d == [g |-> Mouse(s.g, p, 1), a |-> [s.a EXCEPT !.timer = TURNOS, !.clique = p]]
       IN Trata(ClicaControles(Foca(d, p), p), p, ok, feito)

(* mouse_hold_timer: at its end the buttons rise and the library sees the release. *)
(* Mutant of Segue: the buttons rise, the release is not sent. *)
SegueSemSoltar(s) ==
  IF s.a.timer # 1 THEN [s EXCEPT !.a.timer = IF @ = 0 THEN 0 ELSE @ - 1]
  ELSE [g |-> [s.g EXCEPT !.estado = [c \in DOMAIN Ctl |-> IF c \in Botoes THEN 0 ELSE @[c]]],
        a |-> [s.a EXCEPT !.timer = 0]]

Segue(s) ==
  LET b == [s.g EXCEPT !.estado = [c \in DOMAIN Ctl |-> IF c \in Botoes THEN 0 ELSE @[c]]]
  IN IF s.a.timer # 1 THEN [s EXCEPT !.a.timer = IF @ = 0 THEN 0 ELSE @ - 1]
     ELSE [g |-> Mouse(b, s.a.clique, 0), a |-> [s.a EXCEPT !.timer = 0]]

(* A turn with the focus: key, click, timer, paint. *)
Turno(k, p, ok, feito) ==
  LET s == Segue(Recebe(Teclado([g |-> gui, a |-> rt], k, ok), p, ok, feito))
  IN /\ Pronto
     /\ Len(s.a.memo) <= MaxTexto /\ s.a.rolagem <= MaxRolagem
     /\ gui' = Pinta(s.g, s.a)
     /\ rt' = s.a
     /\ UNCHANGED lay

(* A realloc may fail where one is due: a turn adds at most two characters. *)
Realoca == IF OMemo # {} /\ Len(rt.memo) + 3 >= rt.aloc THEN BOOLEAN ELSE {TRUE}

Tecla ==
  /\ rt.foco # NULO
  /\ \E k \in {"x", "n", "bs"}, ok \in Realoca : Turno(k, NULO, ok, FALSE)
Clique == \E p \in Pontos, ok \in Realoca, feito \in BOOLEAN :
            (feito => p \in UNION {Ctl[c].dentro : c \in Botoes}) /\ Turno("", p, ok, feito)
Ocioso == Turno("", NULO, TRUE, FALSE)

GuNext == Cria \/ AbreForma \/ Tecla \/ Clique \/ Ocioso

GuSpec == GuInit /\ [][GuNext]_guiVars

-----------------------------------------------------------------------------
GuTypeOK ==
  /\ gui.filhos \in 0..Len(Ctl) /\ gui.estado \in [DOMAIN Ctl -> 0..2]
  /\ gui.marcado \subseteq DOMAIN Ctl /\ gui.foco \in {NULO} \union DOMAIN Ctl
  /\ gui.botao \in 0..1 /\ gui.ultimo \in {NULO} \union Pontos
  /\ Len(gui.pilha) \in 1..MaxJanelas /\ IsInjective(gui.pilha)
  /\ gui.rolagem \in 0..MaxRolagem
  /\ Range(rt.registro) \subseteq DOMAIN Ctl /\ rt.timer \in 0..TURNOS
  /\ rt.foco \in {NULO} \union DOMAIN Ctl

(* A check box or radio button painted marked is marked for the application, and a  *)
(* check box the application holds marked is painted so, and a combo box shows the    *)
(* item the application has chosen: library and runtime each find the control under  *)
(* a click and toggle their own twin, with two separate debounces (last_buttons in   *)
(* input_events.c, mouse_hold_timer in the loop).                                    *)
TwinsAgree ==
  \A c \in Range(rt.registro) :
    /\ Tipo(c) = "check" => (MarcaPintada(c).marca <=> c \in rt.marcado)
    /\ Tipo(c) = "radio" => (MarcaPintada(c).marca => c \in rt.marcado)
    /\ Tipo(c) = "combo" /\ Ctl[c].itens > 0 => ComboPintado(c).texto[1] = rt.item[c] + 1

(* Once the hold timer of a click has run out (test.c:203-209) the library sees no   *)
(* button down, no control pressed and no window in drag, and no window was moved.   *)
NothingStaysPressed ==
  /\ rt.timer = 0 => /\ gui.botao = 0 /\ ~gui.arrasto
                      /\ \A c \in DOMAIN Ctl : ~BotaoPintado(c).fundo
  /\ gui.movidas = {}

(* A caret is only painted in the control that gets the keys: g_focused_control is   *)
(* set by the press and by the loop's rectangles, ActiveFocus by OS_ProcessMouseClick.*)
CaretWhereKeysGo ==
  \A c \in DOMAIN Ctl :
    /\ Tipo(c) = "memo" /\ MemoPintado(c).cursor => rt.foco = c
    /\ Tipo(c) = "edit" /\ EditPintado(c).cursor => rt.foco = c

(* The address the library keeps of a memo's text is that of its present buffer, and *)
(* the text with its terminator fits in it, through realloc and its failure           *)
(* (os_memo.c:69-90).                                                                 *)
MemoTextLive == OMemo # {} => gui.texto \in {NULO, rt.buffer} /\ Len(rt.memo) < rt.aloc

(* A memo with text always shows some of it: ScrollY is held to the lines there are   *)
(* when it is painted, whatever was typed, erased or scrolled since (gui.c:482-488).  *)
MemoShowsText == gui.rolagem < Total(TextoVisto(gui, rt))

(* What a memo paints is its text (os_memo.c:55-91, gui.c:436-490).                     *)
MemoSound == MemoTextLive /\ MemoShowsText
=============================================================================
