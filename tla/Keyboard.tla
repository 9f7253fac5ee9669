------------------------------ MODULE Keyboard ------------------------------
(***************************************************************************)
(* drivers/keyboard.c: the IRQ1 handler translates scancodes and pushes    *)
(* characters into one ring that every reader pops: SYS_GET_KEY and the    *)
(* shell one character at a time, keyboard_vfs_read (fd 0) in a loop.      *)
(* process_spawn_pending gives the focus to a new child and then empties   *)
(* the ring, one interruptible pop at a time.                              *)
(*                                                                         *)
(* The layout tables are abstracted to a letter, a digit, ENTER and a key  *)
(* without a character.                                                    *)
(***************************************************************************)
EXTENDS Integers, Sequences, FiniteSets

CONSTANTS
  KbSize,      \* KEYBOARD_BUFFER_SIZE
  Leitores,    \* processes that read the keyboard
  Teclas,      \* keys pressed: of "letra", "digito", "enter" and "muda" (no character)
  MaxTeclas    \* bound: characters stored

ASSUME KbSizeAssumption == KbSize \in Nat \ {0, 1}

VARIABLES
  buffer, head, tail,   \* circular_buffer and its two indices
  shift, caps,          \* shift_pressed, caps_lock_active
  seguras,              \* the shift keys physically held down
  foco,                 \* foreground_process, or "ninguem"
  drenando,             \* the child for which the ring is being emptied, or "ninguem"
  pedidos,              \* per reader: bytes keyboard_vfs_read has still to deliver
  antes,                \* characters stored before the last hand-over of the focus
  guardadas,            \* every character stored so far
  tiradas               \* every character popped so far, by anybody

kbVars == <<buffer, head, tail, shift, caps, seguras, foco, drenando, pedidos,
            antes, guardadas, tiradas>>

Shifts == {"lshift", "rshift"}
Quem   == Leitores \cup {"ninguem"}

Caracteres == [tecla : Teclas \cup {"muda"}, alto : BOOLEAN]
Nulo       == [tecla |-> "muda", alto |-> FALSE]

Seguinte(i) == (i + 1) % KbSize

KbTypeOK ==
  /\ buffer \in [0..(KbSize - 1) -> Caracteres]
  /\ head \in 0..(KbSize - 1) /\ tail \in 0..(KbSize - 1)
  /\ shift \in BOOLEAN /\ caps \in BOOLEAN
  /\ seguras \subseteq Shifts
  /\ foco \in Quem /\ drenando \in Quem
  /\ pedidos \in [Leitores -> Nat]
  /\ antes \in Nat /\ guardadas \in Seq(Caracteres) /\ tiradas \in Seq(Caracteres)

KbInit ==
  /\ buffer = [i \in 0..(KbSize - 1) |-> Nulo]
  /\ head = 0 /\ tail = 0
  /\ shift = FALSE /\ caps = FALSE
  /\ seguras = {}
  /\ foco \in Leitores
  /\ drenando = "ninguem"
  /\ pedidos = [p \in Leitores |-> 0]
  /\ antes = 0 /\ guardadas = <<>> /\ tiradas = <<>>

(* What the map and the caps lock make of a key: capitals and shifted signs. *)
Alto(t) == CASE t = "letra" -> shift \/ caps
             [] t = "enter" -> FALSE
             [] OTHER       -> shift

(* Mutant of CabeTecla: the handler does not look for a full ring. *)
CabeSempre == TRUE

(* keyboard_push_char drops a character when only one slot is left. *)
CabeTecla == Seguinte(head) # tail

(* An IRQ1 with the make code of a key that is not a modifier. *)
Aperta(t) ==
  /\ Len(guardadas) < MaxTeclas
  /\ IF t # "muda" /\ foco # "ninguem" /\ CabeTecla
     THEN LET c == [tecla |-> t, alto |-> Alto(t)]
          IN  /\ buffer' = [buffer EXCEPT ![head] = c]
              /\ head' = Seguinte(head)
              /\ guardadas' = Append(guardadas, c)
     ELSE UNCHANGED <<buffer, head, guardadas>>
  /\ UNCHANGED <<tail, shift, caps, seguras, foco, drenando, pedidos, antes, tiradas>>

ApertaShift(k) ==
  /\ seguras' = seguras \cup {k}
  /\ shift' = TRUE
  /\ UNCHANGED <<buffer, head, tail, caps, foco, drenando, pedidos, antes, guardadas, tiradas>>

(* The release of either shift key clears the flag, whatever the other does. *)
SoltaShift(k) ==
  /\ k \in seguras
  /\ seguras' = seguras \ {k}
  /\ shift' = FALSE
  /\ UNCHANGED <<buffer, head, tail, caps, foco, drenando, pedidos, antes, guardadas, tiradas>>

ApertaCaps ==
  /\ caps' = ~caps
  /\ UNCHANGED <<buffer, head, tail, shift, seguras, foco, drenando, pedidos,
                 antes, guardadas, tiradas>>

Vazia == head = tail

(* keyboard_pop_char of a ring that holds something, under cli. *)
Tira ==
  /\ ~Vazia
  /\ tail' = Seguinte(tail)
  /\ tiradas' = Append(tiradas, buffer[tail])

(* SYS_GET_KEY, and the shell's loop: whoever asks gets the next character. *)
PegaTecla(p) ==
  /\ pedidos[p] = 0
  /\ Tira
  /\ UNCHANGED <<buffer, head, shift, caps, seguras, foco, drenando, pedidos, antes, guardadas>>

(* sys_read(0, ...) enters keyboard_vfs_read. *)
PedeLinha(p) ==
  /\ pedidos[p] = 0
  /\ \E size \in 1..2 : pedidos' = [pedidos EXCEPT ![p] = size]
  /\ UNCHANGED <<buffer, head, tail, shift, caps, seguras, foco, drenando,
                 antes, guardadas, tiradas>>

(* One turn of its loop.  ENTER ends the read; an empty ring gives the CPU up. *)
LeLinha(p) ==
  /\ pedidos[p] > 0
  /\ Tira
  /\ pedidos' = [pedidos EXCEPT ![p] = IF buffer[tail].tecla = "enter" THEN 0 ELSE @ - 1]
  /\ UNCHANGED <<buffer, head, shift, caps, seguras, foco, drenando, antes, guardadas>>

(* process_spawn_pending, the parent having the focus: the child takes it ... *)
PassaFoco(filho) ==
  /\ drenando = "ninguem" /\ foco # filho
  /\ foco' = filho
  /\ drenando' = filho
  /\ antes' = Len(guardadas)
  /\ UNCHANGED <<buffer, head, tail, shift, caps, seguras, pedidos, guardadas, tiradas>>

(* Mutant of Drena: the ring is left as it is. *)
DrenaNada ==
  /\ drenando # "ninguem"
  /\ drenando' = "ninguem"
  /\ UNCHANGED <<tail, tiradas>>
  /\ UNCHANGED <<buffer, head, shift, caps, seguras, foco, pedidos, antes, guardadas>>

(* ... and App_Exec pops until keyboard_pop_char answers 0. *)
Drena ==
  /\ drenando # "ninguem"
  /\ \/ Tira /\ UNCHANGED drenando
     \/ Vazia /\ drenando' = "ninguem" /\ UNCHANGED <<tail, tiradas>>
  /\ UNCHANGED <<buffer, head, shift, caps, seguras, foco, pedidos, antes, guardadas>>

(* kill_process and SYS_EXIT give the focus back without emptying the ring. *)
DevolveFoco(pai) ==
  /\ foco' = pai
  /\ UNCHANGED <<buffer, head, tail, shift, caps, seguras, drenando, pedidos,
                 antes, guardadas, tiradas>>

KbNext ==
  \/ \E t \in Teclas : Aperta(t)
  \/ \E k \in Shifts : ApertaShift(k) \/ SoltaShift(k)
  \/ ApertaCaps
  \/ \E p \in Leitores : PegaTecla(p) \/ PedeLinha(p) \/ LeLinha(p) \/ PassaFoco(p)
  \/ Drena
  \/ \E p \in Quem : DevolveFoco(p)

KbSpec == KbInit /\ [][KbNext]_kbVars

-----------------------------------------------------------------------------
(* What the ring holds, oldest first. *)
NoAnel ==
  LET n == (head - tail + KbSize) % KbSize
  IN  [k \in 1..n |-> buffer[(tail + k - 1) % KbSize]]

(* Interrupt handler and readers share the two indices: a character the      *)
(* handler stored is popped once, in the order of typing, or is still in the *)
(* ring.                                                                     *)
TypedInOrder == guardadas = tiradas \o NoAnel

(* The child that was handed the focus starts clean: when App_Exec has       *)
(* finished with the ring, every key typed before the hand-over is out of    *)
(* it, whoever else typed, read or lost the focus meanwhile.                 *)
ChildStartsClean ==
  [][drenando # "ninguem" /\ drenando' = "ninguem" => Len(tiradas') >= antes]_kbVars
=============================================================================
