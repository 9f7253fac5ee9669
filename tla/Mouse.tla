------------------------------- MODULE Mouse -------------------------------
(***************************************************************************)
(* drivers/mouse.c: the IRQ12 handler assembles the mouse's four-byte      *)
(* packets, moves the pointer and keeps it on the screen.  A byte may be   *)
(* lost between the mouse and the handler (the controller has one byte of  *)
(* buffer and the keyboard shares its port).  Then bytes of two movements  *)
(* end up in one packet, until a byte without bit 3 meets cycle 0.         *)
(***************************************************************************)
EXTENDS Integers, Sequences

CONSTANTS
  Largura, Altura,   \* screen_width, screen_height
  Cabecas,           \* first bytes the mouse sends (bit 3 is always set)
  Deltas,            \* the other bytes it sends
  MaxTortos          \* bound of the two ghost counters

ASSUME ScreenAssumption == Largura \in Nat \ {0} /\ Altura \in Nat \ {0}
ASSUME BytesAssumption  == Cabecas \subseteq 0..255 /\ Deltas \subseteq 0..255
ASSUME BoundAssumption  == MaxTortos \in Nat

VARIABLES
  mouse_cycle, mouse_byte,
  mouse_x, mouse_y, mouse_buttons,
  proximo,      \* which byte of its packet the mouse sends next
  cabeca,       \* whether byte 0 of the packet being assembled was a first byte
  tortos,       \* mixed packets decoded since a byte was last lost
  enganos       \* data bytes with bit 3 that cycle 0 met since then

msVars == <<mouse_cycle, mouse_byte, mouse_x, mouse_y, mouse_buttons,
            proximo, cabeca, tortos, enganos>>

Bit(b, n) == (b \div 2^n) % 2 = 1

MsTypeOK ==
  /\ mouse_cycle \in 0..3
  /\ mouse_byte \in [0..2 -> 0..255]
  /\ mouse_x \in 0..(Largura - 1) /\ mouse_y \in 0..(Altura - 1)
  /\ mouse_buttons \in 0..7
  /\ proximo \in 0..3 /\ cabeca \in BOOLEAN
  /\ tortos \in Nat /\ enganos \in Nat

MsInit ==
  /\ mouse_cycle = 0
  /\ mouse_byte = [i \in 0..2 |-> 0]
  /\ mouse_x = Largura \div 2 /\ mouse_y = Altura \div 2
  /\ mouse_buttons = 0
  /\ proximo = 0
  /\ cabeca = FALSE
  /\ tortos = 0 /\ enganos = 0

(* A movement: eight bits and a sign bit in the first byte, which is or-ed *)
(* into a value that is sign-extended already.                             *)
Deslocamento(b, negativo) == IF negativo \/ Bit(b, 7) THEN b - 256 ELSE b

Limita(v, tamanho) == IF v < 0 THEN 0 ELSE IF v >= tamanho THEN tamanho - 1 ELSE v

(* Mutant of Sincroniza: cycle 0 takes any byte. *)
SincronizaNunca(b) == TRUE

(* Cycle 0 takes only a byte with bit 3 set. *)
Sincroniza(b) == Bit(b, 3)

Conta(n, mais) == IF mais /\ n < MaxTortos THEN n + 1 ELSE n

(* mouse_handler with byte b, which is byte `proximo` of the mouse's packet. *)
Handler(b) ==
  /\ \/ /\ mouse_cycle = 0
        /\ IF Sincroniza(b)
           THEN /\ mouse_byte' = [mouse_byte EXCEPT ![0] = b]
                /\ mouse_cycle' = 1
                /\ cabeca' = (proximo = 0)
                /\ enganos' = Conta(enganos, proximo # 0 /\ Bit(b, 3))
           ELSE UNCHANGED <<mouse_byte, mouse_cycle, cabeca, enganos>>
        /\ UNCHANGED <<mouse_x, mouse_y, mouse_buttons, tortos>>
     \/ /\ mouse_cycle \in {1, 2}
        /\ mouse_byte' = [mouse_byte EXCEPT ![mouse_cycle] = b]
        /\ mouse_cycle' = mouse_cycle + 1
        /\ UNCHANGED <<cabeca, enganos, mouse_x, mouse_y, mouse_buttons, tortos>>
     \/ /\ mouse_cycle = 3
        /\ mouse_cycle' = 0
        /\ mouse_buttons' = mouse_byte[0] % 8
        /\ mouse_x' = Limita(mouse_x + Deslocamento(mouse_byte[1], Bit(mouse_byte[0], 4)), Largura)
        /\ mouse_y' = Limita(mouse_y - Deslocamento(mouse_byte[2], Bit(mouse_byte[0], 5)), Altura)
        /\ tortos' = Conta(tortos, ~cabeca \/ proximo # 3)
        /\ UNCHANGED <<mouse_byte, cabeca, enganos>>
  /\ proximo' = (proximo + 1) % 4

(* A byte of the mouse reaches the handler ... *)
ByteMouse == \E b \in IF proximo = 0 THEN Cabecas ELSE Deltas : Handler(b)

(* ... or is lost. *)
PerdeByte ==
  /\ proximo' = (proximo + 1) % 4
  /\ tortos' = 0 /\ enganos' = 0
  /\ UNCHANGED <<mouse_cycle, mouse_byte, mouse_x, mouse_y, mouse_buttons, cabeca>>

(* mouse_set_screen_size puts the pointer in the middle again. *)
TrocaResolucao ==
  /\ mouse_x' = Largura \div 2 /\ mouse_y' = Altura \div 2
  /\ UNCHANGED <<mouse_cycle, mouse_byte, mouse_buttons, proximo, cabeca, tortos, enganos>>

MsNext == ByteMouse \/ PerdeByte \/ TrocaResolucao

MsSpec == MsInit /\ [][MsNext]_msVars

-----------------------------------------------------------------------------
(* A lost byte costs one packet: after it the handler decodes one packet of  *)
(* mixed movements, and one more only for each data byte that passed for a   *)
(* first byte.                                                               *)
ShiftHeals == enganos < MaxTortos => tortos <= 1 + enganos
=============================================================================
