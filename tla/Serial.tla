------------------------------- MODULE Serial -------------------------------
(***************************************************************************)
(* drivers/hw/serial.c, drivers/hw/pic.c, the serial system calls of       *)
(* drivers/syscall.c, the IRQ4 stub of idt.c, and the TOSSerial objects of *)
(* the applications (Runtime/components/TOSSerial.c).                      *)
(*                                                                         *)
(* COM1 and COM3 share IRQ4, COM2 and COM4 share IRQ3.  init_idt programs  *)
(* the PICs for edges, so a line requests an interrupt only when it rises, *)
(* and the handler of IRQ4 drains COM1 alone.  IRQ3 has no gate in the IDT.*)
(* A system call runs with interrupts disabled: it is one step.            *)
(***************************************************************************)
EXTENDS Integers, Sequences, FiniteSets

CONSTANTS
  Portas,     \* port numbers the applications use, of 1..4
  Donos,      \* applications, each with one TOSSerial object
  FifoSize,   \* bytes the UART keeps
  RxSize,     \* length of rx_buffer, which holds one byte less
  Bauds       \* baud rates the applications ask for

ASSUME PortasAssumption == Portas \subseteq 1..4 /\ Portas # {}
ASSUME RxAssumption     == RxSize \in Nat \ {0, 1} /\ FifoSize \in Nat \ {0}

VARIABLES
  in_use, rx, ier,   \* per port: the lock, bytes in rx_buffer, the UART's IER
  divisor,           \* per port: what the divisor latch was loaded with
  fifo,              \* per port: bytes waiting in the UART
  mascara,           \* the IRQs the PIC masks
  irr,               \* the IRQs requested and not served
  nivel,             \* the IRQs whose line is high
  objeto,            \* per application: its TOSSerial
  passo,             \* per application: inside OS_Serial_SetBaud, or outside
  parado,            \* an interrupt came without a gate
  aberta3            \* another port of COM1's line has been opened

seVars == <<in_use, rx, ier, divisor, fifo, mascara, irr, nivel, objeto, passo,
            parado, aberta3>>

Irq(n) == IF n \in {1, 3} THEN 4 ELSE 3
Linhas == {3, 4}
Fechado == [Handle |-> -1, Active |-> FALSE, PortNumber |-> 1, BaudRate |-> 9600]

SeTypeOK ==
  /\ in_use \in [Portas -> BOOLEAN] /\ ier \in [Portas -> BOOLEAN]
  /\ rx \in [Portas -> 0..(RxSize - 1)] /\ fifo \in [Portas -> 0..FifoSize]
  /\ divisor \in [Portas -> 0..65535]
  /\ mascara \subseteq Linhas /\ irr \subseteq Linhas /\ nivel \subseteq Linhas
  /\ \A d \in Donos : /\ objeto[d].Handle \in -2..3 /\ objeto[d].Active \in BOOLEAN
                      /\ passo[d] \in {"fora", "reabre"}
  /\ parado \in BOOLEAN /\ aberta3 \in BOOLEAN

(* init_idt unmasks IRQ4 and leaves IRQ3 masked. *)
SeInit ==
  /\ in_use = [n \in Portas |-> FALSE] /\ ier = [n \in Portas |-> FALSE]
  /\ rx = [n \in Portas |-> 0] /\ fifo = [n \in Portas |-> 0]
  /\ divisor = [n \in Portas |-> 1]
  /\ mascara = {3} /\ irr = {} /\ nivel = {}
  /\ objeto = [d \in Donos |-> Fechado]
  /\ passo = [d \in Donos |-> "fora"]
  /\ parado = FALSE /\ aberta3 = FALSE

(* The lines that are high, and the requests their edges latch. *)
Alta(i, e, f) == \E n \in Portas : Irq(n) = i /\ e[n] /\ f[n] > 0

Fios(e, f) ==
  LET altas == {i \in Linhas : Alta(i, e, f)}
  IN  nivel' = altas /\ irr' = irr \cup (altas \ nivel)

(* The divisor latch has sixteen bits; baud 0 stands for 9600. *)
Divisor(baud) == (115200 \div (IF baud = 0 THEN 9600 ELSE baud)) % 2^16

(* Mutant of Desmascara: driver_serial_init is not followed by pic_unmask. *)
DesmascaraNada(i) == mascara' = mascara

Desmascara(i) == mascara' = mascara \ {i}

(* Mutant of Ocupada: SYS_SERIAL_OPEN does not look at the lock. *)
OcupadaNunca(n) == FALSE

Ocupada(n) == in_use[n]

(* driver_serial_init: ring and UART FIFO are emptied, the receive interrupt is *)
(* enabled in the chip.                                                          *)
DriverInit(n, baud) ==
  /\ rx' = [rx EXCEPT ![n] = 0]
  /\ divisor' = [divisor EXCEPT ![n] = Divisor(baud)]
  /\ fifo' = [fifo EXCEPT ![n] = 0]
  /\ ier' = [ier EXCEPT ![n] = TRUE]
  /\ Fios([ier EXCEPT ![n] = TRUE], [fifo EXCEPT ![n] = 0])

(* SYS_SERIAL_OPEN: answers the index, -2 for a busy port. *)
SysOpen(n, baud, h) ==
  \/ /\ Ocupada(n) /\ h = -2
     /\ UNCHANGED <<in_use, rx, ier, divisor, fifo, mascara, irr, nivel, aberta3>>
  \/ /\ ~Ocupada(n) /\ h = n - 1
     /\ in_use' = [in_use EXCEPT ![n] = TRUE]
     /\ DriverInit(n, baud)
     /\ Desmascara(Irq(n))
     /\ aberta3' = (aberta3 \/ n = 3)

(* SYS_SERIAL_CLOSE of an open port: masks the whole line. *)
SysClose(n) ==
  /\ ier' = [ier EXCEPT ![n] = FALSE]
  /\ Fios([ier EXCEPT ![n] = FALSE], fifo)
  /\ mascara' = mascara \cup {Irq(n)}
  /\ rx' = [rx EXCEPT ![n] = 0]
  /\ in_use' = [in_use EXCEPT ![n] = FALSE]
  /\ UNCHANGED <<divisor, fifo, aberta3>>

-----------------------------------------------------------------------------
(* TOSSerial *)

DonoLivre(d) == ~parado /\ passo[d] = "fora"

(* OS_Serial_Open of an object that is not active. *)
Open(d) ==
  /\ DonoLivre(d) /\ ~objeto[d].Active
  /\ \E n \in Portas, baud \in Bauds : \E h \in {-2, n - 1} :
       /\ SysOpen(n, baud, h)
       /\ objeto' = [objeto EXCEPT ![d] =
                       [Handle |-> h, Active |-> h >= 0, PortNumber |-> n, BaudRate |-> baud]]
  /\ UNCHANGED <<passo, parado>>

(* OS_Serial_Close: the system call finds the port in use or answers 0 at once. *)
Close(d) ==
  /\ DonoLivre(d) /\ objeto[d].Active /\ objeto[d].Handle >= 0
  /\ objeto' = [objeto EXCEPT ![d].Active = FALSE, ![d].Handle = -1]
  /\ LET n == objeto[d].Handle + 1
     IN  IF in_use[n] THEN SysClose(n)
         ELSE UNCHANGED <<in_use, rx, ier, divisor, fifo, mascara, irr, nivel, aberta3>>
  /\ UNCHANGED <<passo, parado>>

(* OS_Serial_SetBaud of an open port: close ... *)
SetBaudFecha(d) ==
  /\ DonoLivre(d) /\ objeto[d].Active /\ objeto[d].Handle >= 0
  /\ \E baud \in Bauds : objeto' = [objeto EXCEPT ![d].BaudRate = baud]
  /\ passo' = [passo EXCEPT ![d] = "reabre"]
  /\ LET n == objeto[d].Handle + 1
     IN  IF in_use[n] THEN SysClose(n)
         ELSE UNCHANGED <<in_use, rx, ier, divisor, fifo, mascara, irr, nivel, aberta3>>
  /\ UNCHANGED parado

(* ... and open again; the answer is stored without a look at it. *)
SetBaudReabre(d) ==
  /\ ~parado /\ passo[d] = "reabre"
  /\ \E h \in {-2, objeto[d].PortNumber - 1} :
       /\ SysOpen(objeto[d].PortNumber, objeto[d].BaudRate, h)
       /\ objeto' = [objeto EXCEPT ![d].Handle = h]
  /\ passo' = [passo EXCEPT ![d] = "fora"]
  /\ UNCHANGED parado

(* OS_Serial_Read: SYS_SERIAL_READ delivers what the ring holds, up to max_len. *)
Read(d) ==
  /\ DonoLivre(d) /\ objeto[d].Active /\ objeto[d].Handle >= 0
  /\ LET n == objeto[d].Handle + 1
     IN  /\ in_use[n]
         /\ \E lidos \in 0..rx[n] : rx' = [rx EXCEPT ![n] = @ - lidos]
  /\ UNCHANGED <<in_use, ier, divisor, fifo, mascara, irr, nivel, objeto, passo, parado, aberta3>>

(* The application exits or is killed: its object goes, the port stays open. *)
Morre(d) ==
  /\ ~parado
  /\ objeto' = [objeto EXCEPT ![d] = Fechado]
  /\ passo' = [passo EXCEPT ![d] = "fora"]
  /\ UNCHANGED <<in_use, rx, ier, divisor, fifo, mascara, irr, nivel, parado, aberta3>>

-----------------------------------------------------------------------------
(* The hardware *)

(* A byte arrives on the wire. *)
Chega(n) ==
  /\ ~parado /\ fifo[n] < FifoSize
  /\ fifo' = [fifo EXCEPT ![n] = @ + 1]
  /\ Fios(ier, [fifo EXCEPT ![n] = @ + 1])
  /\ UNCHANGED <<in_use, rx, ier, divisor, mascara, objeto, passo, parado, aberta3>>

(* driver_serial_handle_interrupt reads until the UART is empty; a byte that *)
(* finds rx_buffer full is dropped.                                          *)
Guarda(n) ==
  /\ rx' = [rx EXCEPT ![n] = IF @ + fifo[n] < RxSize THEN @ + fifo[n] ELSE RxSize - 1]
  /\ fifo' = [fifo EXCEPT ![n] = 0]

(* IRQ4: isr_serial serves system_serial_ports[0], open or not; then the EOI. *)
Irq4 ==
  /\ ~parado /\ 4 \in irr \ mascara
  /\ IF 1 \in Portas THEN Guarda(1) ELSE UNCHANGED <<rx, fifo>>
  /\ nivel' = {i \in Linhas : Alta(i, ier, fifo')}
  /\ irr' = irr \ {4}
  /\ UNCHANGED <<in_use, ier, divisor, mascara, objeto, passo, parado, aberta3>>

(* IRQ3: vector 35 has no gate, the CPU faults. *)
Irq3 ==
  /\ ~parado /\ 3 \in irr \ mascara
  /\ parado' = TRUE
  /\ UNCHANGED <<in_use, rx, ier, divisor, fifo, mascara, irr, nivel, objeto, passo, aberta3>>

SeNext ==
  \/ \E d \in Donos : \/ Open(d) \/ Close(d) \/ SetBaudFecha(d) \/ SetBaudReabre(d)
                      \/ Read(d) \/ Morre(d)
  \/ \E n \in Portas : Chega(n)
  \/ Irq4
  \/ Irq3

SeSpec == SeInit /\ [][SeNext]_seVars

-----------------------------------------------------------------------------
(* Two applications never hold the same port, not even around the close and  *)
(* open of OS_Serial_SetBaud.                                                *)
OneHolderPerPort ==
  \A d, e \in Donos : d # e /\ objeto[d].Active /\ objeto[e].Active
                      /\ objeto[d].Handle >= 0 /\ objeto[d].Handle = objeto[e].Handle
                      => "reabre" \in {passo[d], passo[e]}

(* OS_Serial_SetBaud promises a transparent hot-swap: an active object keeps *)
(* a port.                                                                   *)
HotSwapKeepsPort ==
  \A d \in Donos : objeto[d].Active /\ passo[d] = "fora" => objeto[d].Handle >= 0

(* A byte in COM1's UART while the port is open is fetched, whatever was     *)
(* opened, closed and masked before, as long as COM3 was never opened: IRQ4  *)
(* is its alone and each edge finds the line unmasked.                       *)
Com1Delivered ==
  (1 \in Portas /\ in_use[1] /\ fifo[1] > 0) ~> (~in_use[1] \/ fifo[1] = 0 \/ aberta3 \/ parado)
=============================================================================
