------------------------------- MODULE Uart --------------------------------
(***************************************************************************)
(* The PL011 driver of arch/aarch64/plat/raspi3/uart/uart.c and the        *)
(* device.  The interrupt handler moves received characters to the ring    *)
(* pl011_buffer; nb_uart_recv takes them from it, one step per load or     *)
(* store of shared data (the kernel is built without optimisation).        *)
(* Interrupts says who runs when.                                          *)
(*                                                                         *)
(* The FIFOs of the device are on, as early_uart_init of the boot code     *)
(* leaves them, or off if uart_init has been called.  A character is the   *)
(* number of its arrival.                                                  *)
(***************************************************************************)
EXTENDS Integers, Sequences

CONSTANTS
  UART_BUF_LEN,
  FIFO_LEN,     \* the characters a FIFO holds when it is on
  RX_TRIGGER,   \* ... and the fill level that interrupts, for IFLS = 0
  MaxChars,     \* a bound on the characters that arrive
  None

ASSUME UartAssumption ==
  /\ UART_BUF_LEN \in Nat /\ UART_BUF_LEN > 1
  /\ MaxChars \in Nat /\ FIFO_LEN \in Nat
  /\ RX_TRIGGER \in 1 .. FIFO_LEN

VARIABLES
  fen,       \* bit 4 of LCRH: are the FIFOs on?
  rx,        \* the receive FIFO (empty: FR bit 4, RXFE, is set)
  ris,       \* the raw receive interrupt
  imsc,      \* is it enabled in IMSC?
  txff,      \* FR bit 5: the transmit FIFO is full
  buffer, read_pos, put_pos,   \* pl011_buffer
  fg,        \* the call the interrupted code is in: [pc, reg, ch]
  input,     \* the local of uart_irq_handler
  arrived,   \* characters received so far
  stored,    \* ... put in the ring
  taken,     \* ... returned by nb_uart_recv, and the last of them
  last,
  drops,     \* times uart_irq_handler found the ring full
  puts,      \* characters stored during this call of nb_uart_recv, up to 2
  lapped     \* were two stored during one call, ever?

device == <<fen, rx, ris, imsc, txff>>
ring == <<buffer, read_pos, put_pos>>
history == <<stored, taken, last, drops, puts, lapped>>
uartVars == <<device, ring, fg, input, arrived, history>>

Chars == 1 .. MaxChars
InRecv == fg.pc \in {"put_pos", "index", "char", "load", "store", "check", "wrap"}

(***************************************************************************)
(* The device                                                              *)
(***************************************************************************)
Depth == IF fen THEN FIFO_LEN ELSE 1
Trigger == IF fen THEN RX_TRIGGER ELSE 1

\* The receive interrupt is raised when the FIFO reaches its trigger level; a
\* character that finds it full is lost (overrun).
Arrive ==
  /\ arrived < MaxChars
  /\ arrived' = arrived + 1
  /\ rx' = IF Len(rx) < Depth THEN Append(rx, arrived + 1) ELSE rx
  /\ ris' = (ris \/ Len(rx) + 1 = Trigger)
  /\ UNCHANGED <<fen, imsc, txff, ring, fg, input, history>>

Transmit ==
  /\ txff
  /\ txff' = FALSE
  /\ UNCHANGED <<fen, rx, ris, imsc, ring, fg, input, arrived, history>>

\* A read takes the oldest character, and ends the interrupt once the FIFO is
\* below the trigger level.
ReadDR ==
  /\ rx' = IF rx = <<>> THEN rx ELSE Tail(rx)
  /\ ris' = (ris /\ Len(rx) > Trigger)

DR == IF rx = <<>> THEN None ELSE Head(rx)

\* The transmit FIFO has room for an unknown number of characters.
WriteDR == txff' \in BOOLEAN

(***************************************************************************)
(* Initialisation                                                          *)
(***************************************************************************)
UartInit ==
  /\ fen = TRUE
  /\ rx = <<>> /\ ris = FALSE /\ imsc = FALSE /\ txff = FALSE
  /\ buffer = [i \in 0 .. UART_BUF_LEN - 1 |-> None]
  /\ read_pos = 0 /\ put_pos = 0
  /\ fg = [pc |-> "boot", reg |-> None, ch |-> None]
  /\ input = None /\ arrived = 0
  /\ stored = 0 /\ taken = 0 /\ last = 0 /\ drops = 0 /\ puts = 0 /\ lapped = FALSE

\* Switching the FIFOs off empties them.
uart_init ==
  /\ fg.pc = "boot"
  /\ fen' = FALSE /\ rx' = <<>> /\ ris' = FALSE /\ imsc' = FALSE
  /\ WriteDR
  /\ UNCHANGED <<ring, fg, input, arrived, history>>

\* Writing ICR ends the interrupt, but leaves the received characters.
enable_uart_irq ==
  /\ ris' = FALSE /\ imsc' = TRUE
  /\ read_pos' = 0 /\ put_pos' = 0
  /\ UNCHANGED <<fen, rx, txff, buffer, input, arrived, history>>

(***************************************************************************)
(* uart_irq_handler.  Interrupts are masked, so that its accesses to the   *)
(* ring are one step.                                                      *)
(***************************************************************************)
\* Variant: ICR is written after the read (the line that is commented out).
HandlerReadClear ==
  /\ input' = DR
  /\ rx' = (IF rx = <<>> THEN rx ELSE Tail(rx)) /\ ris' = FALSE
  /\ UNCHANGED <<fen, imsc, txff, ring, fg, arrived, history>>

HandlerRead ==
  /\ input' = DR
  /\ ReadDR
  /\ UNCHANGED <<fen, imsc, txff, ring, fg, arrived, history>>

\* The wait for FR bit 5 is the guard: nobody else writes while a handler runs.
uart_send == ~txff /\ WriteDR

\* Variant: the end is reached one place late.
WrapLate(pos) == IF pos = UART_BUF_LEN THEN 0 ELSE pos + 1

Wrap(pos) == IF pos + 1 = UART_BUF_LEN THEN 0 ELSE pos + 1

\* Variant: a full ring is not noticed.
HandlerStoreNoDrop ==
  /\ buffer' = [buffer EXCEPT ![put_pos] = input]
  /\ put_pos' = Wrap(put_pos)
  /\ stored' = stored + 1
  /\ puts' = IF InRecv /\ puts < 2 THEN puts + 1 ELSE puts
  /\ lapped' = (lapped \/ puts' = 2)
  /\ UNCHANGED <<device, read_pos, fg, input, arrived, taken, last, drops>>

HandlerStore ==
  LET put == Wrap(put_pos)
      full == read_pos = put
  IN  /\ buffer' = [buffer EXCEPT ![put_pos] = input]
      /\ put_pos' = put
      /\ read_pos' = IF full THEN Wrap(read_pos) ELSE read_pos
      /\ drops' = IF full THEN drops + 1 ELSE drops
      /\ stored' = stored + 1
      /\ puts' = IF InRecv /\ puts < 2 THEN puts + 1 ELSE puts
      /\ lapped' = (lapped \/ puts' = 2)
      /\ UNCHANGED <<device, fg, input, arrived, taken, last>>

(***************************************************************************)
(* The calls of the code that interrupts                                   *)
(***************************************************************************)
Goto(pc) == fg' = [fg EXCEPT !.pc = pc]
Load(pc, value) == fg' = [fg EXCEPT !.pc = pc, !.reg = value]
Idle == fg' = [pc |-> "idle", reg |-> None, ch |-> None]

\* nb_uart_recv returns NB_UART_NRET, or the character in ch.
ReturnNone == Idle /\ puts' = 0 /\ UNCHANGED <<taken, last, lapped>>
ReturnChar ==
  /\ Idle
  /\ taken' = taken + 1 /\ last' = fg.ch /\ puts' = 0
  /\ UNCHANGED lapped

RecvEmpty ==
  \/ fg.pc = "idle" /\ Load("put_pos", read_pos) /\ UNCHANGED <<taken, last, puts, lapped>>
  \/ fg.pc = "put_pos" /\ fg.reg = put_pos /\ ReturnNone
  \/ /\ fg.pc = "put_pos" /\ fg.reg # put_pos
     /\ Goto("index")
     /\ UNCHANGED <<taken, last, puts, lapped>>

\* Variant: the position is incremented before the character is read.
RecvCharPreIncrement ==
  \/ fg.pc = "index" /\ Load("char", read_pos)
  \/ fg.pc = "char" /\ fg' = [fg EXCEPT !.pc = "load", !.ch = buffer[Wrap(fg.reg)]]
  \/ fg.pc = "load" /\ Load("store", read_pos)

RecvChar ==
  \/ fg.pc = "index" /\ Load("char", read_pos)
  \/ fg.pc = "char" /\ fg' = [fg EXCEPT !.pc = "load", !.ch = buffer[fg.reg]]
  \/ fg.pc = "load" /\ Load("store", read_pos)

RecvAdvance ==
  \/ /\ fg.pc = "store"
     /\ read_pos' = fg.reg + 1
     /\ Goto("check")
     /\ UNCHANGED <<taken, last, puts, lapped>>
  \/ /\ fg.pc = "check" /\ read_pos = UART_BUF_LEN
     /\ Goto("wrap")
     /\ UNCHANGED <<read_pos, taken, last, puts, lapped>>
  \/ fg.pc = "check" /\ read_pos # UART_BUF_LEN /\ ReturnChar /\ UNCHANGED read_pos
  \/ fg.pc = "wrap" /\ read_pos' = 0 /\ ReturnChar

nb_uart_recv ==
  /\ \/ RecvEmpty /\ UNCHANGED read_pos
     \/ RecvChar /\ UNCHANGED <<read_pos, taken, last, puts, lapped>>
     \/ RecvAdvance
  /\ UNCHANGED <<device, buffer, put_pos, input, arrived, stored, drops>>

\* uart_send, called by the code that interrupts.
SendCall ==
  /\ \/ fg.pc = "idle" /\ Goto("send_wait") /\ UNCHANGED txff
     \/ fg.pc = "send_wait" /\ ~txff /\ Goto("send") /\ UNCHANGED txff
     \/ fg.pc = "send" /\ WriteDR /\ Idle
  /\ UNCHANGED <<fen, rx, ris, imsc, ring, input, arrived, history>>

\* Variant: the wait for FR bit 4 is gone.
uart_recvNoWait ==
  /\ \/ fg.pc = "idle" /\ Goto("recv_wait") /\ UNCHANGED <<rx, ris>>
     \/ fg.pc = "recv_wait" /\ Goto("recv") /\ UNCHANGED <<rx, ris>>
     \/ fg.pc = "recv" /\ ReadDR /\ Idle
  /\ UNCHANGED <<fen, imsc, txff, ring, input, arrived, history>>

uart_recv ==
  /\ \/ fg.pc = "idle" /\ Goto("recv_wait") /\ UNCHANGED <<rx, ris>>
     \/ fg.pc = "recv_wait" /\ rx # <<>> /\ Goto("recv") /\ UNCHANGED <<rx, ris>>
     \/ fg.pc = "recv" /\ ReadDR /\ Idle
  /\ UNCHANGED <<fen, imsc, txff, ring, input, arrived, history>>

\* The loops that read FR once more.
Spinning ==
  \/ fg.pc = "send_wait" /\ txff
  \/ fg.pc = "recv_wait" /\ rx = <<>>

=============================================================================
