----------------------------- MODULE Interrupts ----------------------------
(***************************************************************************)
(* The interrupts of core 0: the interrupt controller and plat_handle_irq  *)
(* (plat/raspi3/irq/irq.c), the generic timer (plat/raspi3/irq/timer.c),   *)
(* the mask bit of irq.S, and the UART driver both as the handler and as   *)
(* the code that is interrupted.                                           *)
(*                                                                         *)
(* main runs arch_interrupt_init and timer_init and leaves interrupts      *)
(* masked.  What follows is any use of the interfaces of io/uart.h,        *)
(* irq/irq.h and irq/timer.h: enable_irq, disable_irq, the UART calls and  *)
(* plat_set_next_timer in any order.                                       *)
(***************************************************************************)
EXTENDS Uart, FiniteSets

CONSTANTS IRQ_USB, IRQ_UART   \* the interrupt numbers 9 and 57

VARIABLES
  masked,    \* DAIF.I
  once,      \* the static of interrupt_init
  enabled,   \* the interrupts switched on with ENABLE1 and ENABLE2
  usb,       \* the USB controller's interrupt line
  timer,     \* [on, expired]: cntp_ctl_el0 and the comparison with the counter
  slack,     \* has the processor done other work since the timer was set?
  pc,        \* where the handler is, "none" if it does not run
  early,     \* was a character in the FIFO when enable_uart_irq cleared ICR?
  clean      \* has no interrupt been taken since the FR check of the UART call?

irqVars == <<masked, once, enabled, usb, timer, slack, pc, early, clean>>
vars == <<uartVars, irqVars>>

Init ==
  /\ UartInit
  /\ masked = TRUE /\ once = 1 /\ enabled = {} /\ usb = FALSE
  /\ timer = [on |-> FALSE, expired |-> FALSE] /\ slack = FALSE
  /\ pc = "none" /\ early = FALSE /\ clean = TRUE

(***************************************************************************)
(* The hardware                                                            *)
(***************************************************************************)
UartPending == ris /\ imsc /\ IRQ_UART \in enabled          \* bit 25 of PENDING2
GpuPending == UartPending \/ (usb /\ IRQ_USB \in enabled)    \* bit 8 of the source register
TimerPending == timer.on /\ timer.expired                   \* bit 1: INT_SRC_TIMER1

Usb == usb' = ~usb /\ UNCHANGED <<uartVars, masked, once, enabled, timer, slack, pc, early, clean>>

\* The interval, TICK_MS = 10, is longer than any handler takes: between two
\* expiries something else runs.
TimerExpires ==
  /\ timer.on /\ ~timer.expired /\ slack
  /\ timer' = [timer EXCEPT !.expired = TRUE]
  /\ UNCHANGED <<uartVars, masked, once, enabled, usb, slack, pc, early, clean>>

Device ==
  \/ (Arrive \/ Transmit) /\ UNCHANGED irqVars
  \/ Usb
  \/ TimerExpires

Signalled == ~masked /\ (GpuPending \/ TimerPending)

\* irq_el1h: exception_enter; PSTATE.I is set by the processor.
TakeIrq ==
  /\ pc = "none" /\ Signalled
  /\ pc' = "source" /\ masked' = TRUE /\ clean' = FALSE
  /\ UNCHANGED <<uartVars, once, enabled, usb, timer, slack, early>>

\* exception_exit: eret restores PSTATE.
Eret == pc' = "none" /\ masked' = FALSE

(***************************************************************************)
(* plat_handle_irq                                                         *)
(***************************************************************************)
\* Writing cntp_tval_el0.
plat_set_init_timer == timer' = [timer EXCEPT !.expired = FALSE] /\ slack' = FALSE

\* Variant: the timer is not set again.
handle_timer_irqNothing == UNCHANGED <<timer, slack>>

handle_timer_irq == plat_set_init_timer

\* Only the lowest source bit is looked at, and the timer's is the lowest.
\* With no bit left (the USB line can fall again) 1 << 64 is 1 on this
\* processor: the default case.
ReadSource ==
  /\ pc = "source"
  /\ IF TimerPending
     THEN handle_timer_irq /\ Eret
     ELSE pc' = "kinfo" /\ UNCHANGED <<timer, slack, masked>>
  /\ UNCHANGED <<uartVars, once, enabled, usb, early, clean>>

\* kinfo("Unsupported IRQ"), one uart_send standing for its text.
Kinfo ==
  /\ pc = "kinfo"
  /\ uart_send
  /\ pc' = "pending2"
  /\ UNCHANGED <<fen, rx, ris, imsc, ring, fg, input, arrived, history,
                 masked, once, enabled, usb, timer, slack, early, clean>>

\* Variant: only PENDING1 is looked at.
ReadPendingNone ==
  /\ pc = "pending2"
  /\ slack' = TRUE
  /\ Eret
  /\ UNCHANGED <<uartVars, once, enabled, usb, timer, early, clean>>

ReadPending ==
  /\ pc = "pending2"
  /\ slack' = TRUE
  /\ IF UartPending THEN pc' = "read" /\ UNCHANGED masked ELSE Eret
  /\ UNCHANGED <<uartVars, once, enabled, usb, timer, early, clean>>

uart_irq_handler ==
  /\ \/ pc = "read" /\ HandlerRead /\ pc' = "echo" /\ UNCHANGED masked
     \/ /\ pc = "echo" /\ uart_send /\ pc' = "store"
        /\ UNCHANGED <<fen, rx, ris, imsc, ring, fg, input, arrived, history, masked>>
     \/ pc = "store" /\ HandlerStore /\ Eret
  /\ UNCHANGED <<once, enabled, usb, timer, slack, early, clean>>

Handler == ReadSource \/ Kinfo \/ ReadPending \/ uart_irq_handler

(***************************************************************************)
(* Initialisation, with interrupts masked                                  *)
(***************************************************************************)
\* The kernel does not call uart_init; the FIFOs then stay on.
BootUart == uart_init /\ UNCHANGED irqVars

\* All sources off, then the two the kernel uses on; done once only.
interrupt_init ==
  /\ once' = 0
  /\ IF once = 1
     THEN enabled' = {IRQ_USB, IRQ_UART} /\ enable_uart_irq /\ early' = (rx # <<>>)
     ELSE UNCHANGED <<device, ring, input, arrived, history, enabled, early>>

\* disable_irq, set_exception_vector and the interrupt controller.
arch_interrupt_init ==
  /\ fg.pc = "boot"
  /\ fg' = [fg EXCEPT !.pc = "timer"]
  /\ masked' = TRUE
  /\ interrupt_init
  /\ UNCHANGED <<usb, timer, slack, pc, clean>>

\* cntp_tval_el0 is set before cntp_ctl_el0 switches the timer on.
plat_timer_init == timer' = [on |-> TRUE, expired |-> FALSE] /\ slack' = FALSE

timer_init ==
  /\ fg.pc = "timer"
  /\ fg' = [fg EXCEPT !.pc = "idle"]
  /\ plat_timer_init
  /\ UNCHANGED <<device, ring, input, arrived, history, masked, once, enabled, usb, pc, early, clean>>

(***************************************************************************)
(* The interrupted code                                                    *)
(***************************************************************************)
SetMask(value) ==
  /\ fg.pc = "idle" /\ masked = ~value
  /\ masked' = value /\ slack' = TRUE
  /\ UNCHANGED <<uartVars, once, enabled, usb, timer, pc, early, clean>>

enable_irq == SetMask(FALSE)
disable_irq == SetMask(TRUE)

plat_set_next_timer ==
  /\ fg.pc = "idle"
  /\ plat_set_init_timer
  /\ UNCHANGED <<uartVars, masked, once, enabled, usb, pc, early, clean>>

Call ==
  /\ nb_uart_recv \/ SendCall \/ uart_recv
  /\ slack' = TRUE
  /\ clean' = (clean \/ fg'.pc \in {"send", "recv"})
  /\ UNCHANGED <<masked, once, enabled, usb, timer, pc, early>>

Spin ==
  /\ Spinning /\ ~slack
  /\ slack' = TRUE
  /\ UNCHANGED <<uartVars, masked, once, enabled, usb, timer, pc, early, clean>>

Boot == BootUart \/ arch_interrupt_init \/ timer_init
Interrupted == enable_irq \/ disable_irq \/ plat_set_next_timer \/ Call \/ Spin

\* An interrupt that is signalled is taken before the next instruction.
Next ==
  \/ Device
  \/ TakeIrq
  \/ Handler
  \/ pc = "none" /\ ~Signalled /\ (Boot \/ Interrupted)

\* The processor keeps executing: a handler, the boot code, a call once it has
\* begun.  The UART shifts characters out.
Fairness ==
  /\ WF_vars(TakeIrq \/ Handler)
  /\ WF_vars(pc = "none" /\ ~Signalled /\ ((fg.pc # "idle" /\ Call) \/ Spin))
  /\ WF_vars(arch_interrupt_init \/ timer_init)
  /\ WF_vars(Transmit /\ UNCHANGED irqVars)

Spec == Init /\ [][Next]_vars /\ Fairness

(***************************************************************************)
(* Properties                                                              *)
(***************************************************************************)
\* Type invariant.  read_pos may be UART_BUF_LEN only between the two stores of
\* nb_uart_recv.
TypeOK ==
  /\ fen \in BOOLEAN /\ rx \in Seq(Chars) /\ Len(rx) <= Depth
  /\ ris \in BOOLEAN /\ imsc \in BOOLEAN /\ txff \in BOOLEAN
  /\ buffer \in [0 .. UART_BUF_LEN - 1 -> Chars \cup {None}]
  /\ put_pos \in 0 .. UART_BUF_LEN - 1
  /\ read_pos \in 0 .. UART_BUF_LEN - 1 \/ (read_pos = UART_BUF_LEN /\ fg.pc \in {"check", "wrap"})
  /\ fg.reg \in 0 .. UART_BUF_LEN - 1 \cup {None} /\ fg.ch \in Chars \cup {None}
  /\ input \in Chars \cup {None} /\ arrived \in 0 .. MaxChars
  /\ puts \in 0 .. 2 /\ lapped \in BOOLEAN
  /\ masked \in BOOLEAN /\ once \in {0, 1} /\ enabled \subseteq {IRQ_USB, IRQ_UART}
  /\ usb \in BOOLEAN /\ timer \in [on : BOOLEAN, expired : BOOLEAN] /\ slack \in BOOLEAN
  /\ pc \in {"none", "source", "kinfo", "pending2", "read", "echo", "store"}
  /\ early \in BOOLEAN /\ clean \in BOOLEAN

\* What the ring holds, oldest first.
Contents ==
  LET first == read_pos % UART_BUF_LEN
      n == (put_pos - first) % UART_BUF_LEN
  IN  [i \in 1 .. n |-> buffer[(first + i - 1) % UART_BUF_LEN]]

\* The character nb_uart_recv has taken out and not yet returned.
InHand == IF fg.pc \in {"check", "wrap"} THEN 1 ELSE 0

\* The ring keeps the order of arrival and repeats nothing: the characters in it
\* are newer than the last one returned, and a character about to be returned is
\* newer too and older than those left.  This needs that at most one character
\* is stored during a call of nb_uart_recv, which runs with interrupts unmasked
\* and without a lock; it does not need that none is.
InOrder ==
  ~lapped =>
    /\ \A i \in 1 .. Len(Contents) : Contents[i] \in Chars /\ Contents[i] > last
    /\ \A i \in 1 .. Len(Contents) - 1 : Contents[i] < Contents[i + 1]
    /\ fg.pc \in {"check", "wrap"} =>
         /\ fg.ch \in Chars /\ fg.ch > last
         /\ Contents # <<>> => fg.ch < Contents[1]

\* uart_irq_handler discards only what a full ring forces it to, one character
\* each time: every character stored has been returned, is in the reader's hand
\* or in the ring, or is paid for by one overflow, even when the overflow falls
\* between the loads and stores of nb_uart_recv (at most one character per call).
LossOnlyByOverflow ==
  ~lapped => stored <= taken + InHand + Len(Contents) + drops

\* uart_send and uart_recv check FR and then access DR.  The answer still holds
\* at the access unless an interrupt was taken in between; the handler, whose
\* echo also writes DR, is the only one that can spoil it.
CheckStillHolds ==
  clean => /\ fg.pc = "send" => ~txff
           /\ fg.pc = "recv" => rx # <<>>

\* Once the driver is set up, a FIFO at its trigger level has its interrupt
\* raised, so that nothing waits behind an interrupt that never comes.  The
\* exception is a character that arrived before enable_uart_irq wrote ICR.
NoStuckFifo ==
  imsc /\ ~early => (Len(rx) >= Trigger => ris)

\* The timer's interrupt and the UART's are both served, whatever the timer, the
\* USB line and the interrupted code do, if the latter does not keep interrupts
\* masked: serving only the lowest source bit starves nobody.
InterruptsServed ==
  []<>(~masked) => /\ TimerPending ~> ~TimerPending
                   /\ UartPending ~> ~UartPending

\* A call of nb_uart_recv or uart_send returns, if the USB line, which is enabled
\* but which no handler serves, is not for ever asserted.
CallsReturn ==
  <>[](~usb) => (InRecv \/ fg.pc \in {"send_wait", "send"}) ~> fg.pc = "idle"

\* "RXIM: an interrupt is triggered when the receive buffer has data": a received
\* character is taken from the FIFO (by the handler: the interrupted code makes
\* no uart_recv) while interrupts stay unmasked.
CharactersTaken ==
  [](fen /\ ~early) /\ <>[](fg.pc = "idle") /\ []<>(~masked) =>
    (imsc /\ rx # <<>>) ~> rx = <<>>

=============================================================================
