------------------------------ MODULE Poweroff -----------------------------
(***************************************************************************)
(* plat_poweroff (plat/raspi3/poweroff.c) with the VideoCore's mailbox.    *)
(* The mailbox may hold messages of others, which the firmware answers     *)
(* too; the message is on the stack of plat_poweroff's caller.             *)
(***************************************************************************)
EXTENDS Integers, Sequences

CONSTANTS
  MBOX_SLOTS,    \* messages a mailbox holds before it is MBOX_FULL
  Other          \* a message that is not plat_poweroff's

ASSUME PoweroffAssumption == MBOX_SLOTS \in Nat \ {0} /\ Other \notin Nat

VARIABLES
  po,         \* where plat_poweroff is
  mbox,       \* the address of its message: [pa, va]
  r,          \* what it writes to the mailbox, without the channel
  requests, responses,
  armed, off  \* the watchdog is armed; it has reset the chip

poweroffVars == <<po, mbox, r, requests, responses, armed, off>>

Mail(n) == [i \in 1 .. n |-> Other]

\* Mail from before, all of whose answers the mailbox has room for.  (Were both
\* mailboxes full, plat_poweroff would wait for the firmware and the firmware for
\* plat_poweroff; the kernel itself sends no other message.)
PoweroffInit ==
  /\ po = "idle" /\ mbox = [pa |-> 0, va |-> 0] /\ r = 0
  /\ \E m, n \in 0 .. MBOX_SLOTS :
       m + n <= MBOX_SLOTS /\ requests = Mail(m) /\ responses = Mail(n)
  /\ armed = FALSE /\ off = FALSE

\* Fill the message and compute its address with virt_to_phys.
plat_poweroff(pa, va, phys) ==
  /\ po \in {"idle", "done"} /\ po' = "write"
  /\ mbox' = [pa |-> pa, va |-> va] /\ r' = phys
  /\ UNCHANGED <<requests, responses, armed, off>>

\* Variant: the status is not read; what is written to a full mailbox is lost.
MboxWriteBlind ==
  /\ po = "write" /\ po' = "read"
  /\ requests' = IF Len(requests) < MBOX_SLOTS THEN Append(requests, r) ELSE requests
  /\ UNCHANGED <<mbox, r, responses, armed, off>>

MboxWrite ==
  /\ po = "write" /\ Len(requests) < MBOX_SLOTS /\ po' = "read"
  /\ requests' = Append(requests, r)
  /\ UNCHANGED <<mbox, r, responses, armed, off>>

\* Read responses until it is ours; the others are dropped.
MboxRead ==
  /\ po = "read" /\ responses # <<>>
  /\ po' = IF Head(responses) = r THEN "gpio" ELSE "read"
  /\ responses' = Tail(responses)
  /\ UNCHANGED <<mbox, r, requests, armed, off>>

\* The pins, then PM_RSTS, PM_WDOG and PM_RSTC; plat_poweroff returns.
PowerPins ==
  /\ po = "gpio" /\ po' = "pm"
  /\ UNCHANGED <<mbox, r, requests, responses, armed, off>>

ArmWatchdog ==
  /\ po = "pm" /\ po' = "done" /\ armed' = TRUE
  /\ UNCHANGED <<mbox, r, requests, responses, off>>

PoweroffStep == MboxWrite \/ MboxRead \/ PowerPins \/ ArmWatchdog

\* The firmware answers every message with the value it was sent with.
Firmware ==
  /\ requests # <<>> /\ Len(responses) < MBOX_SLOTS
  /\ responses' = Append(responses, Head(requests)) /\ requests' = Tail(requests)
  /\ UNCHANGED <<po, mbox, r, armed, off>>

Watchdog == armed /\ ~off /\ off' = TRUE /\ UNCHANGED <<po, mbox, r, requests, responses, armed>>

PoweroffTypeOK ==
  /\ po \in {"idle", "write", "read", "gpio", "pm", "done"}
  /\ mbox.pa \in Nat /\ mbox.va \in Nat /\ r \in Nat
  /\ \A m \in {requests, responses} :
       Len(m) <= MBOX_SLOTS /\ \A i \in DOMAIN m : m[i] \in {Other, r}
  /\ armed \in BOOLEAN /\ off \in BOOLEAN
=============================================================================
