-------------------------- MODULE InterruptProofs --------------------------
(***************************************************************************)
(* Proofs about Interrupts: the receive ring shared by uart_irq_handler    *)
(* and nb_uart_recv without a lock, for a ring and FIFOs of any size.      *)
(***************************************************************************)
EXTENDS Interrupts, TLAPS

(***************************************************************************)
(* The inductive invariant                                                 *)
(***************************************************************************)
Phases ==
  {"boot", "timer", "idle", "put_pos", "index", "char", "load", "store", "check", "wrap",
   "send_wait", "send", "recv_wait", "recv"}

Calls == [pc : Phases, reg : 0 .. UART_BUF_LEN - 1 \cup {None}, ch : Chars \cup {None}]

\* The types of the device, of the ring with what a call has loaded at each
\* point, and of the interrupts.
DeviceTypes ==
  /\ fen \in BOOLEAN /\ rx \in Seq(Chars) /\ Len(rx) <= Depth
  /\ ris \in BOOLEAN /\ imsc \in BOOLEAN /\ txff \in BOOLEAN
  /\ input \in Chars \cup {None} /\ arrived \in 0 .. MaxChars

RingTypes ==
  /\ buffer \in [0 .. UART_BUF_LEN - 1 -> Chars \cup {None}]
  /\ put_pos \in 0 .. UART_BUF_LEN - 1
  /\ read_pos \in 0 .. UART_BUF_LEN - 1 \/ (read_pos = UART_BUF_LEN /\ fg.pc \in {"check", "wrap"})
  /\ fg \in Calls
  /\ fg.pc \in {"char", "store"} => fg.reg \in 0 .. UART_BUF_LEN - 1
  /\ fg.pc = "wrap" => read_pos = UART_BUF_LEN
  /\ stored \in Nat /\ taken \in Nat /\ drops \in Nat
  /\ puts \in 0 .. 2 /\ lapped \in BOOLEAN

IrqTypes ==
  /\ masked \in BOOLEAN /\ once \in {0, 1} /\ enabled \subseteq {IRQ_USB, IRQ_UART}
  /\ usb \in BOOLEAN /\ timer \in [on : BOOLEAN, expired : BOOLEAN] /\ slack \in BOOLEAN
  /\ pc \in {"none", "source", "kinfo", "pending2", "read", "echo", "store"}
  /\ early \in BOOLEAN /\ clean \in BOOLEAN

\* Interrupts come only once the driver is set up, and the UART's are handled
\* while there is something to read.
Handling ==
  /\ fg.pc \in {"boot", "timer"} => masked /\ pc = "none"
  /\ fg.pc = "boot" => stored = 0
  /\ pc # "none" => ~clean
  /\ pc = "read" => ris

\* The receive interrupt and the FIFO.
FifoInv ==
  /\ ris => Len(rx) >= Trigger
  /\ imsc /\ ~early => (Len(rx) >= Trigger => ris)

\* The characters the handler and the FIFO hold are in the order of arrival.
Arrivals ==
  /\ \A i \in 1 .. Len(rx) : rx[i] <= arrived
  /\ \A i, j \in 1 .. Len(rx) : i < j => rx[i] < rx[j]
  /\ pc \in {"echo", "store"} =>
       input \in 1 .. arrived /\ \A i \in 1 .. Len(rx) : input < rx[i]

\* A character older than all of those.
Older(v) ==
  /\ v <= arrived
  /\ pc \in {"echo", "store"} => v < input
  /\ \A i \in 1 .. Len(rx) : v < rx[i]

\* The ring, from the oldest character on.
First == IF read_pos = UART_BUF_LEN THEN 0 ELSE read_pos
Count == IF put_pos >= First THEN put_pos - First ELSE put_pos - First + UART_BUF_LEN
Slot(k) == IF First + k >= UART_BUF_LEN THEN First + k - UART_BUF_LEN ELSE First + k
Item(k) == buffer[Slot(k)]

\* A character that left the ring before those in it and after the last one
\* that was returned.
Leaving(v) ==
  /\ v \in Chars /\ v > last /\ Older(v)
  /\ \A k \in 0 .. Count - 1 : v < Item(k)

RingInv ==
  /\ last \in Nat /\ Older(last)
  /\ \A k \in 0 .. Count - 1 : Item(k) \in Chars /\ Item(k) > last /\ Older(Item(k))
  /\ \A j, k \in 0 .. Count - 1 : j < k => Item(j) < Item(k)
  /\ stored <= taken + InHand + Count + drops
  /\ puts \in {0, 1} /\ (~InRecv => puts = 0)

\* What nb_uart_recv relies on at each point, whether or not a character was
\* stored, and one discarded, since it began.
ReaderInv ==
  /\ fg.pc = "put_pos" => fg.reg = read_pos \/ (puts = 1 /\ Count > 0)
  /\ fg.pc \in {"index", "char", "load", "store"} => Count > 0
  /\ fg.pc = "char" => fg.reg = read_pos \/ (puts = 1 /\ Leaving(buffer[fg.reg]))
  /\ fg.pc \in {"load", "store"} =>
       \/ fg.ch = Item(0)
       \/ puts = 1 /\ Leaving(fg.ch)
  /\ fg.pc = "store" =>
       \/ fg.reg = read_pos
       \/ puts = 1 /\ Leaving(fg.ch) /\ read_pos = Wrap(fg.reg)
  /\ fg.pc \in {"check", "wrap"} =>
       Leaving(fg.ch) /\ (puts = 0 => Count < UART_BUF_LEN - 1)

InterruptInv ==
  /\ DeviceTypes /\ RingTypes /\ IrqTypes
  /\ Handling /\ FifoInv /\ Arrivals /\ CheckStillHolds
  /\ ~lapped => RingInv /\ ReaderInv

(***************************************************************************)
(* The ring                                                                *)
(***************************************************************************)
\* A remainder next to zero.
LEMMA NearMod ==
  ASSUME NEW n \in Nat \ {0}, NEW a \in Int
  PROVE  /\ a \in 0 .. n - 1 => a % n = a
         /\ a - n \in 0 .. n - 1 => a % n = a - n
         /\ a + n \in 0 .. n - 1 => a % n = a + n
<1>1. ASSUME NEW q \in Int, NEW r \in 0 .. n - 1, a = n * q + r PROVE a % n = r
  BY <1>1
<1>2. a \in 0 .. n - 1 => a % n = a
  OBVIOUS
<1>3. ASSUME a - n \in 0 .. n - 1 PROVE a % n = a - n
  <2>1. a = n * 1 + (a - n)
    OBVIOUS
  <2> QED BY <2>1, <1>1, <1>3
<1>4. ASSUME a + n \in 0 .. n - 1 PROVE a % n = a + n
  <2>1. a = n * (-1) + (a + n)
    OBVIOUS
  <2> QED BY <2>1, <1>1, <1>4
<1> QED BY <1>2, <1>3, <1>4, Zenon

\* The places of the ring, counted from the oldest character.
LEMMA Places ==
  ASSUME RingTypes
  PROVE  /\ UART_BUF_LEN \in Nat /\ UART_BUF_LEN > 1
         /\ read_pos \in 0 .. UART_BUF_LEN /\ put_pos \in 0 .. UART_BUF_LEN - 1
         /\ First \in 0 .. UART_BUF_LEN - 1 /\ Count \in 0 .. UART_BUF_LEN - 1
         /\ \A k \in 0 .. UART_BUF_LEN - 1 : Slot(k) \in 0 .. UART_BUF_LEN - 1
         /\ \A j, k \in 0 .. UART_BUF_LEN - 1 : Slot(j) = Slot(k) => j = k
         /\ Slot(0) = First /\ Slot(Count) = put_pos
<1>1. /\ UART_BUF_LEN \in Nat /\ UART_BUF_LEN > 1 /\ put_pos \in 0 .. UART_BUF_LEN - 1
      /\ read_pos \in 0 .. UART_BUF_LEN
  BY UartAssumption DEF RingTypes
<1>2. First \in 0 .. UART_BUF_LEN - 1
  BY <1>1 DEF First
<1>3. Count \in 0 .. UART_BUF_LEN - 1
  BY <1>1, <1>2 DEF Count
<1>4. /\ \A k \in 0 .. UART_BUF_LEN - 1 : Slot(k) \in 0 .. UART_BUF_LEN - 1
      /\ \A j, k \in 0 .. UART_BUF_LEN - 1 : Slot(j) = Slot(k) => j = k
  BY <1>1, <1>2 DEF Slot
<1>5. Slot(0) = First /\ Slot(Count) = put_pos
  BY <1>1, <1>2 DEF Slot, Count
<1> QED BY <1>1, <1>2, <1>3, <1>4, <1>5, Zenon

\* Contents lists them.
LEMMA ContentsAre ==
  ASSUME RingTypes
  PROVE  /\ Len(Contents) = Count /\ \A i \in 1 .. Count : Contents[i] = Item(i - 1)
         /\ Contents = [i \in 1 .. Count |-> Item(i - 1)]
<1>1. /\ UART_BUF_LEN \in Nat \ {0} /\ read_pos \in 0 .. UART_BUF_LEN
      /\ put_pos \in 0 .. UART_BUF_LEN - 1
      /\ First \in 0 .. UART_BUF_LEN - 1 /\ Count \in 0 .. UART_BUF_LEN - 1
  BY Places
<1>2. read_pos % UART_BUF_LEN = First
  <2>1. read_pos \in Int /\ (read_pos \in 0 .. UART_BUF_LEN - 1 \/ read_pos - UART_BUF_LEN = 0)
    BY <1>1
  <2>2. CASE read_pos \in 0 .. UART_BUF_LEN - 1
    BY <2>1, <2>2, <1>1, NearMod DEF First
  <2>3. CASE read_pos - UART_BUF_LEN = 0
    BY <2>1, <2>3, <1>1, NearMod, Zenon DEF First
  <2> QED BY <2>1, <2>2, <2>3, Zenon
<1>3. (put_pos - First) % UART_BUF_LEN = Count
  <2>1. PICK d \in Int : d = put_pos - First
    BY <1>1
  <2>2. d \in 0 .. UART_BUF_LEN - 1 \/ d + UART_BUF_LEN \in 0 .. UART_BUF_LEN - 1
    BY <2>1, <1>1
  <2>3. CASE d >= 0
    BY <2>1, <2>2, <2>3, <1>1, NearMod, Zenon DEF Count
  <2>4. CASE d < 0
    BY <2>1, <2>2, <2>4, <1>1, NearMod, Zenon DEF Count
  <2> QED BY <2>3, <2>4
<1>4. ASSUME NEW i \in 1 .. Count PROVE (First + i - 1) % UART_BUF_LEN = Slot(i - 1)
  <2>1. PICK d \in Int : d = First + i - 1
    BY <1>1
  <2>2. d \in 0 .. UART_BUF_LEN - 1 \/ d - UART_BUF_LEN \in 0 .. UART_BUF_LEN - 1
    BY <2>1, <1>1
  <2>3. First + (i - 1) = d
    BY <2>1, <1>1, Zenon
  <2>4. CASE d >= UART_BUF_LEN
    BY <2>1, <2>2, <2>3, <2>4, <1>1, NearMod DEF Slot
  <2>5. CASE d < UART_BUF_LEN
    BY <2>1, <2>2, <2>3, <2>5, <1>1, NearMod DEF Slot
  <2> QED BY <2>4, <2>5, <1>1
<1>5. Contents = [i \in 1 .. Count |-> buffer[(First + i - 1) % UART_BUF_LEN]]
  BY <1>2, <1>3, Zenon DEF Contents
<1>6. Len(Contents) = Count
  BY <1>1, <1>5
<1>7. \A i \in 1 .. Count : Contents[i] = Item(i - 1)
  BY <1>4, <1>5, Zenon DEF Item
<1>8. Contents = [i \in 1 .. Count |-> Item(i - 1)]
  BY <1>4, <1>5, Zenon DEF Item
<1> QED BY <1>6, <1>7, <1>8, Zenon

\* A character stored in a ring that has room.
LEMMA StoreRoom ==
  ASSUME RingTypes, NEW n, n = Count, n < UART_BUF_LEN - 1, read_pos' = read_pos,
         buffer' = [buffer EXCEPT ![put_pos] = input], put_pos' = Wrap(put_pos)
  PROVE  Count' = n + 1 /\ Item(n)' = input /\ \A k \in 0 .. n - 1 : Item(k)' = Item(k)
<1>1. /\ UART_BUF_LEN \in Nat /\ UART_BUF_LEN > 1 /\ put_pos \in 0 .. UART_BUF_LEN - 1
      /\ First \in 0 .. UART_BUF_LEN - 1 /\ n \in 0 .. UART_BUF_LEN - 1
      /\ buffer \in [0 .. UART_BUF_LEN - 1 -> Chars \cup {None}]
  BY Places, Zenon DEF RingTypes
<1>2. First' = First /\ \A k : Slot(k)' = Slot(k)
  BY Zenon DEF First, Slot
<1>3. Count' = n + 1
  BY <1>1, <1>2 DEF Count, Wrap
<1>4. ASSUME NEW k \in 0 .. n PROVE Slot(k) \in 0 .. UART_BUF_LEN - 1 /\ (Slot(k) = put_pos <=> k = n)
  BY <1>1, Places
<1>5. Item(n)' = input
  <2>1. Slot(n) = put_pos
    BY Places, Zenon
  <2> QED BY <2>1, <1>1, <1>2, Zenon DEF Item
<1>6. \A k \in 0 .. n - 1 : Item(k)' = Item(k)
  BY <1>1, <1>2, <1>4 DEF Item
<1> QED BY <1>3, <1>5, <1>6, Zenon

\* A character stored in a full ring, which the oldest one leaves.
LEMMA StoreFull ==
  ASSUME RingTypes, NEW n, n = Count, read_pos = Wrap(put_pos), read_pos' = Wrap(read_pos),
         buffer' = [buffer EXCEPT ![put_pos] = input], put_pos' = Wrap(put_pos)
  PROVE  /\ n = UART_BUF_LEN - 1 /\ Count' = n /\ Item(n - 1)' = input
         /\ \A k \in 0 .. n - 2 : Item(k)' = Item(k + 1)
         /\ buffer'[read_pos] = Item(0) /\ read_pos \in 0 .. UART_BUF_LEN - 1
<1>1. /\ UART_BUF_LEN \in Nat /\ UART_BUF_LEN > 1 /\ put_pos \in 0 .. UART_BUF_LEN - 1
      /\ buffer \in [0 .. UART_BUF_LEN - 1 -> Chars \cup {None}]
  BY Places, Zenon DEF RingTypes
<1>2. /\ read_pos \in 0 .. UART_BUF_LEN - 1 /\ First = read_pos /\ read_pos # put_pos
      /\ First' = Wrap(read_pos) /\ First' \in 0 .. UART_BUF_LEN - 1 /\ put_pos' = read_pos
  BY <1>1 DEF First, Wrap
<1>3. n = UART_BUF_LEN - 1 /\ Count' = n
  BY <1>1, <1>2 DEF Count, Wrap
<1>4. \A k \in 0 .. n - 1 : Slot(k)' = Slot(k + 1)
  BY <1>1, <1>2, <1>3 DEF Slot, Wrap
<1>5. Slot(n) = put_pos /\ \A k \in 0 .. n - 1 : Slot(k) # put_pos /\ Slot(k) \in 0 .. UART_BUF_LEN - 1
  BY <1>1, <1>3, Places
<1>6. Item(n - 1)' = input
  <2>1. n - 1 \in 0 .. n - 1 /\ (n - 1) + 1 = n
    BY <1>1, <1>3
  <2>2. Slot(n - 1)' = put_pos
    BY <2>1, <1>4, <1>5, Zenon
  <2> QED BY <2>2, <1>1, Zenon DEF Item
<1>7. ASSUME NEW k \in 0 .. n - 2 PROVE Item(k)' = Item(k + 1)
  <2>1. k \in 0 .. n - 1 /\ k + 1 \in 0 .. n - 1
    BY <1>1, <1>3
  <2>2. Slot(k)' = Slot(k + 1) /\ Slot(k + 1) # put_pos /\ Slot(k + 1) \in 0 .. UART_BUF_LEN - 1
    BY <2>1, <1>4, <1>5, Zenon
  <2> QED BY <2>2, <1>1, Zenon DEF Item
<1>8. buffer'[read_pos] = Item(0)
  BY <1>1, <1>2, Places, Zenon DEF Item
<1> QED BY <1>2, <1>3, <1>6, <1>7, <1>8, Zenon

\* The reader steps over the oldest character.
LEMMA Advance ==
  ASSUME RingTypes, NEW n, n = Count, n > 0, read_pos \in 0 .. UART_BUF_LEN - 1,
         read_pos' = read_pos + 1, put_pos' = put_pos, buffer' = buffer
  PROVE  Count' = n - 1 /\ \A k \in 0 .. n - 2 : Item(k)' = Item(k + 1)
<1>1. /\ UART_BUF_LEN \in Nat /\ UART_BUF_LEN > 1 /\ put_pos \in 0 .. UART_BUF_LEN - 1
      /\ n \in 0 .. UART_BUF_LEN - 1
  BY Places, Zenon
<1>2. First = read_pos /\ First' = IF read_pos + 1 = UART_BUF_LEN THEN 0 ELSE read_pos + 1
  BY <1>1 DEF First
<1>3. Count' = n - 1
  BY <1>1, <1>2 DEF Count
<1>4. \A k \in 0 .. n - 2 : Slot(k)' = Slot(k + 1)
  BY <1>1, <1>2 DEF Slot
<1> QED BY <1>3, <1>4, Zenon DEF Item

\* The reader steps over a character that has left already, or wraps: the ring
\* stays as it is.
LEMMA SamePlaces ==
  ASSUME First' = First, put_pos' = put_pos, buffer' = buffer
  PROVE  Count' = Count /\ \A k : Item(k)' = Item(k)
BY Zenon DEF Count, Item, Slot

\* The trigger level can be reached.
LEMMA Levels ==
  ASSUME DeviceTypes
  PROVE  /\ Trigger \in Nat /\ Depth \in Nat /\ 1 <= Trigger /\ Trigger <= Depth /\ Len(rx) \in Nat
         /\ ris => (FifoInv => rx # <<>>)
<1>1. Trigger \in Nat /\ Depth \in Nat /\ 1 <= Trigger /\ Trigger <= Depth
  BY UartAssumption DEF Trigger, Depth
<1>2. Len(rx) \in Nat /\ (Len(rx) >= 1 => rx # <<>>)
  BY DEF DeviceTypes
<1> QED BY <1>1, <1>2 DEF FifoInv

\* A character arrives.
LEMMA ArriveKeeps ==
  ASSUME DeviceTypes, FifoInv, Arrivals, Arrive, pc' = pc, early' = early
  PROVE  /\ DeviceTypes' /\ FifoInv' /\ Arrivals' /\ (ris => ris') /\ (rx # <<>> => rx' # <<>>)
         /\ \A v \in Nat : Older(v) => Older(v)'
<1>1. /\ arrived < MaxChars /\ arrived' = arrived + 1
      /\ rx' = IF Len(rx) < Depth THEN Append(rx, arrived + 1) ELSE rx
      /\ fen' = fen /\ imsc' = imsc /\ txff' = txff /\ input' = input
  BY Zenon DEF Arrive
<1>0. ris' \in BOOLEAN /\ (ris' <=> (ris \/ Len(rx) + 1 = Trigger))
  BY Zenon DEF Arrive
<1>2. Trigger \in Nat /\ Depth \in Nat /\ 1 <= Trigger /\ Trigger <= Depth /\ Len(rx) \in Nat
      /\ Trigger' = Trigger /\ Depth' = Depth /\ arrived \in Nat /\ MaxChars \in Nat
  BY <1>1, Levels, UartAssumption DEF Trigger, Depth, DeviceTypes
<1>3. rx \in Seq(Chars) /\ Len(rx) <= Depth /\ arrived + 1 \in Chars
  BY <1>1, <1>2 DEF DeviceTypes, Chars
<1>4. CASE Len(rx) < Depth
  <2>1. rx' = Append(rx, arrived + 1)
    BY <1>1, <1>4, Zenon
  <2>2. rx' \in Seq(Chars) /\ Len(rx') = Len(rx) + 1 /\ rx'[Len(rx) + 1] = arrived + 1
    BY <2>1, <1>3
  <2>3. \A i \in 1 .. Len(rx) : rx'[i] = rx[i]
    BY <2>1, <1>3
  <2>4. \A i \in 1 .. Len(rx) : rx[i] \in Nat /\ rx[i] <= arrived
    <3>1. \A i \in 1 .. Len(rx) : rx[i] \in Chars
      BY <1>3
    <3> QED BY <3>1 DEF Arrivals, Chars
  <2>6. DeviceTypes'
    BY <1>0, <1>1, <1>2, <1>4, <2>2 DEF DeviceTypes
  <2>7. FifoInv'
    BY <1>0, <1>1, <1>2, <2>2 DEF FifoInv
  <2>8. Arrivals'
    BY <1>1, <1>2, <2>2, <2>3, <2>4 DEF Arrivals
  <2>9. \A v \in Nat : Older(v) => Older(v)'
    BY <1>1, <1>2, <2>2, <2>3 DEF Older
  <2>10. rx' # <<>> /\ (ris => ris')
    BY <1>0, <1>2, <2>2
  <2> QED BY <2>6, <2>7, <2>8, <2>9, <2>10, Zenon
<1>5. CASE Len(rx) >= Depth
  <2>1. rx' = rx /\ ~(Len(rx) + 1 = Trigger)
    BY <1>1, <1>2, <1>5
  <2>2. ris' <=> ris
    BY <2>1, <1>0, Zenon
  <2>3. DeviceTypes'
    BY <1>0, <1>1, <1>2, <2>1 DEF DeviceTypes
  <2>6. FifoInv'
    BY <1>1, <1>2, <2>1, <2>2, Zenon DEF FifoInv
  <2>7. \A i \in 1 .. Len(rx) : rx[i] \in Chars
    BY <1>3
  <2>5. Arrivals'
    BY <1>1, <1>2, <2>1, <2>7 DEF Arrivals, Chars
  <2>4. \A v \in Nat : Older(v) => Older(v)'
    BY <1>1, <1>2, <2>1 DEF Older
  <2> QED BY <2>1, <2>2, <2>3, <2>4, <2>5, <2>6, Zenon
<1> QED BY <1>2, <1>4, <1>5

\* A character is read from DR.
LEMMA ReadKeeps ==
  ASSUME DeviceTypes, FifoInv, ReadDR, fen' = fen, imsc' = imsc, early' = early
  PROVE  /\ FifoInv' /\ ris' \in BOOLEAN /\ rx' \in Seq(Chars) /\ Len(rx') <= Depth /\ Len(rx') <= Len(rx)
         /\ rx # <<>> => /\ Head(rx) \in Chars /\ Head(rx) = rx[1]
                         /\ Len(rx') = Len(rx) - 1 /\ \A i \in 1 .. Len(rx) - 1 : rx'[i] = rx[i + 1]
         /\ rx = <<>> => rx' = rx
<1>1. /\ rx' = (IF rx = <<>> THEN rx ELSE Tail(rx))
      /\ rx \in Seq(Chars) /\ Len(rx) <= Depth
  BY Zenon DEF ReadDR, DeviceTypes
<1>3. ris' \in BOOLEAN /\ (ris' <=> (ris /\ Len(rx) > Trigger))
  BY Zenon DEF ReadDR
<1>2. Trigger \in Nat /\ Depth \in Nat /\ 1 <= Trigger /\ Len(rx) \in Nat /\ Trigger' = Trigger
  BY Levels, Zenon DEF Trigger
<1>4. CASE rx = <<>>
  <2>1. rx' = rx /\ Len(rx) = 0
    BY <1>1, <1>4, Zenon
  <2>2. ~ris'
    BY <2>1, <1>2, <1>3
  <2> QED BY <2>1, <2>2, <1>1, <1>2, <1>3, <1>4 DEF FifoInv
<1>5. CASE rx # <<>>
  <2>1. rx' = Tail(rx)
    BY <1>1, <1>5, Zenon
  <2>2. rx' \in Seq(Chars) /\ Len(rx') = Len(rx) - 1 /\ Head(rx) \in Chars /\ Head(rx) = rx[1]
    BY <2>1, <1>1, <1>5
  <2>3. \A i \in 1 .. Len(rx) - 1 : rx'[i] = rx[i + 1]
    BY <2>1, <1>1, <1>5
  <2>4. FifoInv'
    BY <2>2, <1>2, <1>3 DEF FifoInv
  <2> QED BY <2>2, <2>3, <2>4, <1>1, <1>2, <1>3, <1>5
<1> QED BY <1>4, <1>5, Zenon

(***************************************************************************)
(* Steps that leave the ring alone                                         *)
(***************************************************************************)
\* The ring, when at most newer characters appear.
LEMMA RingSame ==
  ASSUME RingTypes, RingInv, ReaderInv, UNCHANGED <<ring, fg, history>>,
         \A v \in Nat : Older(v) => Older(v)'
  PROVE  RingInv' /\ ReaderInv'
<1>1. /\ read_pos' = read_pos /\ put_pos' = put_pos /\ buffer' = buffer /\ fg' = fg /\ stored' = stored
      /\ taken' = taken /\ last' = last /\ drops' = drops /\ puts' = puts
  BY Zenon DEF ring, history
<1>2. First' = First
  BY <1>1, Zenon DEF First
<1>3. Count' = Count /\ \A k : Item(k)' = Item(k)
  BY <1>1, <1>2, SamePlaces, Zenon
<1>4. \A v : Leaving(v) => Leaving(v)'
  BY <1>1, <1>3 DEF Leaving, Chars
<1>5. RingInv'
  BY <1>1, <1>3 DEF RingInv, InHand, InRecv, Chars
<1>6. ReaderInv'
  BY <1>1, <1>3, <1>4, Zenon DEF ReaderInv, Wrap
<1> QED BY <1>5, <1>6, Zenon

\* The same while no nb_uart_recv is under way, before and after.
LEMMA RingOutside ==
  ASSUME RingTypes, RingInv, UNCHANGED <<ring, history>>, ~InRecv, ~InRecv',
         \A v \in Nat : Older(v) => Older(v)'
  PROVE  RingInv' /\ ReaderInv'
<1>1. /\ read_pos' = read_pos /\ put_pos' = put_pos /\ buffer' = buffer /\ stored' = stored
      /\ taken' = taken /\ last' = last /\ drops' = drops /\ puts' = puts
  BY Zenon DEF ring, history
<1>2. First' = First
  BY <1>1, Zenon DEF First
<1>3. Count' = Count /\ \A k : Item(k)' = Item(k)
  BY <1>1, <1>2, SamePlaces, Zenon
<1>4. InHand = 0 /\ InHand' = 0
  BY Zenon DEF InHand, InRecv
<1>5. RingInv'
  BY <1>1, <1>3, <1>4 DEF RingInv, Chars
<1>6. ReaderInv'
  BY Zenon DEF ReaderInv, InRecv
<1> QED BY <1>5, <1>6, Zenon

\* A step of the interrupt logic that does not touch the UART.
LEMMA IrqOnly ==
  ASSUME InterruptInv, UNCHANGED <<uartVars, early>>, IrqTypes', Handling', clean' => clean,
         pc' \in {"echo", "store"} => pc' = pc
  PROVE  InterruptInv'
<1>1. /\ fen' = fen /\ rx' = rx /\ ris' = ris /\ imsc' = imsc /\ txff' = txff /\ input' = input
      /\ arrived' = arrived /\ early' = early /\ fg' = fg /\ lapped' = lapped
      /\ UNCHANGED <<ring, fg, history>>
  BY Zenon DEF uartVars, device, history
<1>2. DeviceTypes'
  BY <1>1, Zenon DEF InterruptInv, DeviceTypes, Depth
<1>3. RingTypes'
  BY <1>1, Zenon DEF InterruptInv, RingTypes, ring, history
<1>4. FifoInv'
  BY <1>1 DEF InterruptInv, FifoInv, Trigger
<1>5. Arrivals'
  BY <1>1, Zenon DEF InterruptInv, Arrivals
<1>6. CheckStillHolds'
  BY <1>1, Zenon DEF InterruptInv, CheckStillHolds
<1>7. \A v \in Nat : Older(v) => Older(v)'
  BY <1>1, Zenon DEF Older
<1>8. ~lapped' => RingInv' /\ ReaderInv'
  BY <1>1, <1>7, RingSame, Zenon DEF InterruptInv
<1> QED BY <1>2, <1>3, <1>4, <1>5, <1>6, <1>8, Zenon DEF InterruptInv

\* Interrupts are signalled only once the driver is set up.
LEMMA SetUp ==
  ASSUME InterruptInv, ~masked \/ pc # "none" PROVE fg.pc \notin {"boot", "timer"}
BY Zenon DEF InterruptInv, Handling

\* irq_el1h is entered, with interrupts masked.
LEMMA TakeIrqKeeps == ASSUME InterruptInv, TakeIrq PROVE InterruptInv'
<1>1. /\ UNCHANGED <<uartVars, early>> /\ pc' = "source" /\ masked' = TRUE /\ clean' = FALSE
      /\ once' = once /\ enabled' = enabled /\ usb' = usb /\ timer' = timer /\ slack' = slack
      /\ ris' = ris /\ fg' = fg /\ stored' = stored /\ early' = early
  BY Zenon DEF TakeIrq, uartVars, device, history
<1>2. ~masked
  BY Zenon DEF TakeIrq, Signalled
<1>3. IrqTypes'
  BY <1>1, Zenon DEF InterruptInv, IrqTypes
<1>4. Handling'
  BY <1>1, <1>2, SetUp, Zenon DEF Handling
<1> QED BY <1>1, <1>3, <1>4, IrqOnly, Zenon

\* Another device, or the timer, raises its line.
LEMMA UsbKeeps == ASSUME InterruptInv, Usb \/ TimerExpires PROVE InterruptInv'
<1>1. /\ UNCHANGED <<uartVars, early>> /\ pc' = pc /\ masked' = masked /\ clean' = clean
      /\ once' = once /\ enabled' = enabled /\ slack' = slack
      /\ ris' = ris /\ fg' = fg /\ stored' = stored /\ early' = early
  BY Zenon DEF Usb, TimerExpires, uartVars, device, history
<1>2. usb' \in BOOLEAN
  BY Zenon DEF Usb, TimerExpires, InterruptInv, IrqTypes
<1>3. timer' \in [on : BOOLEAN, expired : BOOLEAN]
  BY Zenon DEF Usb, TimerExpires, InterruptInv, IrqTypes
<1>4. IrqTypes'
  BY <1>1, <1>2, <1>3, Zenon DEF InterruptInv, IrqTypes
<1>5. Handling'
  BY <1>1, Zenon DEF InterruptInv, Handling
<1> QED BY <1>1, <1>4, <1>5, IrqOnly, Zenon

\* plat_handle_irq reads the source of the core, then the pending register.
LEMMA ReadSourceKeeps == ASSUME InterruptInv, ReadSource \/ ReadPending PROVE InterruptInv'
<1>1. /\ UNCHANGED <<uartVars, early>> /\ clean' = clean /\ pc \in {"source", "pending2"}
      /\ once' = once /\ enabled' = enabled /\ usb' = usb
      /\ ris' = ris /\ fg' = fg /\ stored' = stored /\ early' = early
  BY Zenon DEF ReadSource, ReadPending, uartVars, device, history
<1>2. pc' \in {"none", "kinfo", "read"} /\ (pc' = "read" => ris)
  BY Zenon DEF ReadSource, ReadPending, Eret, UartPending
<1>3. masked' \in BOOLEAN /\ slack' \in BOOLEAN /\ timer' \in [on : BOOLEAN, expired : BOOLEAN]
  BY Zenon DEF ReadSource, ReadPending, handle_timer_irq, plat_set_init_timer, Eret, InterruptInv, IrqTypes
<1>4. IrqTypes'
  BY <1>1, <1>2, <1>3, Zenon DEF InterruptInv, IrqTypes
<1>5. Handling'
  BY <1>1, <1>2, SetUp, Zenon DEF InterruptInv, Handling
<1> QED BY <1>1, <1>2, <1>4, <1>5, IrqOnly, Zenon

\* enable_irq, disable_irq, plat_set_next_timer and a loop that goes round.
LEMMA IdleKeeps ==
  ASSUME InterruptInv, pc = "none", enable_irq \/ disable_irq \/ plat_set_next_timer \/ Spin
  PROVE  InterruptInv'
<1>1. /\ UNCHANGED <<uartVars, early>> /\ clean' = clean /\ pc' = pc
      /\ once' = once /\ enabled' = enabled /\ usb' = usb
      /\ ris' = ris /\ fg' = fg /\ stored' = stored /\ early' = early
      /\ fg.pc \in {"idle", "send_wait", "recv_wait"}
  BY Zenon DEF enable_irq, disable_irq, SetMask, plat_set_next_timer, Spin, Spinning, uartVars, device, history
<1>2. masked' \in BOOLEAN /\ slack' \in BOOLEAN /\ timer' \in [on : BOOLEAN, expired : BOOLEAN]
  BY Zenon DEF enable_irq, disable_irq, SetMask, plat_set_next_timer, plat_set_init_timer, Spin,
         InterruptInv, IrqTypes
<1>3. IrqTypes'
  BY <1>1, <1>2, Zenon DEF InterruptInv, IrqTypes
<1>4. Handling'
  BY <1>1, Zenon DEF InterruptInv, Handling
<1> QED BY <1>1, <1>3, <1>4, IrqOnly, Zenon

(***************************************************************************)
(* The device and the handler                                              *)
(***************************************************************************)
LEMMA ArriveStep == ASSUME InterruptInv, Arrive, UNCHANGED irqVars PROVE InterruptInv'
<1>1. /\ masked' = masked /\ once' = once /\ enabled' = enabled /\ usb' = usb /\ timer' = timer
      /\ slack' = slack /\ pc' = pc /\ early' = early /\ clean' = clean
      /\ txff' = txff /\ fg' = fg /\ lapped' = lapped /\ stored' = stored
      /\ UNCHANGED <<ring, fg, history>>
  BY Zenon DEF irqVars, Arrive, history
<1>2. /\ DeviceTypes' /\ FifoInv' /\ Arrivals' /\ (ris => ris') /\ (rx # <<>> => rx' # <<>>)
      /\ \A v \in Nat : Older(v) => Older(v)'
  BY <1>1, ArriveKeeps, Zenon DEF InterruptInv
<1>3. RingTypes'
  BY <1>1, Zenon DEF InterruptInv, RingTypes, ring, history
<1>4. IrqTypes'
  BY <1>1 DEF InterruptInv, IrqTypes
<1>5. Handling'
  BY <1>1, <1>2, Zenon DEF InterruptInv, Handling
<1>6. CheckStillHolds'
  BY <1>1, <1>2, Zenon DEF InterruptInv, CheckStillHolds
<1>7. ~lapped' => RingInv' /\ ReaderInv'
  BY <1>1, <1>2, RingSame, Zenon DEF InterruptInv
<1> QED BY <1>2, <1>3, <1>4, <1>5, <1>6, <1>7, Zenon DEF InterruptInv

\* A step that writes to DR, or in which the transmitter empties.
LEMMA TransmitKeeps ==
  ASSUME InterruptInv, txff' \in BOOLEAN, clean' = clean, txff' => ~clean,
         UNCHANGED <<fen, rx, ris, imsc, ring, fg, input, arrived, history>>,
         UNCHANGED <<masked, once, enabled, usb, timer, slack, early>>,
         pc' = pc \/ <<pc, pc'>> \in {<<"kinfo", "pending2">>, <<"echo", "store">>}
  PROVE  InterruptInv'
<1>1. /\ fen' = fen /\ rx' = rx /\ ris' = ris /\ imsc' = imsc /\ input' = input /\ early' = early
      /\ arrived' = arrived /\ fg' = fg /\ lapped' = lapped /\ stored' = stored
      /\ UNCHANGED <<ring, fg, history>>
  BY Zenon DEF history
<1>2. DeviceTypes'
  BY <1>1 DEF InterruptInv, DeviceTypes, Depth
<1>3. RingTypes'
  BY <1>1, Zenon DEF InterruptInv, RingTypes, ring, history
<1>4. IrqTypes'
  BY DEF InterruptInv, IrqTypes
<1>5. Handling'
  BY <1>1 DEF InterruptInv, Handling
<1>6. FifoInv'
  BY <1>1 DEF InterruptInv, FifoInv, Trigger
<1>7. Arrivals'
  BY <1>1, Zenon DEF InterruptInv, Arrivals
<1>8. CheckStillHolds'
  BY <1>1, Zenon DEF InterruptInv, CheckStillHolds
<1>9. \A v \in Nat : Older(v) => Older(v)'
  BY <1>1, Zenon DEF Older
<1>10. ~lapped' => RingInv' /\ ReaderInv'
  BY <1>1, <1>9, RingSame, Zenon DEF InterruptInv
<1> QED BY <1>2, <1>3, <1>4, <1>5, <1>6, <1>7, <1>8, <1>10, Zenon DEF InterruptInv

\* uart_irq_handler reads DR: there is a character, and it is the oldest.
LEMMA HandlerReadKeeps ==
  ASSUME InterruptInv, pc = "read", HandlerRead, pc' = "echo",
         UNCHANGED <<masked, once, enabled, usb, timer, slack, early, clean>>
  PROVE  InterruptInv'
<1>1. /\ fen' = fen /\ imsc' = imsc /\ txff' = txff /\ fg' = fg /\ arrived' = arrived
      /\ lapped' = lapped /\ stored' = stored /\ early' = early /\ clean' = clean
      /\ UNCHANGED <<ring, fg, history>> /\ ReadDR /\ input' = DR
  BY Zenon DEF HandlerRead, history
<1>2. DeviceTypes /\ FifoInv /\ Arrivals /\ rx # <<>> /\ arrived \in Nat
  BY Levels, UartAssumption DEF InterruptInv, Handling, DeviceTypes
<1>3. /\ FifoInv' /\ ris' \in BOOLEAN /\ rx' \in Seq(Chars) /\ Len(rx') <= Depth
      /\ Head(rx) \in Chars /\ Head(rx) = rx[1]
      /\ Len(rx') = Len(rx) - 1 /\ \A i \in 1 .. Len(rx) - 1 : rx'[i] = rx[i + 1]
  BY <1>1, <1>2, ReadKeeps, Zenon
<1>4. input' = rx[1] /\ input' \in Chars /\ Len(rx) \in Nat /\ Len(rx) >= 1
  BY <1>1, <1>2, <1>3 DEF DR, DeviceTypes
<1>5. DeviceTypes'
  BY <1>1, <1>3, <1>4, Zenon DEF InterruptInv, DeviceTypes, Depth
<1>6. Arrivals'
  <2>1. \A i \in 1 .. Len(rx) : rx[i] <= arrived
    BY <1>2, Zenon DEF Arrivals
  <2>2. \A i, j \in 1 .. Len(rx) : i < j => rx[i] < rx[j]
    BY <1>2, Zenon DEF Arrivals
  <2>3. \A i \in 1 .. Len(rx') : i + 1 \in 1 .. Len(rx) /\ 1 < i + 1 /\ rx'[i] = rx[i + 1]
    BY <1>3, <1>4
  <2>4. input' \in 1 .. arrived'
    BY <2>1, <1>1, <1>2, <1>4 DEF Chars
  <2>5. \A i \in 1 .. Len(rx') : rx'[i] <= arrived' /\ input' < rx'[i]
    BY <2>1, <2>2, <2>3, <1>1, <1>4
  <2>6. \A i, j \in 1 .. Len(rx') : i < j => rx'[i] < rx'[j]
    <3> SUFFICES ASSUME NEW i \in 1 .. Len(rx'), NEW j \in 1 .. Len(rx'), i < j PROVE rx'[i] < rx'[j]
      OBVIOUS
    <3>1. i + 1 \in 1 .. Len(rx) /\ j + 1 \in 1 .. Len(rx) /\ rx'[i] = rx[i + 1] /\ rx'[j] = rx[j + 1]
      BY <2>3, Zenon
    <3>2. i + 1 < j + 1
      BY <1>3, <1>4
    <3> QED BY <3>1, <3>2, <2>2, Zenon
  <2> QED BY <2>4, <2>5, <2>6, Zenon DEF Arrivals
<1>7. ASSUME NEW v \in Nat, Older(v) PROVE Older(v)'
  <2>1. v <= arrived /\ \A i \in 1 .. Len(rx) : v < rx[i]
    BY <1>7, Zenon DEF Older
  <2>2. \A i \in 1 .. Len(rx') : v < rx'[i]
    BY <2>1, <1>3, <1>4
  <2> QED BY <2>1, <2>2, <1>1, <1>4 DEF Older
<1>8. RingTypes'
  BY <1>1, Zenon DEF InterruptInv, RingTypes, ring, history
<1>9. IrqTypes'
  BY Zenon DEF InterruptInv, IrqTypes
<1>10. Handling'
  BY <1>1, SetUp DEF InterruptInv, Handling
<1>11. CheckStillHolds'
  BY <1>1 DEF InterruptInv, Handling, CheckStillHolds
<1>12. ~lapped' => RingInv' /\ ReaderInv'
  BY <1>1, <1>7, RingSame, Zenon DEF InterruptInv
<1> QED BY <1>3, <1>5, <1>6, <1>8, <1>9, <1>10, <1>11, <1>12, Zenon DEF InterruptInv

\* uart_irq_handler puts its character in the ring, at whatever point of
\* nb_uart_recv it interrupted, once per call.
LEMMA StoreInRing ==
  ASSUME InterruptInv, pc = "store", HandlerStore, pc' = "none", ~lapped'
  PROVE  RingInv' /\ ReaderInv'
<1>1. /\ buffer' = [buffer EXCEPT ![put_pos] = input] /\ put_pos' = Wrap(put_pos)
      /\ read_pos' = IF read_pos = Wrap(put_pos) THEN Wrap(read_pos) ELSE read_pos
      /\ drops' = IF read_pos = Wrap(put_pos) THEN drops + 1 ELSE drops
      /\ stored' = stored + 1 /\ puts' = IF InRecv /\ puts < 2 THEN puts + 1 ELSE puts
      /\ rx' = rx /\ fg' = fg /\ arrived' = arrived /\ taken' = taken /\ last' = last
  BY Zenon DEF HandlerStore, device
<1>2. ~lapped /\ puts' # 2
  BY Zenon DEF HandlerStore
<1>3. RingTypes /\ RingInv /\ ReaderInv /\ Arrivals
  BY <1>2, Zenon DEF InterruptInv
<1>4. puts = 0 /\ puts' \in {0, 1} /\ (InRecv => puts' = 1) /\ (~InRecv => puts' = 0)
  BY <1>1, <1>2, <1>3 DEF RingInv
<1>14. /\ fg.pc \in {"index", "char", "load", "store"} => Count > 0
       /\ fg.pc \in {"put_pos", "char", "store"} => fg.reg = read_pos
       /\ fg.pc \in {"load", "store"} => fg.ch = Item(0)
       /\ fg.pc \in {"check", "wrap"} => Leaving(fg.ch) /\ Count < UART_BUF_LEN - 1
  BY <1>3, <1>4 DEF ReaderInv
<1>15. fg' = fg
  BY <1>1, Zenon
<1>5. \A v \in Nat : Older(v) => Older(v)' /\ v < input
  BY <1>1, Zenon DEF Older
<1>6. PICK i \in Nat : i = input /\ i \in Chars /\ i <= arrived /\ Older(i)'
  <2>1. input \in 1 .. arrived /\ arrived \in 0 .. MaxChars /\ MaxChars \in Nat
    BY <1>3, UartAssumption, Zenon DEF Arrivals, InterruptInv, DeviceTypes
  <2>2. input \in Nat /\ input \in Chars /\ input <= arrived
    BY <2>1 DEF Chars
  <2>3. \A j \in 1 .. Len(rx) : input < rx[j]
    BY <1>3, Zenon DEF Arrivals
  <2>4. PICK i \in Nat : i = input
    BY <2>2, Zenon
  <2>5. Older(i)'
    BY <2>2, <2>3, <2>4, <1>1, Zenon DEF Older
  <2> QED BY <2>2, <2>4, <2>5, Zenon
<1>7. PICK n \in Nat : n = Count
  BY <1>3, Places
<1>8. /\ UART_BUF_LEN \in Nat /\ UART_BUF_LEN > 1 /\ n \in 0 .. UART_BUF_LEN - 1
      /\ First \in 0 .. UART_BUF_LEN - 1 /\ put_pos \in 0 .. UART_BUF_LEN - 1
      /\ InHand \in {0, 1} /\ InHand' = InHand
  BY <1>1, <1>3, <1>7, Places, Zenon DEF InHand
<1>9. /\ last \in Nat /\ Older(last) /\ stored <= taken + InHand + n + drops
      /\ \A k \in 0 .. n - 1 : Item(k) \in Chars /\ Item(k) \in Nat /\ Item(k) > last /\ Older(Item(k))
      /\ \A j, k \in 0 .. n - 1 : j < k => Item(j) < Item(k)
  BY <1>3, <1>7 DEF RingInv, Chars
<1>10. stored \in Nat /\ taken \in Nat /\ drops \in Nat
  BY <1>3, Zenon DEF RingTypes
<1>13. ASSUME NEW k \in Nat, Item(k)' \in Chars, Item(k)' > last, NEW v \in Nat, v = Item(k)', Older(v)'
       PROVE  (Item(k) \in Chars /\ Item(k) > last /\ Older(Item(k)))'
  BY <1>1, <1>13, Zenon DEF Older
<1>11. CASE read_pos # Wrap(put_pos)
  <2>1. n < UART_BUF_LEN - 1
    <3>1. CASE read_pos = UART_BUF_LEN
      <4>1. fg.pc \in {"check", "wrap"}
        BY <3>1, <1>3, <1>8 DEF RingTypes
      <4> QED BY <4>1, <1>7, <1>14, Zenon
    <3>2. CASE read_pos # UART_BUF_LEN
      BY <3>2, <1>7, <1>8, <1>11 DEF Count, First, Wrap
    <3> QED BY <3>1, <3>2, Zenon
  <2>2. Count' = n + 1 /\ Item(n)' = input /\ \A k \in 0 .. n - 1 : Item(k)' = Item(k)
    BY <2>1, <1>1, <1>3, <1>7, <1>11, StoreRoom, Zenon
  <2>3. ASSUME NEW k \in 0 .. n
        PROVE  (Item(k) \in Chars /\ Item(k) > last /\ Older(Item(k)))'
    <3>1. CASE k = n
      <4>1. k \in Nat /\ Item(k)' = i /\ i > last
        BY <3>1, <2>2, <1>5, <1>6, <1>9, Zenon
      <4> QED BY <4>1, <1>6, <1>13, Zenon
    <3>2. CASE k # n
      <4>1. k \in 0 .. n - 1
        BY <3>2
      <4> QED BY <4>1, <2>2, <1>5, <1>9, <1>13
    <3> QED BY <3>1, <3>2, Zenon
  <2>4. RingInv'
    <3>1. \A j, k \in 0 .. n : j < k => Item(j)' < Item(k)'
      BY <2>2, <1>5, <1>9
    <3>2. stored' <= taken' + InHand' + (n + 1) + drops'
      BY <1>1, <1>8, <1>9, <1>10, <1>11
    <3>3. 0 .. Count' - 1 = 0 .. n
      BY <2>2
    <3>4. ~InRecv' => puts' = 0
      BY <1>1, <1>4, Zenon DEF InRecv
    <3>5. (last \in Nat /\ Older(last))'
      BY <1>1, <1>5, <1>9, Zenon DEF Older
    <3> QED BY <2>2, <2>3, <3>1, <3>2, <3>3, <3>4, <3>5, <1>4, Zenon DEF RingInv
  <2>5. ASSUME NEW v, Leaving(v) PROVE Leaving(v)'
    <3>1. v \in Chars /\ v \in Nat /\ v > last /\ Older(v) /\ \A k \in 0 .. n - 1 : v < Item(k)
      BY <2>5, <1>7 DEF Leaving, Chars
    <3>2. \A k \in 0 .. n : v < Item(k)'
      BY <3>1, <2>2, <1>5
    <3>3. 0 .. Count' - 1 = 0 .. n
      BY <2>2
    <3> QED BY <3>1, <3>2, <3>3, <1>1, <1>5, Zenon DEF Leaving
  <2>6. read_pos' = read_pos
    BY <1>1, <1>11, Zenon
  <2>7. n > 0 => Item(0)' = Item(0)
    BY <2>2
  <2>8. Count' > 0
    BY <2>2
  <2>9. fg.pc \in {"check", "wrap"} => Leaving(fg.ch)'
    <3>1. PICK v : v = fg.ch
      OBVIOUS
    <3>2. fg.pc \in {"check", "wrap"} => Leaving(v)'
      BY <3>1, <2>5, <1>14, Zenon
    <3> QED BY <3>1, <3>2, <1>15, Zenon DEF Leaving
  <2>10. fg.pc \in {"load", "store"} => fg.ch = Item(0)'
    BY <2>7, <1>7, <1>14, Zenon
  <2>11. ReaderInv'
    <3>1. InRecv => puts' = 1
      BY <1>4, Zenon
    <3>2. fg.pc \in {"char", "store"} => fg'.reg = read_pos'
      BY <2>6, <1>14, <1>15, Zenon
    <3>3. fg.pc \in {"load", "store"} => fg'.ch = Item(0)'
      BY <2>10, <1>15, Zenon
    <3> QED BY <2>8, <2>9, <3>1, <3>2, <3>3, <1>15 DEF ReaderInv, InRecv
  <2> QED BY <2>4, <2>11, Zenon
<1>12. CASE read_pos = Wrap(put_pos)
  <2>1. read_pos' = Wrap(read_pos) /\ drops' = drops + 1
    BY <1>1, <1>12, Zenon
  <2>2. /\ n = UART_BUF_LEN - 1 /\ Count' = n /\ Item(n - 1)' = input
        /\ \A k \in 0 .. n - 2 : Item(k)' = Item(k + 1)
        /\ buffer'[read_pos] = Item(0) /\ read_pos \in 0 .. UART_BUF_LEN - 1
    BY <2>1, <1>1, <1>3, <1>7, <1>12, StoreFull, Zenon
  <2>3. ASSUME NEW k \in 0 .. n - 1
        PROVE  (Item(k) \in Chars /\ Item(k) > last /\ Older(Item(k)))'
    <3>1. CASE k = n - 1
      <4>1. k \in Nat /\ Item(k)' = i /\ i > last
        BY <3>1, <2>2, <1>5, <1>6, <1>8, <1>9
      <4> QED BY <4>1, <1>6, <1>13, Zenon
    <3>2. CASE k # n - 1
      <4>1. k \in 0 .. n - 2 /\ k + 1 \in 0 .. n - 1
        BY <3>2
      <4> QED BY <4>1, <2>2, <1>5, <1>9, <1>13
    <3> QED BY <3>1, <3>2, Zenon
  <2>4. RingInv'
    <3>1. ASSUME NEW j \in 0 .. n - 1, NEW k \in 0 .. n - 1, j < k PROVE Item(j)' < Item(k)'
      <4>1. j \in 0 .. n - 2 /\ j + 1 \in 0 .. n - 1 /\ Item(j)' = Item(j + 1)
        BY <3>1, <2>2
      <4>2. CASE k = n - 1
        BY <4>1, <4>2, <2>2, <1>5, <1>9, Zenon
      <4>3. CASE k # n - 1
        <5>1. k \in 0 .. n - 2 /\ k + 1 \in 0 .. n - 1 /\ Item(k)' = Item(k + 1) /\ j + 1 < k + 1
          BY <3>1, <4>3, <2>2
        <5> QED BY <4>1, <5>1, <1>9, Zenon
      <4> QED BY <4>2, <4>3, Zenon
    <3>2. stored' <= taken' + InHand' + n + drops'
      BY <2>1, <1>1, <1>8, <1>9, <1>10
    <3>4. ~InRecv' => puts' = 0
      BY <1>1, <1>4, Zenon DEF InRecv
    <3>5. (last \in Nat /\ Older(last))'
      BY <1>1, <1>5, <1>9, Zenon DEF Older
    <3> QED BY <2>2, <2>3, <3>1, <3>2, <3>4, <3>5, <1>4, Zenon DEF RingInv
  <2>5. ASSUME NEW v, v = Item(0) PROVE Leaving(v)'
    <3>1. v \in Chars /\ v > last /\ Older(v) /\ v \in Nat /\ n > 0
      BY <2>2, <2>5, <1>8, <1>9
    <3>2. ASSUME NEW k \in 0 .. n - 1 PROVE v < Item(k)'
      <4>1. CASE k = n - 1
        BY <4>1, <3>1, <2>2, <1>5, Zenon
      <4>2. CASE k # n - 1
        <5>1. k \in 0 .. n - 2 /\ k + 1 \in 0 .. n - 1 /\ 0 \in 0 .. n - 1 /\ 0 < k + 1
          BY <4>2
        <5> QED BY <5>1, <2>2, <2>5, <1>9, Zenon
      <4> QED BY <4>1, <4>2, Zenon
    <3> QED BY <3>1, <3>2, <2>2, <1>1, <1>5, Zenon DEF Leaving
  <2>6. n > 0 /\ ~(fg.pc \in {"check", "wrap"})
    BY <2>2, <1>7, <1>8, <1>14
  <2>7. PICK v : v = Item(0)
    OBVIOUS
  <2>8. Leaving(v)'
    BY <2>5, <2>7, Zenon
  <2>9. fg.pc \in {"load", "store"} => Leaving(fg.ch)'
    <3>1. fg.pc \in {"load", "store"} => fg'.ch = v
      BY <2>7, <1>14, <1>15, Zenon
    <3> QED BY <3>1, <2>8, Zenon DEF Leaving
  <2>10. fg.pc = "char" => Leaving(buffer[fg.reg])'
    <3>1. fg.pc = "char" => buffer'[fg'.reg] = v
      BY <2>2, <2>7, <1>14, <1>15, Zenon
    <3> QED BY <3>1, <2>8, Zenon DEF Leaving
  <2>11. fg.pc = "store" => read_pos' = Wrap(fg.reg)
    BY <2>1, <1>14, Zenon
  <2>12. Count' > 0
    BY <2>2, <2>6, Zenon
  <2>13. ReaderInv'
    BY <2>6, <2>9, <2>10, <2>11, <2>12, <1>4, <1>15 DEF ReaderInv, InRecv, Wrap
  <2> QED BY <2>4, <2>13, Zenon
<1> QED BY <1>11, <1>12, Zenon

\* uart_irq_handler stores the character, dropping the oldest from a full ring, and
\* returns.
LEMMA HandlerStoreKeeps ==
  ASSUME InterruptInv, pc = "store", HandlerStore, Eret,
         UNCHANGED <<once, enabled, usb, timer, slack, early, clean>>
  PROVE  InterruptInv'
<1>1. /\ fen' = fen /\ rx' = rx /\ ris' = ris /\ imsc' = imsc /\ txff' = txff /\ fg' = fg
      /\ input' = input /\ arrived' = arrived /\ taken' = taken /\ last' = last
      /\ early' = early /\ clean' = clean /\ pc' = "none" /\ masked' = FALSE
  BY Zenon DEF HandlerStore, device, Eret
<1>2. DeviceTypes'
  BY <1>1, Zenon DEF InterruptInv, DeviceTypes, Depth
<1>3. RingTypes'
  <2>1. RingTypes /\ UART_BUF_LEN \in Nat /\ UART_BUF_LEN > 1
    BY UartAssumption, Zenon DEF InterruptInv
  <2>2. put_pos' \in 0 .. UART_BUF_LEN - 1
    BY <2>1 DEF RingTypes, HandlerStore, Wrap
  <2>3. \/ read_pos' \in 0 .. UART_BUF_LEN - 1
        \/ read_pos' = UART_BUF_LEN /\ fg.pc \in {"check", "wrap"}
    BY <2>1 DEF RingTypes, HandlerStore, Wrap
  <2>4. fg.pc = "wrap" => read_pos' = UART_BUF_LEN
    BY <2>1 DEF RingTypes, HandlerStore, Wrap
  <2>5. buffer' \in [0 .. UART_BUF_LEN - 1 -> Chars \cup {None}]
    <3>1. buffer \in [0 .. UART_BUF_LEN - 1 -> Chars \cup {None}]
      BY <2>1, Zenon DEF RingTypes
    <3>2. input \in Chars \cup {None} /\ buffer' = [buffer EXCEPT ![put_pos] = input]
      BY Zenon DEF HandlerStore, InterruptInv, DeviceTypes
    <3> QED BY <3>1, <3>2, Zenon
  <2>6. stored' \in Nat /\ drops' \in Nat /\ puts' \in 0 .. 2
    <3>1. stored \in Nat /\ drops \in Nat /\ puts \in 0 .. 2
      BY <2>1, Zenon DEF RingTypes
    <3>2. /\ stored' = stored + 1 /\ drops' \in {drops, drops + 1}
          /\ puts' = puts \/ (puts < 2 /\ puts' = puts + 1)
      BY Zenon DEF HandlerStore
    <3> QED BY <3>1, <3>2
  <2>7. lapped' \in BOOLEAN
    BY Zenon DEF HandlerStore
  <2> QED BY <2>1, <2>2, <2>3, <2>4, <2>5, <2>6, <2>7, <1>1, Zenon DEF RingTypes
<1>4. IrqTypes'
  BY <1>1, Zenon DEF InterruptInv, IrqTypes
<1>5. Handling'
  BY <1>1, SetUp, Zenon DEF InterruptInv, Handling
<1>6. FifoInv'
  BY <1>1 DEF InterruptInv, FifoInv, Trigger
<1>7. Arrivals'
  BY <1>1, Zenon DEF InterruptInv, Arrivals
<1>8. CheckStillHolds'
  BY <1>1 DEF InterruptInv, CheckStillHolds
<1>9. ~lapped' => RingInv' /\ ReaderInv'
  BY <1>1, StoreInRing, Zenon
<1> QED BY <1>2, <1>3, <1>4, <1>5, <1>6, <1>7, <1>8, <1>9, Zenon DEF InterruptInv

(***************************************************************************)
(* Initialisation                                                          *)
(***************************************************************************)
\* uart_init empties the FIFOs and switches them off.
LEMMA BootUartKeeps == ASSUME InterruptInv, BootUart PROVE InterruptInv'
<1>1. /\ fg.pc = "boot" /\ fen' = FALSE /\ rx' = <<>> /\ ris' = FALSE /\ imsc' = FALSE
      /\ UNCHANGED <<ring, fg, history>> /\ input' = input /\ arrived' = arrived
      /\ masked' = masked /\ once' = once /\ enabled' = enabled /\ usb' = usb /\ timer' = timer
      /\ slack' = slack /\ pc' = pc /\ early' = early /\ clean' = clean
      /\ fg' = fg /\ stored' = stored /\ lapped' = lapped
  BY Zenon DEF BootUart, uart_init, irqVars, history
<1>2. txff' \in BOOLEAN /\ rx' \in Seq(Chars) /\ Len(rx') = 0 /\ Trigger' = 1 /\ Depth' = 1
  BY <1>1 DEF BootUart, uart_init, WriteDR, Trigger, Depth
<1>3. DeviceTypes'
  <2>1. DeviceTypes
    BY Zenon DEF InterruptInv
  <2>2. /\ fen' \in BOOLEAN /\ ris' \in BOOLEAN /\ imsc' \in BOOLEAN
        /\ input' \in Chars \cup {None} /\ arrived' \in 0 .. MaxChars
    BY <2>1, <1>1, Zenon DEF DeviceTypes
  <2>3. Len(rx') <= Depth'
    BY <1>2
  <2> QED BY <2>2, <2>3, <1>2, Zenon DEF DeviceTypes
<1>4. RingTypes'
  BY <1>1, Zenon DEF InterruptInv, RingTypes, ring, history
<1>5. IrqTypes'
  BY <1>1 DEF InterruptInv, IrqTypes
<1>6. Handling' /\ pc = "none"
  BY <1>1, Zenon DEF InterruptInv, Handling
<1>7. FifoInv'
  BY <1>1, <1>2, Zenon DEF FifoInv
<1>8. Arrivals'
  BY <1>1, <1>2, <1>6 DEF Arrivals
<1>9. CheckStillHolds'
  BY <1>1, Zenon DEF CheckStillHolds
<1>10. \A v \in Nat : Older(v) => Older(v)'
  BY <1>1, <1>2 DEF Older
<1>11. ~lapped' => RingInv' /\ ReaderInv'
  BY <1>1, <1>10, RingSame, Zenon DEF InterruptInv
<1> QED BY <1>3, <1>4, <1>5, <1>6, <1>7, <1>8, <1>9, <1>11, Zenon DEF InterruptInv

\* arch_interrupt_init clears ICR: only a character that came before can wait in
\* the FIFO without an interrupt.
LEMMA InterruptInitKeeps == ASSUME InterruptInv, arch_interrupt_init PROVE InterruptInv'
<1>1. /\ fg.pc = "boot" /\ fg' = [fg EXCEPT !.pc = "timer"] /\ masked' = TRUE /\ once' = 0
      /\ usb' = usb /\ timer' = timer /\ slack' = slack /\ pc' = pc /\ clean' = clean
      /\ fen' = fen /\ rx' = rx /\ txff' = txff /\ buffer' = buffer /\ input' = input
      /\ arrived' = arrived /\ stored' = stored /\ taken' = taken /\ last' = last /\ drops' = drops
      /\ puts' = puts /\ lapped' = lapped
  BY Zenon DEF arch_interrupt_init, interrupt_init, enable_uart_irq, device, ring, history
<1>2. \/ /\ enabled' = {IRQ_USB, IRQ_UART} /\ ris' = FALSE /\ imsc' = TRUE
         /\ read_pos' = 0 /\ put_pos' = 0
      \/ /\ enabled' = enabled /\ early' = early /\ ris' = ris /\ imsc' = imsc
         /\ read_pos' = read_pos /\ put_pos' = put_pos
  BY Zenon DEF arch_interrupt_init, interrupt_init, enable_uart_irq, device, ring
<1>3. early' \in BOOLEAN
  <2>1. early \in BOOLEAN /\ (early' = early \/ early' = (rx # <<>>))
    BY Zenon DEF arch_interrupt_init, interrupt_init, InterruptInv, IrqTypes
  <2> QED BY Zenon, <2>1
<1>3a. (ris' = FALSE /\ (early' <=> rx # <<>>)) \/ (early' = early /\ ris' = ris /\ imsc' = imsc)
  BY Zenon DEF arch_interrupt_init, interrupt_init, enable_uart_irq, device
<1>4. pc = "none" /\ stored = 0 /\ fg \in Calls
  BY <1>1, Zenon DEF InterruptInv, Handling, RingTypes
<1>5. fg' \in Calls /\ fg'.pc = "timer"
  BY <1>1, <1>4, Zenon DEF Calls, Phases
<1>6. DeviceTypes'
  BY <1>1, <1>2, Zenon DEF InterruptInv, DeviceTypes, Depth
<1>7. RingTypes'
  BY <1>1, <1>2, <1>5, UartAssumption DEF InterruptInv, RingTypes
<1>8. IrqTypes'
  BY <1>1, <1>2, <1>3, Zenon DEF InterruptInv, IrqTypes
<1>9. Handling'
  BY <1>1, <1>4, <1>5, Zenon DEF InterruptInv, Handling
<1>10. FifoInv'
  <2>1. CASE ris' = FALSE /\ (early' <=> rx # <<>>)
    <3>1. rx = <<>> => Len(rx) = 0
      OBVIOUS
    <3>2. Trigger' \in Nat /\ Trigger' >= 1
      BY <1>6, UartAssumption DEF Trigger, DeviceTypes
    <3> QED BY <2>1, <3>1, <3>2, <1>1 DEF FifoInv
  <2>2. CASE early' = early /\ ris' = ris /\ imsc' = imsc
    BY <2>2, <1>1, Zenon DEF InterruptInv, FifoInv, Trigger
  <2> QED BY <2>1, <2>2, <1>3a, Zenon
<1>11. Arrivals'
  BY <1>1, Zenon DEF InterruptInv, Arrivals
<1>12. CheckStillHolds'
  BY <1>5, Zenon DEF CheckStillHolds
<1>13. \A v \in Nat : Older(v) => Older(v)'
  BY <1>1, Zenon DEF Older
<1>14. ASSUME ~lapped' PROVE RingInv' /\ ReaderInv'
  <2>1. RingTypes /\ RingInv
    BY <1>1, <1>14, Zenon DEF InterruptInv
  <2>2. ~InRecv /\ ~InRecv'
    BY <1>1, <1>5, Zenon DEF InRecv
  <2>3. CASE read_pos' = read_pos /\ put_pos' = put_pos
    BY <2>1, <2>2, <2>3, <1>1, <1>13, RingOutside, Zenon DEF ring, history
  <2>4. CASE read_pos' = 0 /\ put_pos' = 0
    <3>1. Count' = 0
      BY <2>4, UartAssumption DEF Count, First
    <3>2. InHand' = 0
      BY <2>2, Zenon DEF InHand, InRecv
    <3>3. (last \in Nat /\ Older(last))'
      BY <2>1, <1>1, <1>13, Zenon DEF RingInv, Older
    <3>4. stored' <= taken' + InHand' + Count' + drops'
      BY <3>1, <3>2, <1>1, <1>4, <2>1 DEF RingTypes
    <3>5. puts' = 0
      BY <2>1, <2>2, <1>1, Zenon DEF RingInv
    <3>6. RingInv'
      BY <3>1, <3>3, <3>4, <3>5 DEF RingInv
    <3> QED BY <3>6, <2>2, Zenon DEF ReaderInv, InRecv
  <2> QED BY <2>3, <2>4, <1>2, Zenon
<1> QED BY <1>6, <1>7, <1>8, <1>9, <1>10, <1>11, <1>12, <1>14, Zenon DEF InterruptInv

\* timer_init starts the timer.
LEMMA TimerInitKeeps == ASSUME InterruptInv, timer_init, pc = "none" PROVE InterruptInv'
<1>1. /\ fg.pc = "timer" /\ fg' = [fg EXCEPT !.pc = "idle"]
      /\ timer' = [on |-> TRUE, expired |-> FALSE] /\ slack' = FALSE
      /\ fen' = fen /\ rx' = rx /\ ris' = ris /\ imsc' = imsc /\ txff' = txff
      /\ UNCHANGED <<ring, history>> /\ input' = input /\ arrived' = arrived /\ lapped' = lapped
      /\ masked' = masked /\ once' = once /\ enabled' = enabled /\ usb' = usb /\ pc' = pc
      /\ early' = early /\ clean' = clean
  BY Zenon DEF timer_init, plat_timer_init, device, history
<1>2. fg \in Calls
  BY Zenon DEF InterruptInv, RingTypes
<1>3. fg' \in Calls /\ fg'.pc = "idle"
  BY <1>1, <1>2, Zenon DEF Calls, Phases
<1>4. DeviceTypes'
  BY <1>1, Zenon DEF InterruptInv, DeviceTypes, Depth
<1>5. RingTypes'
  BY <1>1, <1>3, Zenon DEF InterruptInv, RingTypes, ring, history
<1>6. IrqTypes'
  BY <1>1, Zenon DEF InterruptInv, IrqTypes
<1>7. Handling'
  BY <1>1, <1>3, Zenon DEF InterruptInv, Handling
<1>8. FifoInv'
  BY <1>1, Zenon DEF InterruptInv, FifoInv, Trigger
<1>9. Arrivals'
  BY <1>1, Zenon DEF InterruptInv, Arrivals
<1>10. CheckStillHolds'
  BY <1>3, Zenon DEF CheckStillHolds
<1>11. \A v \in Nat : Older(v) => Older(v)'
  BY <1>1, Zenon DEF Older
<1>12. ~lapped' => RingInv' /\ ReaderInv'
  BY <1>1, <1>3, <1>11, RingOutside, Zenon DEF InterruptInv, InRecv
<1> QED BY <1>4, <1>5, <1>6, <1>7, <1>8, <1>9, <1>10, <1>12, Zenon DEF InterruptInv

(***************************************************************************)
(* The calls                                                               *)
(***************************************************************************)
\* nb_uart_recv keeps the types: an index it has loaded stays an index.
LEMMA RecvTypes ==
  ASSUME RingTypes, nb_uart_recv
  PROVE  RingTypes' /\ fg.pc \notin {"boot", "timer"} /\ fg'.pc \notin {"boot", "timer", "send", "recv"}
<1>1. /\ buffer' = buffer /\ put_pos' = put_pos /\ stored' = stored /\ drops' = drops
      /\ UART_BUF_LEN \in Nat /\ UART_BUF_LEN > 1
  BY UartAssumption, Zenon DEF nb_uart_recv
<1>2. /\ fg \in Calls
      /\ buffer \in [0 .. UART_BUF_LEN - 1 -> Chars \cup {None}]
      /\ taken \in Nat /\ puts \in 0 .. 2 /\ lapped \in BOOLEAN
  BY Zenon DEF RingTypes
<1>3. CASE RecvEmpty /\ UNCHANGED read_pos
  <2>1. /\ read_pos' = read_pos /\ read_pos \in 0 .. UART_BUF_LEN - 1
        /\ fg.pc \in {"idle", "put_pos"} /\ fg'.pc \in {"put_pos", "index", "idle"}
        /\ fg' \in Calls
    <3>1. CASE fg.pc = "idle" /\ Load("put_pos", read_pos)
      BY <3>1, <1>1, <1>2, <1>3, Zenon DEF Load, RingTypes, Calls, Phases
    <3>2. CASE fg.pc = "put_pos" /\ Idle
      BY <3>2, <1>1, <1>2, <1>3, Zenon DEF Idle, RingTypes, Calls, Phases
    <3>3. CASE fg.pc = "put_pos" /\ Goto("index")
      BY <3>3, <1>1, <1>2, <1>3, Zenon DEF Goto, RingTypes, Calls, Phases
    <3> QED BY <3>1, <3>2, <3>3, <1>3, Zenon DEF RecvEmpty, ReturnNone
  <2>2. taken' = taken /\ lapped' = lapped /\ puts' \in 0 .. 2
    BY <1>2, <1>3 DEF RecvEmpty, ReturnNone
  <2> QED BY <2>1, <2>2, <1>1, <1>2, Zenon DEF RingTypes
<1>4. CASE RecvChar /\ UNCHANGED <<read_pos, taken, last, puts, lapped>>
  <2>1. /\ read_pos' = read_pos /\ read_pos \in 0 .. UART_BUF_LEN - 1
        /\ fg.pc \in {"index", "char", "load"} /\ fg'.pc \in {"char", "load", "store"}
        /\ fg'.pc \in {"char", "store"} => fg'.reg = read_pos
    <3>1. read_pos' = read_pos /\ fg.pc \in {"index", "char", "load"}
      BY <1>4, Zenon DEF RecvChar
    <3>2. read_pos \in 0 .. UART_BUF_LEN - 1
      BY <3>1, Zenon DEF RingTypes
    <3>3. CASE fg.pc = "index" /\ Load("char", read_pos)
      BY <3>1, <3>2, <3>3, <1>2, Zenon DEF Load, Calls
    <3>4. CASE fg' = [fg EXCEPT !.pc = "load", !.ch = buffer[fg.reg]]
      BY <3>1, <3>2, <3>4, <1>2, Zenon DEF Calls
    <3>5. CASE fg.pc = "load" /\ Load("store", read_pos)
      BY <3>1, <3>2, <3>5, <1>2, Zenon DEF Load, Calls
    <3> QED BY <3>3, <3>4, <3>5, <1>4, Zenon DEF RecvChar
  <2>2. fg.pc = "char" => buffer[fg.reg] \in Chars \cup {None}
    BY <1>2, Zenon DEF RingTypes
  <2>3. fg' \in Calls
    BY <2>1, <2>2, <1>2, <1>4, ZenonT(30) DEF RecvChar, Load, Calls, Phases
  <2> QED BY <2>1, <2>3, <1>1, <1>2, <1>4, Zenon DEF RingTypes
<1>5. CASE RecvAdvance
  <2>1. /\ fg' \in Calls
        /\ fg.pc \in {"store", "check", "wrap"} /\ fg'.pc \in {"check", "wrap", "idle"}
    BY <1>1, <1>2, <1>5 DEF RecvAdvance, Goto, Idle, ReturnChar, Calls, Phases
  <2>2. taken' \in Nat /\ lapped' = lapped /\ puts' \in 0 .. 2
    BY <1>2, <1>5 DEF RecvAdvance, ReturnChar
  <2>3. /\ read_pos' \in 0 .. UART_BUF_LEN - 1 \/ (read_pos' = UART_BUF_LEN /\ fg'.pc \in {"check", "wrap"})
        /\ fg'.pc = "wrap" => read_pos' = UART_BUF_LEN
    <3>1. CASE fg.pc = "store" /\ read_pos' = fg.reg + 1 /\ Goto("check")
      BY <3>1, <1>1, <1>2 DEF Goto, RingTypes, Calls
    <3>2. CASE fg.pc = "check" /\ read_pos = UART_BUF_LEN /\ Goto("wrap") /\ read_pos' = read_pos
      BY <3>2, <1>1, <1>2, Zenon DEF Goto, RingTypes, Calls
    <3>3. CASE read_pos # UART_BUF_LEN /\ Idle /\ read_pos' = read_pos
      BY <3>3, <1>1, Zenon DEF Idle, RingTypes
    <3>4. CASE read_pos' = 0 /\ Idle
      BY <3>4, <1>1 DEF Idle
    <3> QED BY <3>1, <3>2, <3>3, <3>4, <1>5, Zenon DEF RecvAdvance, ReturnChar
  <2> QED BY <2>1, <2>2, <2>3, <1>1, <1>2, Zenon DEF RingTypes
<1> QED BY <1>3, <1>4, <1>5, Zenon DEF nb_uart_recv

\* nb_uart_recv up to the load of the index it will increment.
LEMMA RecvLoads ==
  ASSUME RingTypes, RingInv, ReaderInv, RecvEmpty \/ (RecvChar /\ UNCHANGED <<taken, last, puts, lapped>>),
         UNCHANGED <<read_pos, buffer, put_pos, rx, input, arrived, stored, drops, pc>>
  PROVE  RingInv' /\ ReaderInv'
<1>1. /\ taken' = taken /\ last' = last /\ puts' \in {0, puts} /\ stored' = stored /\ drops' = drops
      /\ read_pos' = read_pos /\ buffer' = buffer /\ put_pos' = put_pos
  BY Zenon DEF RecvEmpty, RecvChar, ReturnNone
<1>2. First' = First /\ \A v : Older(v)' <=> Older(v)
  BY Zenon DEF First, Older
<1>3. Count' = Count /\ \A k : Item(k)' = Item(k)
  BY <1>1, <1>2, SamePlaces, Zenon
<1>4. \A v : Leaving(v)' <=> Leaving(v)
  BY <1>1, <1>2, <1>3, Zenon DEF Leaving
<1>5. /\ fg \in Calls
      /\ read_pos \in 0 .. UART_BUF_LEN - 1 /\ put_pos \in 0 .. UART_BUF_LEN - 1
      /\ InHand = 0 /\ InHand' = 0
  <2>1. fg \in Calls /\ fg.pc \notin {"check", "wrap"}
    BY Zenon DEF RingTypes, RecvEmpty, RecvChar
  <2>2. fg'.pc \notin {"check", "wrap"}
    <3>1. ASSUME NEW p, Goto(p) \/ Load(p, read_pos) PROVE fg'.pc = p
      BY <3>1, <2>1, Zenon DEF Goto, Load, Calls
    <3>2. Idle => fg'.pc = "idle"
      BY DEF Idle
    <3>3. ASSUME fg' = [fg EXCEPT !.pc = "load", !.ch = buffer[fg.reg]] PROVE fg'.pc = "load"
      BY <3>3, <2>1, Zenon DEF Calls
    <3> QED BY <3>1, <3>2, <3>3, Zenon DEF RecvEmpty, RecvChar, ReturnNone
  <2> QED BY <2>1, <2>2, Zenon DEF RingTypes, InHand
<1>6. First = read_pos /\ Item(0) = buffer[read_pos] /\ (Count = 0 <=> read_pos = put_pos)
  <2>1. First = read_pos /\ UART_BUF_LEN \in Nat
    BY <1>5, UartAssumption DEF First
  <2>2. Item(0) = buffer[read_pos]
    BY <2>1, Places, Zenon DEF Item
  <2>3. Count = 0 <=> read_pos = put_pos
    BY <2>1, <1>5 DEF Count
  <2> QED BY <2>1, <2>2, <2>3, Zenon
<1>7. ~InRecv' => puts' = 0
  BY <1>5, Zenon DEF RecvEmpty, RecvChar, ReturnNone, Load, Goto, Idle, InRecv, Calls
<1>8. RingInv'
  <2>1. (last \in Nat /\ Older(last))'
    BY <1>1, <1>2, Zenon DEF RingInv, Older
  <2>2. (\A k \in 0 .. Count - 1 : Item(k) \in Chars /\ Item(k) > last /\ Older(Item(k)))'
    BY <1>1, <1>2, <1>3, Zenon DEF RingInv, Older
  <2> QED BY <2>1, <2>2, <1>1, <1>3, <1>5, <1>7, Zenon DEF RingInv
<1>9. ReaderInv'
  <2>1. CASE fg.pc = "idle"
    <3>1. fg'.pc = "put_pos" /\ fg'.reg = read_pos
      BY <2>1, <1>5, Zenon DEF RecvEmpty, RecvChar, Load, Calls
    <3> QED BY <3>1, <1>1, Zenon DEF ReaderInv
  <2>2. CASE fg.pc = "put_pos"
    <3>1. fg'.pc = "idle" \/ (fg'.pc = "index" /\ fg.reg # put_pos)
      BY <2>2, <1>5 DEF RecvEmpty, RecvChar, ReturnNone, Idle, Goto, Calls
    <3>2. fg'.pc = "index" => Count > 0
      <4>1. fg.reg = read_pos \/ Count > 0
        BY <2>2, Zenon DEF ReaderInv
      <4>2. Count \in Nat
        BY Places
      <4>3. fg.reg = read_pos /\ fg'.pc = "index" => Count # 0
        BY <3>1, <1>6, Zenon
      <4> QED BY <4>1, <4>2, <4>3
    <3> QED BY <3>1, <3>2, <1>3, Zenon DEF ReaderInv
  <2>3. CASE fg.pc = "index"
    <3>1. fg'.pc = "char" /\ fg'.reg = read_pos
      BY <2>3, <1>5, Zenon DEF RecvEmpty, RecvChar, Load, Calls
    <3> QED BY <3>1, <2>3, <1>1, <1>3, Zenon DEF ReaderInv
  <2>4. CASE fg.pc = "char"
    <3>1. fg'.pc = "load" /\ fg'.ch = buffer[fg.reg] /\ puts' = puts
      BY <2>4, <1>5, Zenon DEF RecvEmpty, RecvChar, Load, Calls
    <3>2. PICK v : v = buffer[fg.reg]
      OBVIOUS
    <3>3. v = Item(0)' \/ (puts' = 1 /\ Leaving(v)')
      BY <3>1, <3>2, <2>4, <1>3, <1>4, <1>6, Zenon DEF ReaderInv
    <3>4. fg'.ch = Item(0)' \/ (puts' = 1 /\ Leaving(fg.ch)')
      BY <3>1, <3>2, <3>3, Zenon DEF Leaving
    <3> QED BY <3>1, <3>4, <2>4, <1>3, Zenon DEF ReaderInv
  <2>5. CASE fg.pc = "load"
    <3>1. fg'.pc = "store" /\ fg'.reg = read_pos /\ fg'.ch = fg.ch /\ puts' = puts
      BY <2>5, <1>5, Zenon DEF RecvEmpty, RecvChar, Load, Calls
    <3>2. PICK v : v = fg.ch
      OBVIOUS
    <3>3. v = Item(0)' \/ (puts' = 1 /\ Leaving(v)')
      BY <3>1, <3>2, <2>5, <1>3, <1>4, Zenon DEF ReaderInv
    <3>4. fg'.ch = Item(0)' \/ (puts' = 1 /\ Leaving(fg.ch)')
      BY <3>1, <3>2, <3>3, Zenon DEF Leaving
    <3> QED BY <3>1, <3>4, <2>5, <1>1, <1>3, Zenon DEF ReaderInv
  <2> QED BY <2>1, <2>2, <2>3, <2>4, <2>5, Zenon DEF RecvEmpty, RecvChar
<1> QED BY <1>8, <1>9, Zenon

\* nb_uart_recv stores the index it incremented.  If the handler discarded the
\* character it took, the index is where the handler left read_pos; otherwise
\* the oldest character leaves the ring.
LEMMA RecvStores ==
  ASSUME RingTypes, RingInv, ReaderInv, fg.pc = "store", read_pos' = fg.reg + 1, Goto("check"),
         UNCHANGED <<buffer, put_pos, rx, input, arrived, stored, drops, pc, taken, last, puts>>
  PROVE  RingInv' /\ ReaderInv'
<1>1. /\ UART_BUF_LEN \in Nat /\ UART_BUF_LEN > 1 /\ read_pos \in 0 .. UART_BUF_LEN - 1
      /\ fg.reg \in 0 .. UART_BUF_LEN - 1 /\ fg \in Calls
      /\ stored \in Nat /\ taken \in Nat /\ drops \in Nat
  BY UartAssumption, Zenon DEF RingTypes
<1>2. fg'.pc = "check" /\ fg'.reg = fg.reg /\ fg'.ch = fg.ch
  BY <1>1, Zenon DEF Goto, Calls
<1>3. PICK n \in Nat : n = Count /\ n > 0 /\ n <= UART_BUF_LEN - 1
  <2>1. Count > 0
    BY Zenon DEF ReaderInv
  <2>2. Count \in 0 .. UART_BUF_LEN - 1
    BY Places, Zenon
  <2> QED BY <2>1, <2>2, <1>1
<1>4. PICK c : c = fg.ch
  OBVIOUS
<1>5. InHand = 0 /\ InHand' = 1 /\ InRecv'
  BY <1>2, Zenon DEF InHand, InRecv
<1>6. \A v : Older(v) <=> Older(v)'
  BY Zenon DEF Older
<1>7. /\ last \in Nat /\ Older(last) /\ stored <= taken + n + drops /\ puts \in {0, 1}
      /\ \A k \in 0 .. n - 1 : Item(k) \in Chars /\ Item(k) \in Nat /\ Item(k) > last /\ Older(Item(k))
      /\ \A j, k \in 0 .. n - 1 : j < k => Item(j) < Item(k)
  <2>1. stored <= taken + 0 + n + drops
    BY <1>3, <1>5, Zenon DEF RingInv
  <2>2. stored <= taken + n + drops
    BY <2>1, <1>1
  <2>3. /\ last \in Nat /\ Older(last) /\ puts \in {0, 1}
        /\ \A k \in 0 .. n - 1 : Item(k) \in Chars /\ Item(k) > last /\ Older(Item(k))
        /\ \A j, k \in 0 .. n - 1 : j < k => Item(j) < Item(k)
    BY <1>3, Zenon DEF RingInv
  <2>4. \A v \in Chars : v \in Nat
    BY UartAssumption DEF Chars
  <2> QED BY <2>2, <2>3, <2>4, Zenon
<1>8. c = Item(0) \/ Leaving(c)
  BY <1>4, Zenon DEF ReaderInv
<1>9. c \in Chars /\ c > last /\ Older(c) /\ \A k \in 1 .. n - 1 : c < Item(k)
  <2>1. CASE c = Item(0)
    <3>1. 0 \in 0 .. n - 1 /\ \A k \in 1 .. n - 1 : k \in 0 .. n - 1 /\ 0 < k
      BY <1>3
    <3> QED BY <2>1, <3>1, <1>7, Zenon
  <2>2. CASE Leaving(c)
    BY <2>2, <1>3 DEF Leaving
  <2> QED BY <2>1, <2>2, <1>8, Zenon
<1>10. (last \in Nat /\ Older(last))'
  BY <1>7, Zenon DEF Older
<1>11. ASSUME NEW m \in Nat, Count' = m, stored <= taken + 1 + m + drops,
              \A k \in 0 .. m - 1 : \E i \in 0 .. n - 1 : Item(k)' = Item(i) /\ c < Item(i),
              \A j, k \in 0 .. m - 1 : j < k => Item(j)' < Item(k)',
              puts = 0 => m < UART_BUF_LEN - 1
       PROVE  RingInv' /\ ReaderInv'
  <2>1. (\A k \in 0 .. Count - 1 : Item(k) \in Chars /\ Item(k) > last /\ Older(Item(k)))'
    BY <1>6, <1>7, <1>11 DEF Older
  <2>2. RingInv'
    BY <2>1, <1>5, <1>7, <1>10, <1>11, Zenon DEF RingInv
  <2>3. Leaving(c)'
    BY <1>6, <1>9, <1>11, Zenon DEF Leaving
  <2>4. Leaving(fg.ch)'
    BY <2>3, <1>2, <1>4, Zenon DEF Leaving
  <2> QED BY <2>2, <2>4, <1>2, <1>11, Zenon DEF ReaderInv
<1>12. CASE fg.reg = read_pos
  <2>1. Count' = n - 1 /\ \A k \in 0 .. n - 2 : Item(k)' = Item(k + 1)
    BY <1>1, <1>3, <1>12, Advance, Zenon
  <2>2. PICK m \in Nat : m = n - 1
    BY <1>3
  <2>3. \A k \in 0 .. m - 1 : k + 1 \in 1 .. n - 1 /\ k + 1 \in 0 .. n - 1 /\ k \in 0 .. n - 2
    BY <2>2, <1>3
  <2>4. \A k \in 0 .. m - 1 : Item(k)' = Item(k + 1) /\ c < Item(k + 1)
    BY <2>1, <2>3, <1>9, Zenon
  <2>5. ASSUME NEW j \in 0 .. m - 1, NEW k \in 0 .. m - 1, j < k PROVE Item(j)' < Item(k)'
    <3>1. j + 1 < k + 1
      BY <2>5
    <3> QED BY <3>1, <2>3, <2>4, <1>7, Zenon
  <2>6. stored <= taken + 1 + m + drops /\ m < UART_BUF_LEN - 1 /\ Count' = m
    BY <2>1, <2>2, <1>1, <1>3, <1>7, SMTT(30)
  <2>7. \A k \in 0 .. m - 1 : \E i \in 0 .. n - 1 : Item(k)' = Item(i) /\ c < Item(i)
    BY <2>3, <2>4, Zenon
  <2>8. \A j, k \in 0 .. m - 1 : j < k => Item(j)' < Item(k)'
    BY <2>5, Zenon
  <2> QED BY <2>6, <2>7, <2>8, <1>11, Zenon
<1>13. CASE fg.reg # read_pos
  <2>1. puts = 1 /\ Leaving(c) /\ read_pos = Wrap(fg.reg)
    BY <1>4, <1>13, Zenon DEF ReaderInv
  <2>2. First' = First
    BY <2>1, <1>1, Zenon DEF First, Wrap
  <2>3. Count' = n /\ \A k : Item(k)' = Item(k)
    BY <2>2, <1>3, SamePlaces, Zenon
  <2>4. \A k \in 0 .. n - 1 : c < Item(k)
    BY <2>1, <1>3, Zenon DEF Leaving
  <2>5. stored <= taken + 1 + n + drops
    BY <1>1, <1>3, <1>7
  <2>6. \A k \in 0 .. n - 1 : \E i \in 0 .. n - 1 : Item(k)' = Item(i) /\ c < Item(i)
    BY <2>3, <2>4, Zenon
  <2>7. \A j, k \in 0 .. n - 1 : j < k => Item(j)' < Item(k)'
    BY <2>3, <1>7, Zenon
  <2>8. Count' = n /\ (puts = 0 => n < UART_BUF_LEN - 1)
    BY <2>1, <2>3
  <2> QED BY <2>5, <2>6, <2>7, <2>8, <1>11, Zenon
<1> QED BY <1>12, <1>13, Zenon

\* ... wraps it, and returns the character.
LEMMA RecvReturns ==
  ASSUME RingTypes, RingInv, ReaderInv, fg.pc \in {"check", "wrap"}, RecvAdvance,
         UNCHANGED <<buffer, put_pos, rx, input, arrived, stored, drops, pc>>
  PROVE  RingInv' /\ ReaderInv'
<1>1. fg \in Calls /\ (fg.pc = "wrap" => read_pos = UART_BUF_LEN)
      /\ stored \in Nat /\ taken \in Nat /\ drops \in Nat
  BY Zenon DEF RingTypes
<1>2. First' = First
  BY <1>1, UartAssumption, Zenon DEF RecvAdvance, First
<1>3. Count' = Count /\ \A k : Item(k)' = Item(k)
  BY <1>2, SamePlaces, Zenon
<1>4. \A v : Older(v) <=> Older(v)'
  BY Zenon DEF Older
<1>5. PICK c : c = fg.ch
  OBVIOUS
<1>6. Leaving(c) /\ InHand = 1 /\ Count \in Nat
  <2>1. Leaving(c)
    BY <1>5, Zenon DEF ReaderInv
  <2>2. InHand = 1
    BY Zenon DEF InHand
  <2>3. Count \in Nat
    BY Places
  <2> QED BY <2>1, <2>2, <2>3, Zenon
<1>7. CASE fg.pc = "check" /\ Goto("wrap") /\ UNCHANGED <<taken, last, puts>>
  <2>1. fg'.pc = "wrap" /\ fg'.ch = c
    BY <1>1, <1>5, <1>7, Zenon DEF Goto, Calls
  <2>2. InHand' = 1 /\ InRecv'
    BY <2>1, Zenon DEF InHand, InRecv
  <2>3. (last \in Nat /\ Older(last))'
    BY <1>4, <1>7, Zenon DEF RingInv, Older
  <2>4. (\A k \in 0 .. Count - 1 : Item(k) \in Chars /\ Item(k) > last /\ Older(Item(k)))'
    BY <1>3, <1>4, <1>7, Zenon DEF RingInv, Older
  <2>5. RingInv'
    BY <2>2, <2>3, <2>4, <1>3, <1>6, <1>7, Zenon DEF RingInv
  <2>6. Leaving(c)'
    BY <1>3, <1>4, <1>6, <1>7, Zenon DEF Leaving
  <2>7. Leaving(fg.ch)'
    BY <2>1, <2>6, Zenon DEF Leaving
  <2> QED BY <2>1, <2>5, <2>7, <1>3, <1>7, Zenon DEF ReaderInv
<1>8. CASE ReturnChar
  <2>1. fg'.pc = "idle" /\ taken' = taken + 1 /\ last' = c /\ puts' = 0
    BY <1>5, <1>8, Zenon DEF ReturnChar, Idle
  <2>2. InHand' = 0 /\ ~InRecv'
    BY <2>1, Zenon DEF InHand, InRecv
  <2>3. c \in Nat /\ Older(c)
    BY <1>6 DEF Leaving, Chars
  <2>4. (last \in Nat /\ Older(last))'
    BY <2>1, <2>3, <1>4, Zenon DEF Older
  <2>5. (\A k \in 0 .. Count - 1 : Item(k) \in Chars /\ Item(k) > last /\ Older(Item(k)))'
    <3>1. \A k \in 0 .. Count - 1 : Item(k) \in Nat /\ c < Item(k)
      BY <1>6, SMTT(30) DEF RingInv, Leaving, Chars
    <3>2. \A k \in 0 .. Count - 1 : Item(k) \in Chars /\ Older(Item(k))
      BY Zenon DEF RingInv
    <3>3. \A k \in 0 .. Count - 1 : Item(k) > c
      BY <2>3, <3>1
    <3> QED BY <1>3, <1>4, <2>1, <3>2, <3>3, Zenon DEF Older
  <2>6. stored' <= taken' + InHand' + Count' + drops'
    BY <2>1, <2>2, <1>1, <1>3, <1>6, SMTT(30) DEF RingInv
  <2>7. RingInv'
    BY <2>1, <2>4, <2>5, <2>6, <1>3, Zenon DEF RingInv
  <2> QED BY <2>1, <2>7, Zenon DEF ReaderInv
<1> QED BY <1>7, <1>8, Zenon DEF RecvAdvance

\* A step of a call, as far as the interrupts are concerned.
LEMMA CallFrame ==
  ASSUME InterruptInv, pc = "none", Call, fg.pc \notin {"boot", "timer"}, fg'.pc \notin {"boot", "timer"}
  PROVE  /\ IrqTypes' /\ Handling' /\ pc' = pc /\ early' = early
         /\ clean' => clean \/ fg'.pc \in {"send", "recv"}
<1>1. /\ masked' = masked /\ once' = once /\ enabled' = enabled /\ usb' = usb /\ timer' = timer
      /\ pc' = pc /\ early' = early /\ slack' = TRUE
  BY Zenon DEF Call
<1>2. clean' \in BOOLEAN /\ (clean' <=> (clean \/ fg'.pc \in {"send", "recv"}))
  BY Zenon DEF Call
<1>3. IrqTypes'
  BY <1>1, <1>2, Zenon DEF InterruptInv, IrqTypes
<1>4. Handling'
  BY <1>1, Zenon DEF Handling
<1> QED BY <1>1, <1>2, <1>3, <1>4, Zenon

\* A step of nb_uart_recv keeps the invariant, at each of its loads and stores.
LEMMA RecvKeeps == ASSUME InterruptInv, pc = "none", Call, nb_uart_recv PROVE InterruptInv'
<1>1. /\ fen' = fen /\ rx' = rx /\ ris' = ris /\ imsc' = imsc /\ txff' = txff
      /\ input' = input /\ arrived' = arrived
      /\ buffer' = buffer /\ put_pos' = put_pos /\ stored' = stored /\ drops' = drops
  BY Zenon DEF nb_uart_recv, device
<1>2. RingTypes' /\ fg.pc \notin {"boot", "timer"} /\ fg'.pc \notin {"boot", "timer", "send", "recv"}
  BY RecvTypes, Zenon DEF InterruptInv
<1>3. IrqTypes' /\ Handling' /\ pc' = pc /\ early' = early
  BY <1>2, CallFrame, Zenon
<1>4. DeviceTypes'
  BY <1>1, Zenon DEF InterruptInv, DeviceTypes, Depth
<1>5. FifoInv'
  BY <1>1, <1>3, Zenon DEF InterruptInv, FifoInv, Trigger
<1>6. Arrivals'
  BY <1>1, <1>3, Zenon DEF InterruptInv, Arrivals
<1>7. CheckStillHolds'
  BY <1>2, Zenon DEF CheckStillHolds
<1>8. lapped' = lapped
  BY Zenon DEF nb_uart_recv, RecvEmpty, RecvAdvance, ReturnNone, ReturnChar
<1>9. ASSUME ~lapped' PROVE RingInv' /\ ReaderInv'
  <2>1. RingTypes /\ RingInv /\ ReaderInv
    BY <1>8, <1>9, Zenon DEF InterruptInv
  <2>2. CASE RecvEmpty /\ UNCHANGED read_pos
    BY <2>1, <2>2, <1>1, <1>3, RecvLoads, Zenon
  <2>3. CASE RecvChar /\ UNCHANGED <<read_pos, taken, last, puts, lapped>>
    BY <2>1, <2>3, <1>1, <1>3, RecvLoads, Zenon
  <2>4. CASE RecvAdvance
    <3>1. CASE fg.pc = "store"
      <4>1. read_pos' = fg.reg + 1 /\ Goto("check") /\ UNCHANGED <<taken, last, puts>>
        BY <2>4, <3>1, Zenon DEF RecvAdvance
      <4> QED BY <2>1, <3>1, <4>1, <1>1, <1>3, RecvStores, Zenon
    <3>2. CASE fg.pc # "store"
      <4>1. fg.pc \in {"check", "wrap"}
        BY <2>4, <3>2, Zenon DEF RecvAdvance
      <4> QED BY <2>1, <2>4, <4>1, <1>1, <1>3, RecvReturns, Zenon
    <3> QED BY <3>1, <3>2, Zenon
  <2> QED BY <2>2, <2>3, <2>4, Zenon DEF nb_uart_recv
<1> QED BY <1>2, <1>3, <1>4, <1>5, <1>6, <1>7, <1>9, Zenon DEF InterruptInv

\* uart_send and uart_recv leave the ring alone, and what they checked holds as
\* long as no interrupt comes.
LEMMA SendRecvKeeps ==
  ASSUME InterruptInv, pc = "none", Call, SendCall \/ uart_recv PROVE InterruptInv'
<1>1. /\ fen' = fen /\ imsc' = imsc /\ input' = input /\ arrived' = arrived
      /\ UNCHANGED <<ring, history>> /\ lapped' = lapped
      /\ read_pos' = read_pos /\ put_pos' = put_pos /\ buffer' = buffer /\ stored' = stored
      /\ taken' = taken /\ last' = last /\ drops' = drops /\ puts' = puts
  BY Zenon DEF SendCall, uart_recv, ring, history
<1>2. RingTypes /\ DeviceTypes /\ FifoInv /\ Arrivals /\ fg \in Calls
  BY Zenon DEF InterruptInv, RingTypes
<1>3. \/ fg'.pc = "send_wait" /\ fg.pc = "idle"
      \/ fg'.pc = "send" /\ fg.pc = "send_wait" /\ ~txff /\ txff' = txff
      \/ fg'.pc = "idle" /\ fg.pc \in {"send", "recv"}
      \/ fg'.pc = "recv_wait" /\ fg.pc = "idle"
      \/ fg'.pc = "recv" /\ fg.pc = "recv_wait" /\ rx # <<>> /\ rx' = rx
  <2>1. ASSUME NEW p, Goto(p) PROVE fg'.pc = p
    BY <2>1, <1>2, Zenon DEF Goto, Calls
  <2>2. Idle => fg'.pc = "idle"
    BY DEF Idle
  <2> QED BY <2>1, <2>2, Zenon DEF SendCall, uart_recv
<1>4. fg' \in Calls
  <2>1. ASSUME NEW p \in Phases, Goto(p) PROVE fg' \in Calls
    BY <2>1, <1>2, Zenon DEF Goto, Calls
  <2>2. Idle => fg' \in Calls
    BY DEF Idle, Calls, Phases
  <2>3. {"send_wait", "send", "recv_wait", "recv"} \subseteq Phases
    BY Zenon DEF Phases
  <2> QED BY <2>1, <2>2, <2>3, Zenon DEF SendCall, uart_recv
<1>5. ~InRecv /\ ~InRecv'
  BY <1>3, Zenon DEF InRecv
<1>6. RingTypes'
  BY <1>1, <1>2, <1>3, <1>4, Zenon DEF RingTypes
<1>7. /\ IrqTypes' /\ Handling' /\ pc' = pc /\ early' = early
      /\ clean' => clean \/ fg'.pc \in {"send", "recv"}
  BY <1>3, CallFrame, Zenon
<1>8. txff' \in BOOLEAN
  BY Zenon DEF SendCall, uart_recv, WriteDR, InterruptInv, DeviceTypes
<1>9. (ReadDR /\ fg.pc = "recv") \/ UNCHANGED <<rx, ris>>
  BY Zenon DEF SendCall, uart_recv
<1>10. CheckStillHolds'
  BY <1>3, Zenon DEF CheckStillHolds
<1>11. CASE UNCHANGED <<rx, ris>>
  <2>1. DeviceTypes' /\ FifoInv' /\ Arrivals'
    BY <1>1, <1>2, <1>7, <1>8, <1>11, Zenon DEF DeviceTypes, FifoInv, Arrivals, Depth, Trigger
  <2>2. \A v \in Nat : Older(v) => Older(v)'
    BY <1>1, <1>7, <1>11, Zenon DEF Older
  <2>3. ~lapped' => RingInv' /\ ReaderInv'
    BY <2>2, <1>1, <1>2, <1>5, RingOutside, Zenon DEF InterruptInv
  <2> QED BY <2>1, <2>3, <1>6, <1>7, <1>10, Zenon DEF InterruptInv
<1>12. CASE ReadDR /\ fg.pc = "recv"
  <2>1. /\ FifoInv' /\ ris' \in BOOLEAN /\ rx' \in Seq(Chars) /\ Len(rx') <= Depth /\ Len(rx') <= Len(rx)
        /\ rx # <<>> => /\ Len(rx') = Len(rx) - 1 /\ \A i \in 1 .. Len(rx) - 1 : rx'[i] = rx[i + 1]
        /\ rx = <<>> => rx' = rx
    BY <1>1, <1>2, <1>7, <1>12, ReadKeeps, Zenon
  <2>2. Len(rx) \in Nat /\ (rx = <<>> \/ rx # <<>>)
    BY <1>2 DEF DeviceTypes
  <2>3. \A i \in 1 .. Len(rx') : \E j \in 1 .. Len(rx) : rx'[i] = rx[j]
    <3>1. CASE rx = <<>>
      BY <3>1, <2>1, Zenon
    <3>2. CASE rx # <<>>
      BY <3>2, <2>1, <2>2
    <3> QED BY <3>1, <3>2, Zenon
  <2>4. \A i, j \in 1 .. Len(rx') : i < j => rx'[i] < rx'[j]
    <3>0. \A i, j \in 1 .. Len(rx) : i < j => rx[i] < rx[j]
      BY <1>2, Zenon DEF Arrivals
    <3>1. CASE rx = <<>>
      BY <3>0, <3>1, <2>1, Zenon
    <3>2. CASE rx # <<>>
      BY <3>0, <3>2, <2>1, <2>2
    <3> QED BY <3>1, <3>2, Zenon
  <2>5. DeviceTypes'
    BY <2>1, <1>1, <1>2, <1>8, Zenon DEF DeviceTypes, Depth
  <2>6. Arrivals'
    BY <2>3, <2>4, <1>1, <1>2, <1>7, Zenon DEF Arrivals
  <2>7. \A v \in Nat : Older(v) => Older(v)'
    BY <2>3, <1>1, <1>7, Zenon DEF Older
  <2>8. ~lapped' => RingInv' /\ ReaderInv'
    BY <2>7, <1>1, <1>2, <1>5, RingOutside, Zenon DEF InterruptInv
  <2> QED BY <2>1, <2>5, <2>6, <2>8, <1>6, <1>7, <1>10, Zenon DEF InterruptInv
<1> QED BY <1>9, <1>11, <1>12, Zenon

(***************************************************************************)
(* The theorems                                                            *)
(***************************************************************************)
LEMMA InterruptsStart == ASSUME Init PROVE InterruptInv
<1>1. /\ fen \in BOOLEAN /\ ris \in BOOLEAN /\ imsc \in BOOLEAN /\ txff \in BOOLEAN
      /\ ~ris /\ ~imsc /\ input = None /\ arrived = 0
  BY Zenon DEF Init, UartInit
<1>2. rx \in Seq(Chars) /\ Len(rx) = 0 /\ UART_BUF_LEN \in Nat /\ UART_BUF_LEN > 1 /\ MaxChars \in Nat
      /\ Depth \in Nat /\ Len(rx) <= Depth
  <2>1. rx = <<>>
    BY Zenon DEF Init, UartInit
  <2>2. Depth \in Nat
    BY UartAssumption, Zenon DEF Depth
  <2> QED BY <2>1, <2>2, UartAssumption
<1>3. DeviceTypes
  BY <1>1, <1>2 DEF DeviceTypes
<1>4. /\ buffer \in [0 .. UART_BUF_LEN - 1 -> Chars \cup {None}] /\ read_pos = 0 /\ put_pos = 0
      /\ stored = 0 /\ taken = 0 /\ last = 0 /\ drops = 0 /\ puts = 0 /\ lapped \in BOOLEAN
  <2>1. lapped \in BOOLEAN
    BY Zenon DEF Init, UartInit
  <2> QED BY <2>1, Zenon DEF Init, UartInit
<1>5. fg \in Calls /\ fg.pc = "boot"
  BY Zenon DEF Init, UartInit, Calls, Phases
<1>6. RingTypes
  BY <1>2, <1>4, <1>5 DEF RingTypes
<1>7. IrqTypes /\ pc = "none" /\ masked
  BY Zenon DEF Init, IrqTypes
<1>8. Handling /\ CheckStillHolds
  BY <1>4, <1>5, <1>7, Zenon DEF Handling, CheckStillHolds
<1>9. FifoInv /\ Arrivals
  BY <1>1, <1>2, <1>7 DEF FifoInv, Arrivals
<1>10. Count = 0 /\ InHand = 0 /\ ~InRecv
  BY <1>2, <1>4, <1>5 DEF Count, First, InHand, InRecv
<1>11. Older(last)
  BY <1>1, <1>2, <1>4, <1>7 DEF Older
<1>12. RingInv
  BY <1>4, <1>10, <1>11 DEF RingInv
<1>13. ReaderInv
  BY <1>5, Zenon DEF ReaderInv
<1> QED BY <1>3, <1>6, <1>7, <1>8, <1>9, <1>12, <1>13, Zenon DEF InterruptInv

\* Every step of the handler, of the drivers and of the devices keeps it.
LEMMA InterruptsKeep == ASSUME InterruptInv, Next PROVE InterruptInv'
<1>1. CASE Device
  <2>1. CASE Transmit /\ UNCHANGED irqVars
    <3>1. txff' \in BOOLEAN /\ clean' = clean /\ ~txff'
      BY <2>1, Zenon DEF Transmit, irqVars
    <3> QED BY <2>1, <3>1, TransmitKeeps, Zenon DEF Transmit, irqVars
  <2> QED BY <2>1, <1>1, ArriveStep, UsbKeeps, Zenon DEF Device
<1>2. CASE TakeIrq
  BY <1>2, TakeIrqKeeps, Zenon
<1>3. CASE Handler
  <2>1. pc # "none" => ~clean
    BY Zenon DEF InterruptInv, Handling
  <2>2. CASE Kinfo
    BY <2>1, <2>2, TransmitKeeps, Zenon DEF Kinfo, uart_send, WriteDR
  <2>3. CASE uart_irq_handler
    <3>1. CASE pc = "read"
      BY <2>3, <3>1, HandlerReadKeeps, Zenon DEF uart_irq_handler
    <3>2. CASE pc = "echo"
      BY <2>1, <2>3, <3>2, TransmitKeeps, Zenon DEF uart_irq_handler, uart_send, WriteDR
    <3>3. CASE pc = "store"
      BY <2>3, <3>3, HandlerStoreKeeps, Zenon DEF uart_irq_handler
    <3> QED BY <2>3, <3>1, <3>2, <3>3, Zenon DEF uart_irq_handler
  <2> QED BY <2>2, <2>3, <1>3, ReadSourceKeeps, Zenon DEF Handler
<1>4. CASE pc = "none" /\ Boot
  BY <1>4, BootUartKeeps, InterruptInitKeeps, TimerInitKeeps, Zenon DEF Boot
<1>5. CASE pc = "none" /\ Interrupted
  <2>1. CASE Call
    BY <2>1, <1>5, RecvKeeps, SendRecvKeeps, Zenon DEF Call
  <2> QED BY <2>1, <1>5, IdleKeeps, Zenon DEF Interrupted
<1> QED BY <1>1, <1>2, <1>3, <1>4, <1>5, Zenon DEF Next

\* The inductive invariant holds whatever the sizes of the ring and the FIFOs.
THEOREM InterruptInvariant == Spec => []InterruptInv
<1>1. Init => InterruptInv
  BY InterruptsStart, Zenon
<1>2. InterruptInv /\ [Next]_vars => InterruptInv'
  <2> SUFFICES ASSUME InterruptInv, [Next]_vars PROVE InterruptInv'
    OBVIOUS
  <2>1. CASE Next
    BY <2>1, InterruptsKeep, Zenon
  <2>2. CASE UNCHANGED vars
    <3>1. UNCHANGED <<uartVars, early>> /\ clean' = clean /\ pc' = pc /\ masked' = masked
          /\ once' = once /\ enabled' = enabled /\ usb' = usb /\ timer' = timer /\ slack' = slack
          /\ fg' = fg /\ stored' = stored /\ ris' = ris /\ early' = early
      BY <2>2, Zenon DEF vars, irqVars, uartVars, device, history
    <3>2. IrqTypes'
      BY <3>1 DEF InterruptInv, IrqTypes
    <3>3. Handling'
      BY <3>1, Zenon DEF InterruptInv, Handling
    <3> QED BY <3>1, <3>2, <3>3, IrqOnly, Zenon
  <2> QED BY <2>1, <2>2, Zenon
<1> QED BY <1>1, <1>2, PTL DEF Spec

\* read_pos and put_pos stay in range: read_pos is UART_BUF_LEN at most between
\* the two stores of nb_uart_recv.
THEOREM InterruptTypeCorrect == Spec => []TypeOK
<1>1. InterruptInv => TypeOK
  <2> SUFFICES ASSUME InterruptInv PROVE TypeOK
    OBVIOUS
  <2>1. DeviceTypes /\ RingTypes /\ IrqTypes
    BY Zenon DEF InterruptInv
  <2>2. fg.reg \in 0 .. UART_BUF_LEN - 1 \cup {None} /\ fg.ch \in Chars \cup {None}
    BY <2>1, Zenon DEF RingTypes, Calls
  <2> QED BY <2>1, <2>2, Zenon DEF DeviceTypes, RingTypes, IrqTypes, TypeOK
<1> QED BY <1>1, InterruptInvariant, PTL

\* Without a lock, and with interrupts unmasked, nb_uart_recv and
\* uart_irq_handler keep the characters in the order of arrival and repeat none,
\* as long as at most one is stored during a call.
THEOREM RingInOrder == Spec => []InOrder
<1>1. InterruptInv => InOrder
  <2> SUFFICES ASSUME InterruptInv, ~lapped PROVE InOrder
    BY Zenon DEF InOrder
  <2>1. RingTypes /\ RingInv /\ ReaderInv
    BY Zenon DEF InterruptInv
  <2>2. Count \in Nat /\ Len(Contents) = Count /\ \A i \in 1 .. Count : Contents[i] = Item(i - 1)
    <3>1. Count \in Nat
      BY <2>1, Places
    <3>2. Len(Contents) = Count /\ \A i \in 1 .. Count : Contents[i] = Item(i - 1)
      BY <2>1, ContentsAre, Zenon
    <3> QED BY <3>1, <3>2, Zenon
  <2>3. \A i \in 1 .. Count : i - 1 \in 0 .. Count - 1
    BY <2>2
  <2>4. \A i \in 1 .. Len(Contents) : Contents[i] \in Chars /\ Contents[i] > last
    BY <2>1, <2>2, <2>3, Zenon DEF RingInv
  <2>5. ASSUME NEW i \in 1 .. Len(Contents) - 1 PROVE Contents[i] < Contents[i + 1]
    <3>1. i \in 1 .. Count /\ i + 1 \in 1 .. Count /\ i - 1 < (i + 1) - 1
      BY <2>2
    <3> QED BY <3>1, <2>1, <2>2, <2>3, Zenon DEF RingInv
  <2>6. ASSUME fg.pc \in {"check", "wrap"}
        PROVE  fg.ch \in Chars /\ fg.ch > last /\ (Contents # <<>> => fg.ch < Contents[1])
    <3>1. Leaving(fg.ch)
      BY <2>1, <2>6, Zenon DEF ReaderInv
    <3>2. Contents \in Seq(Chars)
      <4>1. Contents = [i \in 1 .. Count |-> Item(i - 1)]
        BY <2>1, ContentsAre, Zenon
      <4>2. \A i \in 1 .. Count : Item(i - 1) \in Chars
        BY <2>2, <2>4, Zenon
      <4> QED BY <4>1, <4>2, <2>2
    <3>3. Contents # <<>> => Count > 0
      BY <3>2, <2>2
    <3>4. Count > 0 => Contents[1] = Item(0) /\ 0 \in 0 .. Count - 1
      BY <2>2
    <3> QED BY <3>1, <3>3, <3>4, Zenon DEF Leaving
  <2> QED BY <2>4, <2>5, <2>6, Zenon DEF InOrder
<1> QED BY <1>1, InterruptInvariant, PTL

\* uart_irq_handler discards one character for each time it finds the ring full,
\* and nothing else is lost.
THEOREM OnlyOverflowLoses == Spec => []LossOnlyByOverflow
<1>1. InterruptInv => LossOnlyByOverflow
  <2> SUFFICES ASSUME InterruptInv, ~lapped PROVE LossOnlyByOverflow
    BY Zenon DEF LossOnlyByOverflow
  <2>1. RingTypes /\ RingInv
    BY Zenon DEF InterruptInv
  <2>2. Len(Contents) = Count
    BY <2>1, ContentsAre, Zenon
  <2> QED BY <2>1, <2>2, Zenon DEF RingInv, LossOnlyByOverflow
<1> QED BY <1>1, InterruptInvariant, PTL

\* What uart_send and uart_recv read in FR holds at their access to DR, if no
\* interrupt came between.
THEOREM ChecksStillHold == Spec => []CheckStillHolds
<1>1. InterruptInv => CheckStillHolds
  BY Zenon DEF InterruptInv
<1> QED BY <1>1, InterruptInvariant, PTL

\* A FIFO at its trigger level has its interrupt raised, unless a character was
\* there before enable_uart_irq cleared ICR.
THEOREM FifoNeverStuck == Spec => []NoStuckFifo
<1>1. InterruptInv => NoStuckFifo
  BY Zenon DEF InterruptInv, FifoInv, NoStuckFifo
<1> QED BY <1>1, InterruptInvariant, PTL

=============================================================================
