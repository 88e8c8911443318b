---------------------------- MODULE MachineProofs --------------------------
(***************************************************************************)
(* The machine.  The exceptions, for any threads and any depth of nesting: *)
(* an invariant that implies FramesIntact and ContextRestored.  The boot,  *)
(* for any number of cores and any layout: an invariant that implies       *)
(* StacksKept, LowMapGone and, with what the tables init_kernel_pt fills   *)
(* translate, AccessesMapped.  And the mailbox.                            *)
(***************************************************************************)
EXTENDS Machine, BootTableProofs

(***************************************************************************)
(* The exceptions                                                          *)
(***************************************************************************)
\* The handlers an exception can lead to: from a thread, and from the kernel.
FromEL0 == {<<"handle_irq">>, <<"sync_el0_64">>, <<"syscall", "poweroff">>, <<"syscall", "other">>}
FromEL1 == {<<"handle_irq">>, <<"sync_el1h">>}

\* What a register or a word of a frame can hold.
SpsrEL1 == {<<"el1h", TRUE>>, <<"el1h", FALSE>>}
Value ==
  FromEL0 \cup FromEL1 \cup UserPc \cup SpsrEL1 \cup {<<"kernel">>, <<"el0">>} \cup
  {<<"C">>, <<"free">>, <<"scratch">>, <<"argument">>, <<"-EBADSYSCALL">>} \cup
  {<<"thread", t, n>> : t \in Threads, n \in {0, 1}}
Frame == [Saved -> Value]

\* Where the frame of the i-th nested exception is, and the frame of its handler's
\* C code, if thread context c (0: the kernel) was interrupted first, by an
\* exception that led to the handler l.
FrameAt(c, l, i) ==
  IF c = 0 THEN -2 * i
  ELSE IF i = 1 THEN c
  ELSE IF l = <<"handle_irq">> THEN c - 2 * (i - 1) ELSE -2 * (i - 1)
CFrameAt(c, l, i) ==
  IF c # 0 /\ i = 1 /\ l # <<"handle_irq">> THEN -1 ELSE FrameAt(c, l, i) - 1

\* The handler of the i-th exception: the one that runs, or the one the next
\* exception interrupted.
Label(i) == IF i = Len(live) THEN pc ELSE live[i + 1].frame["elr_el1"]

\* What is known of the i-th of the nested exceptions.
LevelInv(i) ==
  LET first == cur # 0 /\ i = 1
      at == FrameAt(cur, Label(1), i)
  IN  /\ live[i].at = at /\ live[i].sp = at + 1
      /\ mem[at] = live[i].frame
      /\ mem[CFrameAt(cur, Label(1), i)] = CFrame(live[i].frame["elr_el1"])
      /\ Label(i) \in IF first THEN FromEL0 ELSE FromEL1
      /\ live[i].frame["spsr_el1"] \in
           IF first THEN {<<"el0">>} ELSE SpsrEL1
      /\ i = 1 => live[i].frame["elr_el1"] \in IF first THEN UserPc ELSE {<<"kernel">>}

\* The stack pointer and the program counter fit the nested exceptions.
StackInv ==
  /\ live = <<>> => IF cur = 0 THEN pc = <<"kernel">> /\ sp = -1
                    ELSE pc \in UserPc /\ sp = cur + 1
  /\ live # <<>> => sp = CFrameAt(cur, Label(1), Len(live))
  /\ \A i \in 1 .. Len(live) : LevelInv(i)

\* A thread that does not run can be resumed at EL0.
ThreadInv ==
  \A t \in Threads :
    /\ want[t]["spsr_el1"] = <<"el0">> /\ want[t]["elr_el1"] \in UserPc
    /\ (mode = "el0" /\ cur = Ctx(t)) \/ mem[Ctx(t)] = want[t]

StateTypes ==
  /\ regs \in Frame /\ mem \in [Places -> Frame] /\ want \in [Threads -> Frame]
  /\ pc \in Value /\ mode = IF pc \in UserPc THEN "el0" ELSE "el1h"
  /\ masked \in BOOLEAN /\ halted \in BOOLEAN
  /\ sp \in Int /\ cur \in {0} \cup {Ctx(t) : t \in Threads}
  /\ live \in Seq([at : Int, frame : Frame, sp : Int]) /\ Len(live) <= MaxDepth
  /\ Len(due) <= 1

ExceptionsInv == StateTypes /\ StackInv /\ ThreadInv /\ ContextRestored

-----------------------------------------------------------------------------
\* The contexts kept at the top of the kernel stacks are apart from each other and
\* above the room that nested frames take.
LEMMA Contexts ==
  /\ Cardinality(Threads) \in Nat /\ Threads = 1 .. Cardinality(Threads)
  /\ Room \in Nat /\ MaxDepth \in Nat \ {0} /\ Room > 2 * MaxDepth
  /\ \A t \in Threads :
       /\ Ctx(t) \in Int /\ Ctx(t) >= Room /\ Ctx(t) + 1 \in Places
       /\ Ctx(t) \div Room = t
  /\ \A t, u \in Threads : t # u => Ctx(t) >= Ctx(u) + Room \/ Ctx(u) >= Ctx(t) + Room
<1>1. /\ Cardinality(Threads) \in Nat /\ Threads = 1 .. Cardinality(Threads)
      /\ Room \in Nat /\ MaxDepth \in Nat \ {0} /\ Room > 2 * MaxDepth
  BY ExceptionsAssumption, Zenon
<1>2. ASSUME NEW t \in Threads
      PROVE  /\ t * Room \in Int /\ t * Room >= Room /\ t * Room <= Room * Cardinality(Threads)
             /\ (t * Room) \div Room = t
  <2>1. t \in Nat /\ t >= 1 /\ t <= Cardinality(Threads) /\ Room > 0
    BY <1>1
  <2> QED BY <1>1, <2>1
<1>3. ASSUME NEW t \in Threads, NEW u \in Threads, t < u
      PROVE  u * Room >= t * Room + Room
  <2>1. t \in Int /\ u \in Int /\ u >= t + 1
    BY <1>1, <1>3
  <2> QED BY <1>1, <2>1
<1>4. ASSUME NEW t \in Threads, NEW u \in Threads, t # u
      PROVE  t < u \/ u < t
  BY <1>1, <1>4
<1> QED BY <1>1, <1>2, <1>3, <1>4 DEF Ctx, Places

\* Two frames of the nested exceptions never share a place.
LEMMA FramesApart ==
  ASSUME NEW c \in {0} \cup {Ctx(t) : t \in Threads}, NEW l,
         NEW i \in 1 .. MaxDepth, NEW j \in 1 .. MaxDepth
  PROVE  /\ FrameAt(c, l, i) \in Places /\ CFrameAt(c, l, i) \in Places
         /\ FrameAt(c, l, i) # CFrameAt(c, l, j)
         /\ i # j => /\ FrameAt(c, l, i) # FrameAt(c, l, j)
                     /\ CFrameAt(c, l, i) # CFrameAt(c, l, j)
<1>1. c \in Int /\ (c = 0 \/ c >= Room) /\ c + 1 \in Places
  BY Contexts DEF Places
<1>2. i \in Int /\ j \in Int /\ i >= 1 /\ j >= 1 /\ i <= MaxDepth /\ j <= MaxDepth
  BY Contexts
<1>3. /\ FrameAt(c, l, i) # CFrameAt(c, l, j)
      /\ i # j => /\ FrameAt(c, l, i) # FrameAt(c, l, j)
                  /\ CFrameAt(c, l, i) # CFrameAt(c, l, j)
  BY <1>1, <1>2, Contexts DEF FrameAt, CFrameAt
<1>4. FrameAt(c, l, i) \in Places /\ CFrameAt(c, l, i) \in Places
  BY <1>1, <1>2, Contexts, SMTT(30) DEF FrameAt, CFrameAt, Places
<1> QED BY <1>3, <1>4, Zenon

\* Only the first frame of a thread is in a thread's context, its own.
LEMMA ContextsApart ==
  ASSUME NEW c \in {0} \cup {Ctx(t) : t \in Threads}, NEW l, NEW i \in 1 .. MaxDepth, NEW t \in Threads
  PROVE  /\ CFrameAt(c, l, i) # Ctx(t)
         /\ FrameAt(c, l, i) = Ctx(t) => c = Ctx(t) /\ i = 1
<1>1. c \in Int /\ (c = 0 \/ (c >= Room /\ \E u \in Threads : c = Ctx(u)))
  BY Contexts
<1>2. i \in Int /\ i >= 1 /\ i <= MaxDepth
  BY Contexts
<1>3. Ctx(t) \in Int /\ Ctx(t) >= Room
  BY Contexts, Zenon
<1>4. c = 0 \/ c = Ctx(t) \/ c >= Ctx(t) + Room \/ Ctx(t) >= c + Room
  BY <1>1, Contexts, Zenon
<1>5. Room > 2 * MaxDepth /\ Room \in Int /\ MaxDepth \in Int
  BY Contexts
<1>6. CFrameAt(c, l, i) < c /\ FrameAt(c, l, i) <= c /\ (FrameAt(c, l, i) = c => c = 0 \/ i = 1)
  BY <1>1, <1>2, <1>5 DEF FrameAt, CFrameAt
<1>7. /\ CFrameAt(c, l, i) < 0 \/ CFrameAt(c, l, i) > c - Room
      /\ FrameAt(c, l, i) < 0 \/ FrameAt(c, l, i) > c - Room
  BY <1>1, <1>2, <1>5 DEF FrameAt, CFrameAt
<1>8. FrameAt(c, l, i) \in Int /\ CFrameAt(c, l, i) \in Int
  BY FramesApart DEF Places
<1> QED BY <1>1, <1>2, <1>3, <1>4, <1>5, <1>6, <1>7, <1>8

\* The values of the program counter and of spsr_el1 that are told apart.
LEMMA ValuesApart ==
  /\ \A x \in FromEL0 \cup FromEL1 : x \notin UserPc /\ x # <<"kernel">>
  /\ <<"kernel">> \notin UserPc
  /\ <<"handle_irq">> \notin {<<"sync_el0_64">>, <<"sync_el1h">>, <<"syscall", "poweroff">>, <<"syscall", "other">>}
  /\ <<"sync_el1h">> \notin FromEL0
  /\ {<<"sync_el0_64">>, <<"syscall", "poweroff">>, <<"syscall", "other">>} \cap FromEL1 = {}
  /\ <<"el0">> \notin SpsrEL1
<1>1. <<"el0">> \notin SpsrEL1
  BY Zenon DEF SpsrEL1
<1> QED BY <1>1 DEF FromEL0, FromEL1, UserPc

\* init_per_cpu_info: the kernel runs on the stack of the CPU, no exception is open.
LEMMA ExceptionsStart == ExceptionsInit => ExceptionsInv
<1> SUFFICES ASSUME ExceptionsInit PROVE ExceptionsInv
  OBVIOUS
<1>1. /\ regs = AllSaved(<<"kernel">>) /\ pc = <<"kernel">> /\ mode = "el1h" /\ sp = -1
      /\ cur = 0 /\ live = <<>> /\ due = <<>>
      /\ want = [t \in Threads |-> UserRegs(t)]
      /\ mem = [a \in Places |-> IF IsCtx(a) THEN want[a \div Room] ELSE Free]
  BY DEF ExceptionsInit, cpu_stack
<1>2. ASSUME NEW t \in Threads
      PROVE  UserRegs(t) \in Frame /\ UserRegs(t)["spsr_el1"] = <<"el0">> /\ UserRegs(t)["elr_el1"] \in UserPc
  <2>1. <<"thread", t, 0>> \in Value /\ <<"el0">> \in Value /\ <<"user", 0>> \in Value /\ <<"user", 0>> \in UserPc
    BY DEF Value, UserPc
  <2>2. "elr_el1" \in Saved /\ "spsr_el1" \in Saved
    BY Zenon DEF Saved
  <2> QED BY <2>1, <2>2, Zenon DEF UserRegs, AllSaved, Frame
<1>3. want \in [Threads -> Frame]
  BY <1>1, <1>2, Zenon
<1>4. mem \in [Places -> Frame]
  <2>1. Free \in Frame
    BY DEF Free, AllSaved, Frame, Value
  <2>2. ASSUME NEW a \in Places, IsCtx(a) PROVE want[a \div Room] \in Frame
    BY <2>2, <1>3, Contexts, Zenon DEF IsCtx
  <2> QED BY <1>1, <2>1, <2>2, Zenon
<1>5. StateTypes
  <2>1. regs \in Frame /\ pc \in Value
    BY <1>1 DEF AllSaved, Frame, Value
  <2>2. masked \in BOOLEAN /\ halted \in BOOLEAN
    BY Zenon DEF ExceptionsInit
  <2>3. live \in Seq([at : Int, frame : Frame, sp : Int]) /\ Len(live) <= MaxDepth /\ Len(due) <= 1
    BY <1>1, Contexts
  <2>4. mode = IF pc \in UserPc THEN "el0" ELSE "el1h"
    BY <1>1, ValuesApart, Zenon
  <2>5. sp \in Int /\ cur \in {0} \cup {Ctx(t) : t \in Threads}
    BY <1>1
  <2> QED BY <1>3, <1>4, <2>1, <2>2, <2>3, <2>4, <2>5, Zenon DEF StateTypes
<1>6. StackInv
  BY <1>1 DEF StackInv
<1>7. ThreadInv
  <2>1. ASSUME NEW t \in Threads PROVE mem[Ctx(t)] = want[t]
    <3>1. Ctx(t) \in Places /\ IsCtx(Ctx(t)) /\ Ctx(t) \div Room = t
      BY Contexts DEF IsCtx, Places
    <3> QED BY <3>1, <1>1, Zenon
  <2> QED BY <2>1, <1>1, <1>2, Zenon DEF ThreadInv
<1>8. ContextRestored
  BY <1>1, Zenon DEF ContextRestored
<1> QED BY <1>5, <1>6, <1>7, <1>8, Zenon DEF ExceptionsInv

\* Which code runs, and where, at each exception level.
LEMMA LevelOf ==
  ASSUME ExceptionsInv
  PROVE  /\ mode = "el0" => live = <<>> /\ cur # 0 /\ sp = cur + 1 /\ pc \in UserPc
         /\ mode # "el0" => mode = "el1h" /\ pc \notin UserPc /\ (live # <<>> \/ cur = 0)
         /\ pc = <<"kernel">> => live = <<>> /\ cur = 0
         /\ live # <<>> => /\ Len(live) \in 1 .. MaxDepth
                           /\ pc \in IF cur # 0 /\ Len(live) = 1 THEN FromEL0 ELSE FromEL1
<1>1. /\ live \in Seq([at : Int, frame : Frame, sp : Int]) /\ Len(live) <= MaxDepth
      /\ mode = IF pc \in UserPc THEN "el0" ELSE "el1h"
  BY Zenon DEF ExceptionsInv, StateTypes
<1>2. ASSUME live # <<>>
      PROVE  /\ Len(live) \in 1 .. MaxDepth
             /\ pc \in IF cur # 0 /\ Len(live) = 1 THEN FromEL0 ELSE FromEL1
  <2>1. Len(live) \in 1 .. Len(live) /\ Len(live) \in 1 .. MaxDepth
    BY <1>1, <1>2, Contexts
  <2> QED BY <2>1, Zenon DEF ExceptionsInv, StackInv, LevelInv, Label
<1> QED BY <1>1, <1>2, ValuesApart, Zenon DEF ExceptionsInv, StackInv

\* The frame an exception pushes.
LEMMA FrameSaved ==
  ASSUME ExceptionsInv
  PROVE  /\ exception_enter \in Frame
         /\ exception_enter["elr_el1"] = pc
         /\ mode = "el0" => exception_enter["spsr_el1"] = <<"el0">>
         /\ mode # "el0" => exception_enter["spsr_el1"] \in SpsrEL1
         /\ CFrame(pc) \in Frame
<1>1. regs \in [Saved -> Value] /\ pc \in Value
  BY Zenon DEF ExceptionsInv, StateTypes, Frame
<1>2. masked \in BOOLEAN
  BY Zenon DEF ExceptionsInv, StateTypes
<1>3. /\ mode = "el0" => Spsr = <<"el0">>
      /\ mode # "el0" => Spsr \in SpsrEL1
  <2>1. masked = TRUE \/ masked = FALSE
    BY <1>2, Zenon
  <2> QED BY <2>1, Zenon DEF Spsr, SpsrEL1
<1>4. Spsr \in Value
  BY <1>3 DEF Value
<1>5. "elr_el1" \in Saved /\ "spsr_el1" \in Saved
  BY Zenon DEF Saved
<1>6. exception_enter \in [Saved -> Value] /\ exception_enter["elr_el1"] = pc /\ exception_enter["spsr_el1"] = Spsr
  BY <1>1, <1>4, <1>5, Zenon DEF exception_enter
<1>7. CFrame(pc) \in [Saved -> Value]
  <2>1. <<"C">> \in Value
    BY DEF Value
  <2> QED BY <2>1, <1>1, <1>5, Zenon DEF CFrame, AllSaved
<1> QED BY <1>3, <1>6, <1>7, Zenon DEF Frame

\* An exception: a handler of its level is entered, whose C code runs on the CPU's
\* stack after a synchronous exception of a thread, and else below the frame.
LEMMA EnterKeeps ==
  ASSUME ExceptionsInv, NEW label, NEW stack, Enter(label, stack), Len(live) < MaxDepth,
         IF mode = "el0"
         THEN label \in FromEL0 /\ stack - 1 = CFrameAt(cur, label, 1)
         ELSE label \in FromEL1 /\ stack = sp - 1
  PROVE  ExceptionsInv'
<1> DEFINE Rec == [at : Int, frame : Frame, sp : Int]
<1>0. PICK n : n = Len(live) + 1
  OBVIOUS
<1> HIDE DEF Rec
<1>1. /\ live \in Seq(Rec) /\ sp \in Int /\ mem \in [Places -> Frame] /\ want \in [Threads -> Frame]
      /\ cur \in {0} \cup {Ctx(t) : t \in Threads} /\ Len(live) \in Nat /\ n \in Nat /\ n = Len(live) + 1
  BY <1>0 DEF ExceptionsInv, StateTypes, Rec
<1>2. PICK e : e = exception_enter
  OBVIOUS
<1>3. /\ e \in Frame /\ e["elr_el1"] = pc /\ CFrame(pc) \in Frame
      /\ e["spsr_el1"] \in IF mode = "el0" THEN {<<"el0">>} ELSE SpsrEL1
  BY <1>2, FrameSaved, Zenon
<1>4. /\ mem' = [mem EXCEPT ![sp - 1] = e, ![stack - 1] = CFrame(pc)]
      /\ sp' = stack - 1 /\ pc' = label /\ mode' = "el1h" /\ masked' = TRUE
      /\ regs' = [e EXCEPT !["x19_x28"] = <<"scratch">>, !["x0"] = <<"argument">>]
      /\ live' = Append(live, [at |-> sp - 1, frame |-> e, sp |-> sp])
      /\ want' = IF mode = "el0" THEN [want EXCEPT ![Running] = e] ELSE want
      /\ due' = <<>> /\ cur' = cur /\ halted' = halted
  BY <1>2, Zenon DEF Enter
<1>5. /\ n \in 1 .. MaxDepth /\ live' \in Seq(Rec) /\ Len(live') = n
      /\ live'[n] = [at |-> sp - 1, frame |-> e, sp |-> sp]
      /\ \A i \in 1 .. n - 1 : live'[i] = live[i]
  <2>1. [at |-> sp - 1, frame |-> e, sp |-> sp] \in Rec
    BY <1>1, <1>3 DEF Rec
  <2> QED BY <2>1, <1>1, <1>4, Contexts, SMTT(30)
<1>6a. PICK l : l = Label(1)'
  OBVIOUS
<1>6. Label(n)' = label /\ \A i \in 1 .. n - 1 : Label(i)' = Label(i)
  <2>1. Label(n)' = label
    BY <1>4, <1>5, Zenon DEF Label
  <2>2. ASSUME NEW i \in 1 .. n - 1 PROVE Label(i)' = Label(i)
    <3>1. CASE i = n - 1
      BY <3>1, <1>1, <1>3, <1>5 DEF Label
    <3>2. CASE i # n - 1
      <4>1. i + 1 \in 1 .. n - 1 /\ i # Len(live')
        BY <3>2, <1>1, <1>5
      <4> QED BY <4>1, <3>2, <1>1, <1>5 DEF Label
    <3> QED BY <3>1, <3>2, Zenon
  <2> QED BY <2>1, <2>2, Zenon
<1>7. sp - 1 = FrameAt(cur, l, n) /\ stack - 1 = CFrameAt(cur, l, n)
  <2>1. CASE live = <<>>
    <3>1. n = 1 /\ l = label
      BY <2>1, <1>1, <1>6, <1>6a
    <3>2. IF cur = 0 THEN sp = -1 /\ mode # "el0" ELSE sp = cur + 1 /\ mode = "el0"
      BY <2>1, LevelOf, Zenon DEF ExceptionsInv, StackInv
    <3>3. CASE cur = 0
      <4>1. sp = -1 /\ stack = sp - 1
        BY <3>2, <3>3
      <4> QED BY <3>1, <3>3, <4>1 DEF FrameAt, CFrameAt
    <3>4. CASE cur # 0
      <4>1. sp = cur + 1 /\ stack - 1 = CFrameAt(cur, label, 1) /\ cur \in Int
        BY <3>2, <3>4, <1>1, Contexts
      <4>2. FrameAt(cur, l, n) = cur
        BY <3>1, <3>4 DEF FrameAt
      <4> QED BY <3>1, <4>1, <4>2
    <3> QED BY <3>3, <3>4
  <2>2. CASE live # <<>>
    <3>1. mode # "el0" /\ sp = CFrameAt(cur, Label(1), n - 1) /\ n - 1 \in 1 .. MaxDepth
      BY <2>2, <1>1, LevelOf DEF ExceptionsInv, StackInv
    <3>2. l = Label(1)
      BY <3>1, <1>1, <1>6, <1>6a
    <3>3. cur \in Int /\ n \in Int /\ n >= 2 /\ stack = sp - 1
      BY <3>1, <1>1, Contexts
    <3> QED BY <3>1, <3>2, <3>3 DEF FrameAt, CFrameAt
  <2> QED BY <2>1, <2>2, Zenon
<1>8. /\ sp - 1 \in Places /\ stack - 1 \in Places /\ sp - 1 # stack - 1
      /\ mem' \in [Places -> Frame] /\ mem'[sp - 1] = e /\ mem'[stack - 1] = CFrame(pc)
      /\ \A a \in Places : a # sp - 1 /\ a # stack - 1 => mem'[a] = mem[a]
  <2>1. sp - 1 \in Places /\ stack - 1 \in Places /\ sp - 1 # stack - 1
    <3>1. /\ FrameAt(cur, l, n) \in Places /\ CFrameAt(cur, l, n) \in Places
          /\ FrameAt(cur, l, n) # CFrameAt(cur, l, n)
      BY <1>1, <1>5, FramesApart, Zenon
    <3> QED BY <3>1, <1>7, Zenon
  <2> QED BY <2>1, <1>1, <1>3, <1>4, Zenon
<1>9. ASSUME NEW i \in 1 .. n - 1 PROVE LevelInv(i)'
  <2>1. i \in 1 .. MaxDepth /\ i # n /\ i \in 1 .. Len(live) /\ 1 \in 1 .. n - 1
    BY <1>1, <1>5, Contexts
  <2>2. /\ FrameAt(cur, l, i) \in Places \ {sp - 1, stack - 1}
        /\ CFrameAt(cur, l, i) \in Places \ {sp - 1, stack - 1}
    <3>1. /\ FrameAt(cur, l, i) \in Places /\ CFrameAt(cur, l, i) \in Places
          /\ FrameAt(cur, l, i) # CFrameAt(cur, l, n) /\ FrameAt(cur, l, i) # FrameAt(cur, l, n)
          /\ CFrameAt(cur, l, i) # CFrameAt(cur, l, n)
      BY <2>1, <1>1, <1>5, FramesApart, ZenonT(30)
    <3>2. FrameAt(cur, l, n) # CFrameAt(cur, l, i)
      BY <2>1, <1>1, <1>5, FramesApart, Zenon
    <3> QED BY <3>1, <3>2, <1>7, Zenon
  <2>3. LevelInv(i) /\ l = Label(1) /\ Label(i)' = Label(i) /\ live'[i] = live[i]
    BY <2>1, <1>5, <1>6, <1>6a, Zenon DEF ExceptionsInv, StackInv
  <2>4. /\ mem'[FrameAt(cur, l, i)] = mem[FrameAt(cur, l, i)]
        /\ mem'[CFrameAt(cur, l, i)] = mem[CFrameAt(cur, l, i)]
    BY <2>2, <1>8, Zenon
  <2> QED BY <2>3, <2>4, <1>4, <1>6a DEF LevelInv
<1>10. LevelInv(n)'
  <2>1. /\ live'[n].at = sp - 1 /\ live'[n].sp = sp /\ live'[n].frame = e
        /\ mem'[FrameAt(cur, l, n)] = e /\ mem'[CFrameAt(cur, l, n)] = CFrame(pc)
        /\ FrameAt(cur, l, n) + 1 = sp
    BY <1>1, <1>5, <1>7, <1>8
  <2>2. (cur # 0 /\ n = 1) <=> mode = "el0"
    BY <1>1, LevelOf
  <2>3. n = 1 => pc \in IF cur # 0 /\ n = 1 THEN UserPc ELSE {<<"kernel">>}
    BY <1>1 DEF ExceptionsInv, StackInv
  <2> QED BY <2>1, <2>2, <2>3, <1>3, <1>4, <1>6, <1>6a, <1>7, SMTT(30) DEF LevelInv
<1>11. StackInv'
  <2>1. live' # <<>> /\ sp' = CFrameAt(cur', l, n) /\ Len(live') = n
    BY <1>4, <1>5, <1>7
  <2>2. ASSUME NEW i \in 1 .. n PROVE LevelInv(i)'
    BY <1>5, <1>9, <1>10
  <2> QED BY <2>1, <2>2, <1>6a, Zenon DEF StackInv
<1>12. ThreadInv'
  <2> SUFFICES ASSUME NEW t \in Threads
               PROVE  /\ want'[t]["spsr_el1"] = <<"el0">> /\ want'[t]["elr_el1"] \in UserPc
                      /\ mem'[Ctx(t)] = want'[t]
    BY Zenon DEF ThreadInv
  <2>1. /\ want[t]["spsr_el1"] = <<"el0">> /\ want[t]["elr_el1"] \in UserPc
        /\ (mode = "el0" /\ cur = Ctx(t)) \/ mem[Ctx(t)] = want[t]
    BY Zenon DEF ExceptionsInv, ThreadInv
  <2>2. Ctx(t) \in Places /\ stack - 1 # Ctx(t) /\ (sp - 1 = Ctx(t) => cur = Ctx(t) /\ n = 1)
    <3>1. \A u \in Threads : /\ CFrameAt(cur, l, n) # Ctx(u)
                             /\ FrameAt(cur, l, n) = Ctx(u) => cur = Ctx(u) /\ n = 1
      BY <1>1, <1>5, ContextsApart
    <3>2. Ctx(t) \in Places
      BY Contexts, SMTT(30) DEF Places
    <3> QED BY <3>1, <3>2, <1>7, Zenon
  <2>3. CASE mode = "el0" /\ cur = Ctx(t)
    <3>1. Running = t /\ sp - 1 = Ctx(t) /\ pc \in UserPc
      BY <2>3, Contexts, LevelOf DEF Running
    <3>2. want'[t] = e /\ mem'[Ctx(t)] = e
      BY <3>1, <2>3, <1>1, <1>4, <1>8, Zenon
    <3> QED BY <2>3, <3>1, <3>2, <1>3, Zenon
  <2>4. CASE ~(mode = "el0" /\ cur = Ctx(t))
    <3>1. want'[t] = want[t]
      <4>1. CASE mode = "el0"
        <5>1. PICK u \in Threads : cur = Ctx(u)
          BY <4>1, <1>1, LevelOf, Zenon
        <5>2. Running = u /\ u # t
          BY <5>1, <4>1, <2>4, Contexts, Zenon DEF Running
        <5> QED BY <5>2, <4>1, <1>1, <1>4, Zenon
      <4>2. CASE mode # "el0"
        BY <4>2, <1>4, Zenon
      <4> QED BY <4>1, <4>2, Zenon
    <3>2. sp - 1 # Ctx(t)
      BY <2>2, <2>4, <1>1, LevelOf, SMTT(30)
    <3> QED BY <3>1, <3>2, <2>1, <2>2, <2>4, <1>8, Zenon
  <2> QED BY <2>3, <2>4, Zenon
<1>13. StateTypes'
  <2>1. regs' \in Frame
    <3>1. <<"scratch">> \in Value /\ <<"argument">> \in Value
      BY DEF Value
    <3> QED BY <3>1, <1>3, <1>4, Zenon DEF Frame
  <2>2. want' \in [Threads -> Frame]
    BY <1>1, <1>3, <1>4, Zenon
  <2>3. pc' \in Value /\ pc' \notin UserPc
    BY <1>4, ValuesApart DEF Value
  <2>4. masked' \in BOOLEAN /\ halted' \in BOOLEAN
    BY <1>4, Zenon DEF ExceptionsInv, StateTypes
  <2>5. sp' \in Int /\ cur' \in {0} \cup {Ctx(t) : t \in Threads}
    BY <1>1, <1>4, <1>8, SMTT(30) DEF Places
  <2>6. Len(live') <= MaxDepth /\ Len(due') <= 1
    BY <1>4, <1>5, Contexts
  <2>7. mode' = IF pc' \in UserPc THEN "el0" ELSE "el1h"
    BY <2>3, <1>4, Zenon
  <2> QED BY <2>1, <2>2, <2>3, <2>4, <2>5, <2>6, <2>7, <1>5, <1>8, Zenon DEF StateTypes, Rec
<1>14. ContextRestored'
  BY <1>4, Zenon DEF ContextRestored
<1> QED BY <1>11, <1>12, <1>13, <1>14, Zenon DEF ExceptionsInv

\* The handler of the last exception returns through its frame: whatever it was
\* nested in is as it was, and the interrupted code has its registers, but for
\* the result of a system call.
LEMMA LeaveKeeps ==
  ASSUME ExceptionsInv, live # <<>>, NEW reg \in Saved, NEW value \in Value, NEW expected, NEW at,
         at = FrameAt(cur, Label(1), Len(live)), Leave(at, reg, value, expected),
         reg # "spsr_el1", reg = "elr_el1" => value = Interrupted["elr_el1"],
         expected = [Interrupted EXCEPT ![reg] = value]
  PROVE  ExceptionsInv'
<1> DEFINE Rec == [at : Int, frame : Frame, sp : Int]
<1>0. PICK n, l, f : n = Len(live) /\ l = Label(1) /\ f = [mem[at] EXCEPT ![reg] = value]
  BY Zenon
<1> HIDE DEF Rec
<1>1. /\ live \in Seq(Rec) /\ sp \in Int /\ mem \in [Places -> Frame] /\ want \in [Threads -> Frame]
      /\ cur \in {0} \cup {Ctx(t) : t \in Threads}
  BY Zenon DEF ExceptionsInv, StateTypes, Rec
<1>2. /\ n \in 1 .. MaxDepth /\ n \in Int /\ n >= 1 /\ 1 \in 1 .. n /\ n \in 1 .. Len(live) /\ n = Len(live)
      /\ MaxDepth \in Int
  BY <1>0, LevelOf, Contexts
<1>3. /\ LevelInv(n) /\ sp = CFrameAt(cur, l, n)
      /\ \A i \in 1 .. n : LevelInv(i)
  BY <1>0, <1>2, Zenon DEF ExceptionsInv, StackInv
<1>4. PICK g : g = live[n].frame
  OBVIOUS
<1>5. /\ g \in Frame /\ mem[at] = g /\ at = FrameAt(cur, l, n) /\ live[n].sp = at + 1
      /\ g["spsr_el1"] \in IF cur # 0 /\ n = 1 THEN {<<"el0">>} ELSE SpsrEL1
      /\ n = 1 => g["elr_el1"] \in IF cur # 0 /\ n = 1 THEN UserPc ELSE {<<"kernel">>}
      /\ Interrupted = g
  <2>1. live[n] \in Rec
    BY <1>1, <1>2
  <2> QED BY <2>1, <1>0, <1>2, <1>3, <1>4, Zenon DEF LevelInv, Interrupted, Rec
<1>6. /\ f \in Frame /\ f["spsr_el1"] = g["spsr_el1"] /\ f["elr_el1"] = g["elr_el1"] /\ f = expected
      /\ "elr_el1" \in Saved /\ "spsr_el1" \in Saved
  <2>1. "elr_el1" \in Saved /\ "spsr_el1" \in Saved
    BY Zenon DEF Saved
  <2> QED BY <2>1, <1>0, <1>5, Zenon DEF Frame
<1>7. /\ mem' = [mem EXCEPT ![sp] = Free, ![at] = IF IsCtx(at) THEN f ELSE Free]
      /\ regs' = f /\ pc' = g["elr_el1"] /\ sp' = at + 1
      /\ mode' = IF g["spsr_el1"] = <<"el0">> THEN "el0" ELSE "el1h"
      /\ due' = <<[regs |-> f, sp |-> at + 1]>> /\ live' = SubSeq(live, 1, n - 1)
      /\ cur' = cur /\ want' = want /\ halted' = halted
  BY <1>0, <1>2, <1>5, <1>6, Zenon DEF Leave, exception_exit
<1>8. (mode' = "el0" <=> cur # 0 /\ n = 1) /\ (mode' # "el0" => mode' = "el1h")
  BY <1>5, <1>7, ValuesApart, Zenon
<1>9. /\ live' \in Seq(Rec) /\ Len(live') = n - 1 /\ \A i \in 1 .. n - 1 : live'[i] = live[i]
  <2>1. live' = SubSeq(live, 1, n - 1)
    BY <1>7, Zenon
  <2>2. n - 1 \in Nat /\ n - 1 <= Len(live)
    BY <1>2
  <2> QED BY <2>1, <2>2, <1>1
<1>10. \A i \in 1 .. n - 1 : Label(i)' = Label(i)
  <2> SUFFICES ASSUME NEW i \in 1 .. n - 1 PROVE Label(i)' = Label(i)
    BY SMTT(30)
  <2>1. CASE i = n - 1
    BY <2>1, <1>2, <1>4, <1>7, <1>9, SMTT(30) DEF Label
  <2>2. CASE i # n - 1
    <3>1. i + 1 \in 1 .. n - 1 /\ i # Len(live') /\ i # Len(live)
      BY <2>2, <1>2, <1>9
    <3> QED BY <3>1, <1>9, Zenon DEF Label
  <2> QED BY <2>1, <2>2, Zenon
<1>11. /\ sp \in Places /\ at \in Places /\ sp # at
       /\ mem' \in [Places -> Frame]
       /\ \A a \in Places : a # sp /\ a # at => mem'[a] = mem[a]
       /\ \A t \in Threads : sp # Ctx(t) /\ (at = Ctx(t) => cur = Ctx(t) /\ n = 1)
  <2>1. Free \in Frame
    BY DEF Free, AllSaved, Frame, Value
  <2>2. sp \in Places /\ at \in Places /\ sp # at
    BY <1>1, <1>2, <1>3, <1>5, FramesApart, Zenon
  <2>3. \A t \in Threads : sp # Ctx(t) /\ (at = Ctx(t) => cur = Ctx(t) /\ n = 1)
    BY <1>1, <1>2, <1>3, <1>5, ContextsApart
  <2> QED BY <2>1, <2>2, <2>3, <1>1, <1>6, <1>7, Zenon
<1>11a. at = FrameAt(cur, l, n) /\ sp = CFrameAt(cur, l, n)
  BY <1>3, <1>5, Zenon
<1>12. ASSUME NEW i \in 1 .. n - 1 PROVE LevelInv(i)'
  <2>1. i \in 1 .. n /\ i \in 1 .. MaxDepth /\ i # n /\ 1 \in 1 .. n - 1
    BY <1>2
  <2>2. FrameAt(cur, l, i) \in Places \ {sp, at} /\ CFrameAt(cur, l, i) \in Places \ {sp, at}
    <3>1. /\ FrameAt(cur, l, i) \in Places /\ CFrameAt(cur, l, i) \in Places
          /\ FrameAt(cur, l, i) # CFrameAt(cur, l, n) /\ FrameAt(cur, l, i) # FrameAt(cur, l, n)
          /\ CFrameAt(cur, l, i) # CFrameAt(cur, l, n)
      BY <2>1, <1>1, <1>2, FramesApart, Zenon
    <3>2. FrameAt(cur, l, n) # CFrameAt(cur, l, i)
      BY <2>1, <1>1, <1>2, FramesApart, Zenon
    <3> QED BY <3>1, <3>2, <1>11a, Zenon
  <2>3. LevelInv(i) /\ l = Label(1)' /\ Label(i)' = Label(i) /\ live'[i] = live[i]
    BY <2>1, <1>0, <1>3, <1>9, <1>10, Zenon
  <2>4. /\ mem'[FrameAt(cur, l, i)] = mem[FrameAt(cur, l, i)]
        /\ mem'[CFrameAt(cur, l, i)] = mem[CFrameAt(cur, l, i)]
    BY <2>2, <1>11, Zenon
  <2> QED BY <2>3, <2>4, <1>0, <1>7, Zenon DEF LevelInv
<1>13. StackInv'
  <2>1. CASE n = 1
    <3>1. live' = <<>> /\ Len(live') = 0
      BY <2>1, <1>9, SMTT(30)
    <3>2. IF cur = 0 THEN pc' = <<"kernel">> /\ sp' = -1 ELSE pc' \in UserPc /\ sp' = cur + 1
      BY <2>1, <1>1, <1>5, <1>7, Contexts DEF FrameAt
    <3> QED BY <3>1, <3>2, <1>7 DEF StackInv
  <2>2. CASE n # 1
    <3>1. n - 1 \in 1 .. n - 1 /\ 1 \in 1 .. n - 1 /\ live' # <<>> /\ n \in Int /\ n >= 2
      BY <2>2, <1>2, <1>9, SMTT(30)
    <3>2. l = Label(1)' /\ cur \in Int
      BY <3>1, <1>0, <1>1, <1>10, Contexts, SMTT(30)
    <3>3. at + 1 = CFrameAt(cur, l, n - 1)
      BY <3>1, <3>2, <1>11a DEF FrameAt, CFrameAt
    <3>4. sp' = CFrameAt(cur', Label(1)', Len(live'))
      BY <3>2, <3>3, <1>7, <1>9, Zenon
    <3>5. \A i \in 1 .. Len(live') : LevelInv(i)'
      BY <1>9, <1>12, Zenon
    <3> QED BY <3>1, <3>4, <3>5, Zenon DEF StackInv
  <2> QED BY <2>1, <2>2, Zenon
<1>14. ThreadInv'
  <2> SUFFICES ASSUME NEW t \in Threads
               PROVE  /\ want[t]["spsr_el1"] = <<"el0">> /\ want[t]["elr_el1"] \in UserPc
                      /\ (mode' = "el0" /\ cur = Ctx(t)) \/ mem'[Ctx(t)] = want[t]
    BY <1>7, Zenon DEF ThreadInv
  <2>1. /\ want[t]["spsr_el1"] = <<"el0">> /\ want[t]["elr_el1"] \in UserPc /\ mem[Ctx(t)] = want[t]
    BY LevelOf, Zenon DEF ExceptionsInv, ThreadInv
  <2>2. Ctx(t) \in Places /\ Ctx(t) # 0
    BY Contexts DEF Places
  <2>3. CASE at = Ctx(t)
    BY <2>1, <2>2, <2>3, <1>8, <1>11, Zenon
  <2>4. CASE at # Ctx(t)
    BY <2>1, <2>2, <2>4, <1>11, Zenon
  <2> QED BY <2>3, <2>4, Zenon
<1>15. StateTypes'
  <2>1. regs' \in Frame /\ pc' \in Value
    BY <1>5, <1>6, <1>7, Zenon DEF Frame
  <2>2. masked' \in BOOLEAN
    BY Zenon DEF Leave, exception_exit
  <2>3. halted' \in BOOLEAN
    BY <1>7, Zenon DEF ExceptionsInv, StateTypes
  <2>4. mode' = IF pc' \in UserPc THEN "el0" ELSE "el1h"
    <3>1. CASE n = 1
      BY <3>1, <1>5, <1>7, <1>8, ValuesApart, Zenon
    <3>2. CASE n # 1
      <4>1. n - 1 \in 1 .. n - 1 /\ n - 1 # 0
        BY <3>2, <1>2
      <4>2. LevelInv(n - 1)' /\ Label(n - 1)' = pc'
        BY <4>1, <1>9, <1>12, Zenon DEF Label
      <4>3. pc' \in FromEL0 \cup FromEL1
        BY <4>2, Zenon DEF LevelInv
      <4> QED BY <4>3, <3>2, <1>8, ValuesApart, Zenon
    <3> QED BY <3>1, <3>2, Zenon
  <2>5. sp' \in Int /\ cur' \in {0} \cup {Ctx(t) : t \in Threads}
    <3>1. at \in Int
      BY <1>11 DEF Places
    <3> QED BY <3>1, <1>1, <1>7
  <2>6. Len(live') <= MaxDepth /\ Len(due') <= 1
    <3>1. Len(live') <= MaxDepth
      BY <1>2, <1>9
    <3>2. \E e : due' = <<e>>
      BY <1>7, Zenon
    <3>3. Len(due') = 1
      BY <3>2
    <3> QED BY <3>1, <3>3
  <2> QED BY <2>1, <2>2, <2>3, <2>4, <2>5, <2>6, <1>1, <1>7, <1>9, <1>11, Zenon DEF StateTypes, Rec
<1>16. ContextRestored'
  <2>1. regs' = due'[1].regs /\ sp' = due'[1].sp /\ pc' = regs'["elr_el1"]
    BY <1>6, <1>7, Zenon
  <2>2. mode' = "el0" => sp' = cur' + 1
    BY <1>1, <1>5, <1>7, <1>8, Contexts, Zenon DEF FrameAt
  <2> QED BY <2>1, <2>2, Zenon DEF ContextRestored
<1> QED BY <1>13, <1>14, <1>15, <1>16, Zenon DEF ExceptionsInv

\* A thread is started, or resumed by the interrupt handler of another: it finds
\* its context.  The frame of the handler's C code is dead then.
LEMMA StartKeeps ==
  ASSUME ExceptionsInv, NEW t \in Threads, __eret_to_thread(t)
  PROVE  ExceptionsInv'
<1>1. /\ mem \in [Places -> Frame] /\ want \in [Threads -> Frame] /\ sp \in Int
      /\ cur \in {0} \cup {Ctx(u) : u \in Threads}
  BY Zenon DEF ExceptionsInv, StateTypes
<1>2. mode # "el0"
  <2>1. pc \notin UserPc
    BY ValuesApart, Zenon DEF __eret_to_thread, FromEL0
  <2> QED BY <2>1, Zenon DEF ExceptionsInv, StateTypes
<1>3. \A u \in Threads : /\ want[u]["spsr_el1"] = <<"el0">> /\ want[u]["elr_el1"] \in UserPc
                         /\ mem[Ctx(u)] = want[u]
  BY <1>2, Zenon DEF ExceptionsInv, ThreadInv
<1>4. sp \in Places /\ \A u \in Threads : sp # Ctx(u)
  <2>1. CASE live = <<>>
    <3>1. sp = -1
      BY <2>1, <1>2, LevelOf, Zenon DEF ExceptionsInv, StackInv
    <3> QED BY <3>1, Contexts, SMTT(30) DEF Places
  <2>2. CASE live # <<>>
    <3>1. sp = CFrameAt(cur, Label(1), Len(live)) /\ Len(live) \in 1 .. MaxDepth
      BY <2>2, LevelOf, Zenon DEF ExceptionsInv, StackInv
    <3> QED BY <3>1, <1>1, FramesApart, ContextsApart
  <2> QED BY <2>1, <2>2, Zenon
<1>5. /\ cur' = Ctx(t) /\ live' = <<>> /\ want' = want /\ halted' = halted
      /\ mem' = [mem EXCEPT ![sp] = Free] /\ regs' = want[t] /\ pc' = want[t]["elr_el1"]
      /\ mode' = "el0" /\ sp' = Ctx(t) + 1 /\ due' = <<[regs |-> want[t], sp |-> Ctx(t) + 1]>>
  BY <1>3, Zenon DEF __eret_to_thread, exception_exit
<1>6. mem' \in [Places -> Frame] /\ \A u \in Threads : mem'[Ctx(u)] = mem[Ctx(u)]
  <2>1. Free \in Frame
    BY DEF Free, AllSaved, Frame, Value
  <2>2. \A u \in Threads : Ctx(u) \in Places
    BY Contexts, SMTT(30) DEF Places
  <2> QED BY <2>1, <2>2, <1>1, <1>4, <1>5
<1>7. StateTypes'
  <2>1. regs' \in Frame /\ pc' \in Value
    BY <1>1, <1>3, <1>5 DEF Frame, Value
  <2>2. masked' \in BOOLEAN
    BY Zenon DEF __eret_to_thread, exception_exit
  <2>3. halted' \in BOOLEAN
    BY <1>5, Zenon DEF ExceptionsInv, StateTypes
  <2>4. mode' = IF pc' \in UserPc THEN "el0" ELSE "el1h"
    BY <1>3, <1>5, Zenon
  <2>5. sp' \in Int /\ cur' \in {0} \cup {Ctx(u) : u \in Threads}
    BY <1>5, Contexts, SMTT(30)
  <2>6. Len(live') <= MaxDepth /\ Len(due') <= 1 /\ live' \in Seq([at : Int, frame : Frame, sp : Int])
    BY <1>5, Contexts, SMTT(30)
  <2> QED BY <2>1, <2>2, <2>3, <2>4, <2>5, <2>6, <1>1, <1>5, <1>6, Zenon DEF StateTypes
<1>8. StackInv'
  BY <1>3, <1>5, Contexts DEF StackInv
<1>9. ThreadInv'
  BY <1>3, <1>5, <1>6, Zenon DEF ThreadInv
<1>10. ContextRestored'
  BY <1>5, Zenon DEF ContextRestored
<1> QED BY <1>7, <1>8, <1>9, <1>10, Zenon DEF ExceptionsInv

\* The steps that move no frame: an instruction of a thread, a change of the mask,
\* and a handler that does not return.
LEMMA OthersKeep ==
  ASSUME ExceptionsInv, Halt \/ enable_irq \/ disable_irq \/ User
  PROVE  ExceptionsInv'
<1>1. /\ mode' = mode /\ sp' = sp /\ mem' = mem /\ cur' = cur /\ want' = want /\ live' = live /\ due' = <<>>
      /\ masked' \in BOOLEAN /\ halted' \in BOOLEAN
  <2>1. masked \in BOOLEAN /\ halted \in BOOLEAN
    BY Zenon DEF ExceptionsInv, StateTypes
  <2>2. masked' \in BOOLEAN /\ halted' \in BOOLEAN
    BY <2>1, Zenon DEF Halt, enable_irq, disable_irq, SetMask, User
  <2>3. /\ mode' = mode /\ sp' = sp /\ mem' = mem /\ cur' = cur /\ want' = want /\ live' = live /\ due' = <<>>
    BY Zenon DEF Halt, enable_irq, disable_irq, SetMask, User
  <2> QED BY <2>2, <2>3, Zenon
<1>2. /\ pc' = pc \/ (pc \in UserPc /\ pc' \in UserPc)
      /\ pc' \in Value /\ regs' \in Frame
  <2>1. pc \in Value /\ regs \in Frame
    BY Zenon DEF ExceptionsInv, StateTypes
  <2>2. CASE User
    <3>1. PICK p \in UserPc : pc' = p /\ regs' = [regs EXCEPT !["x0"] = <<"thread", Running, p[2]>>]
      BY <2>2, Zenon DEF User
    <3>2. cur # 0 /\ pc \in UserPc
      BY <2>2, LevelOf, Zenon DEF User
    <3>3. PICK u \in Threads : cur = Ctx(u)
      BY <3>2, Zenon DEF ExceptionsInv, StateTypes
    <3>4. Running = u /\ p[2] \in {0, 1}
      BY <3>1, <3>3, Contexts DEF Running, UserPc
    <3>5. <<"thread", Running, p[2]>> \in Value /\ p \in Value
      BY <3>1, <3>4 DEF Value
    <3> QED BY <2>1, <3>1, <3>2, <3>5, Zenon DEF Frame
  <2>3. CASE ~User
    BY <2>1, <2>3, Zenon DEF Halt, enable_irq, disable_irq, SetMask
  <2> QED BY <2>2, <2>3, Zenon
<1>3. StateTypes'
  <2>1. mode' = IF pc' \in UserPc THEN "el0" ELSE "el1h"
    BY <1>1, <1>2, Zenon DEF ExceptionsInv, StateTypes
  <2>2. Len(due') <= 1
    BY <1>1
  <2> QED BY <2>1, <2>2, <1>1, <1>2, Zenon DEF ExceptionsInv, StateTypes
<1>4. StackInv'
  <2>1. CASE live = <<>>
    <3>1. Len(live') = 0
      BY <2>1, <1>1, ZenonT(30)
    <3> QED BY <2>1, <3>1, <1>1, <1>2, ValuesApart DEF ExceptionsInv, StackInv
  <2>2. CASE live # <<>>
    <3>1. pc' = pc
      BY <2>2, <1>2, LevelOf, ValuesApart, Zenon
    <3> QED BY <3>1, <1>1 DEF ExceptionsInv, StackInv, LevelInv, Label
  <2> QED BY <2>1, <2>2, Zenon
<1>5. ThreadInv'
  BY <1>1, Zenon DEF ExceptionsInv, ThreadInv
<1>6. ContextRestored'
  BY <1>1, Zenon DEF ExceptionsInv, ContextRestored
<1> QED BY <1>3, <1>4, <1>5, <1>6, Zenon DEF ExceptionsInv

\* Every step of the exception code, and the return of sys_poweroff, keeps the
\* invariant.
LEMMA ExceptionsKeep ==
  ASSUME ExceptionsInv, ExceptionsNext \/ ReturnSyscall("poweroff")
  PROVE  ExceptionsInv'
<1>1. /\ cur \in {0} \cup {Ctx(t) : t \in Threads} /\ sp \in Int /\ mem \in [Places -> Frame]
      /\ pc \in Value /\ (cur # 0 => cur \in Places)
  BY Contexts, SMTT(30) DEF ExceptionsInv, StateTypes, Places
<1>2. CASE TakeIrq
  <2>1. Enter(<<"handle_irq">>, sp - 1) /\ Len(live) < MaxDepth
    BY <1>2, Zenon DEF TakeIrq
  <2>2. CASE mode = "el0"
    <3>1. sp = cur + 1 /\ cur # 0 /\ cur \in Int
      BY <2>2, <1>1, LevelOf DEF Places
    <3>2. sp - 1 - 1 = CFrameAt(cur, <<"handle_irq">>, 1)
      BY <3>1, <1>1 DEF CFrameAt, FrameAt
    <3> QED BY <2>1, <2>2, <3>2, EnterKeeps, Zenon DEF FromEL0
  <2>3. CASE mode # "el0"
    BY <2>1, <2>3, EnterKeeps, Zenon DEF FromEL1
  <2> QED BY <2>2, <2>3, Zenon
<1>3. CASE SyncEL1
  <2>1. CASE Halt
    BY <2>1, OthersKeep, Zenon
  <2>2. CASE Enter(<<"sync_el1h">>, sp - 1)
    BY <1>3, <2>2, EnterKeeps, Zenon DEF SyncEL1, FromEL1
  <2> QED BY <1>3, <2>1, <2>2, Zenon DEF SyncEL1
<1>4. CASE SyncEL0
  <2>1. CASE Halt
    BY <2>1, OthersKeep, Zenon
  <2>2. ASSUME NEW label \in FromEL0 \ {<<"handle_irq">>}, Enter(label, cpu_stack) PROVE ExceptionsInv'
    <3>1. mode = "el0" /\ cur # 0 /\ Len(live) < MaxDepth
      BY <1>4, LevelOf, Zenon DEF SyncEL0
    <3>2. cpu_stack - 1 = CFrameAt(cur, label, 1)
      BY <3>1, <2>2 DEF CFrameAt, cpu_stack
    <3> QED BY <2>2, <3>1, <3>2, EnterKeeps, Zenon
  <2>3. /\ <<"sync_el0_64">> \in FromEL0 \ {<<"handle_irq">>}
        /\ \A nr \in {"poweroff", "other"} : <<"syscall", nr>> \in FromEL0 \ {<<"handle_irq">>}
    BY Zenon DEF FromEL0
  <2>4. Halt \/ \E label \in FromEL0 \ {<<"handle_irq">>} : Enter(label, cpu_stack)
    BY <1>4, <2>3, Zenon DEF SyncEL0
  <2> QED BY <2>1, <2>2, <2>4, Zenon
<1>5. ASSUME pc \in FromEL0 \cup FromEL1
      PROVE  /\ live # <<>> /\ Len(live) \in 1 .. MaxDepth /\ Interrupted \in Frame
             /\ Interrupted = mem[FrameAt(cur, Label(1), Len(live))]
             /\ mem[sp] = CFrame(Interrupted["elr_el1"])
             /\ pc \in FromEL0 \ FromEL1 => cur # 0 /\ Len(live) = 1
             /\ pc \in FromEL1 \ FromEL0 => ~(cur # 0 /\ Len(live) = 1)
             /\ cur # 0 /\ Len(live) = 1 => Label(1) = pc /\ FrameAt(cur, Label(1), 1) = cur
             /\ (pc = <<"handle_irq">> \/ ~(cur # 0 /\ Len(live) = 1)) => sp + 1 = FrameAt(cur, Label(1), Len(live))
  <2>1. live # <<>> /\ Len(live) \in 1 .. MaxDepth
    <3>1. pc \notin UserPc /\ pc # <<"kernel">>
      BY <1>5, ValuesApart, Zenon
    <3> QED BY <3>1, LevelOf, Zenon DEF ExceptionsInv, StackInv
  <2>2. PICK n, at, l : n = Len(live) /\ at = FrameAt(cur, l, n) /\ l = Label(1)
    BY Zenon
  <2>3. n \in 1 .. MaxDepth /\ n \in 1 .. Len(live) /\ LevelInv(n) /\ sp = CFrameAt(cur, l, n)
    BY <2>1, <2>2, Contexts DEF ExceptionsInv, StackInv
  <2>4. at \in Places
    BY <2>2, <2>3, <1>1, FramesApart, Zenon
  <2>5. Interrupted = mem[at] /\ Interrupted \in Frame /\ mem[sp] = CFrame(Interrupted["elr_el1"])
    BY <2>2, <2>3, <2>4, <1>1, Zenon DEF LevelInv, Interrupted
  <2>6. pc \in IF cur # 0 /\ Len(live) = 1 THEN FromEL0 ELSE FromEL1
    BY <2>1, LevelOf, Zenon
  <2>7. cur # 0 /\ n = 1 => l = pc /\ at = cur
    BY <2>2, Zenon DEF Label, FrameAt
  <2>8. (pc = <<"handle_irq">> \/ ~(cur # 0 /\ n = 1)) => sp + 1 = at
    <3>1. at \in Int
      BY <2>4 DEF Places
    <3> QED BY <2>2, <2>3, <2>7, <3>1 DEF CFrameAt
  <2> QED BY <2>1, <2>2, <2>5, <2>6, <2>7, <2>8, Zenon
<1>6. "x0" \in Saved /\ "elr_el1" \in Saved /\ \A f \in Frame, x \in Saved : f[x] \in Value /\ f = [f EXCEPT ![x] = f[x]]
  BY Zenon DEF Saved, Frame
<1>7. CASE ReturnIrq
  <2>1. pc = <<"handle_irq">> /\ Leave(sp + 1, "x0", mem[sp + 1]["x0"], Interrupted)
    BY <1>7, Zenon DEF ReturnIrq
  <2>2. live # <<>> /\ Interrupted \in Frame /\ sp + 1 = FrameAt(cur, Label(1), Len(live)) /\ Interrupted = mem[sp + 1]
    BY <2>1, <1>5, Zenon DEF FromEL0
  <2> QED BY <2>1, <2>2, <1>6, LeaveKeeps
<1>8. CASE ReturnSyncEL1
  <2>1. pc = <<"sync_el1h">> /\ Leave(sp + 1, "elr_el1", mem[sp]["elr_el1"], Interrupted)
    BY <1>8, Zenon DEF ReturnSyncEL1
  <2>2. pc \in FromEL1 /\ pc \notin FromEL0 /\ pc # <<"handle_irq">>
    BY <2>1, Zenon DEF FromEL0, FromEL1
  <2>3. /\ live # <<>> /\ Interrupted \in Frame /\ sp + 1 = FrameAt(cur, Label(1), Len(live)) /\ Interrupted = mem[sp + 1]
        /\ mem[sp] = CFrame(Interrupted["elr_el1"])
    BY <2>2, <1>5, Zenon
  <2>4. mem[sp]["elr_el1"] = Interrupted["elr_el1"]
    BY <2>3, <1>6, Zenon DEF CFrame, AllSaved
  <2> QED BY <2>1, <2>3, <2>4, <1>6, LeaveKeeps, Zenon
<1>9. ASSUME pc \in {<<"sync_el0_64">>, <<"syscall", "poweroff">>, <<"syscall", "other">>}
      PROVE  /\ live # <<>> /\ Interrupted \in Frame /\ cur = FrameAt(cur, Label(1), Len(live))
             /\ Interrupted = mem[cur]
  <2>1. pc \in FromEL0 \ FromEL1
    BY <1>9, ValuesApart, Zenon DEF FromEL0
  <2> QED BY <2>1, <1>5, <1>9, ValuesApart, Zenon
<1>10. CASE ReturnSyncEL0
  BY <1>6, <1>9, <1>10, LeaveKeeps, Zenon DEF ReturnSyncEL0, switch_to_thread_ctx
<1>11. ASSUME NEW nr \in {"poweroff", "other"}, ReturnSyscall(nr) PROVE ExceptionsInv'
  <2>1. Result(nr) \in Value
    BY DEF Result, Value
  <2> QED BY <1>6, <1>9, <1>11, <2>1, LeaveKeeps, Zenon DEF ReturnSyscall, switch_to_thread_ctx
<1> QED BY <1>2, <1>3, <1>4, <1>7, <1>8, <1>10, <1>11, StartKeeps, OthersKeep, Zenon DEF ExceptionsNext, Unexpected

\* What the invariant says of the properties.
LEMMA ExceptionsSafe ==
  ASSUME ExceptionsInv
  PROVE  ExceptionsTypeOK /\ FramesIntact /\ ContextRestored
<1>1. FramesIntact
  BY Zenon DEF ExceptionsInv, StackInv, LevelInv, ThreadInv, FramesIntact
<1>2. sp \in Places
  <2>1. CASE live = <<>>
    <3>1. sp = -1 \/ \E t \in Threads : sp = Ctx(t) + 1
      BY <2>1, Zenon DEF ExceptionsInv, StackInv, StateTypes
    <3> QED BY <3>1, Contexts DEF Places
  <2>2. CASE live # <<>>
    BY <2>2, LevelOf, FramesApart, Zenon DEF ExceptionsInv, StackInv, StateTypes
  <2> QED BY <2>1, <2>2, Zenon
<1>3. DOMAIN regs = Saved /\ DOMAIN mem = Places /\ \A a \in Places : DOMAIN mem[a] = Saved
  BY Zenon DEF ExceptionsInv, StateTypes, Frame
<1>4. ExceptionsTypeOK
  BY <1>2, <1>3, Zenon DEF ExceptionsInv, StateTypes, ExceptionsTypeOK
<1> QED BY <1>1, <1>4, Zenon DEF ExceptionsInv

(***************************************************************************)
(* The boot                                                                *)
(***************************************************************************)
\* Where core 0 may be before the tables are filled, where a core runs init code
\* with the MMU enabled, and where a secondary core is once its flag is set.
Unmapped == {"_start", "clear_bss", "early_uart_init", "wakeup_other_cores", "init_kernel_pt"}
Mapped == {"call_start_kernel", "call_secondary_cpu_boot"}
Released == {"secondary_init", "call_secondary_cpu_boot", "secondary_cpu_boot", "secondary_start"}

\* How far core c has come, and what it has then.
CoreInv(c) ==
  /\ core[c].sp \in {<<>>, <<"boot_cpu_stack", c>>, <<"cpu_stacks", c>>}
  /\ core[c].sp = <<"cpu_stacks", c>> <=> core[c].pc \in HeadPcs \cup KernelPcs
  /\ core[c].pc \in Mapped => core[c].ttbr0 = boot_ttbr0_l0
  /\ core[c].pc \notin Mapped \cup HeadPcs \cup KernelPcs => core[c].mmu = "off"
  /\ core[c].mmu # "off" => tables = "filled"
  /\ core[c].sp = <<"cpu_stacks", c>> => bss = "zero"
  /\ core[c].pc \notin {"firmware", "_start"} => core[c].el = 1
  /\ core[c].pc \in HeadPcs \cup KernelPcs => core[c].mmu = "on" /\ core[c].ttbr0 = empty_page
  /\ core[c].pc \in KernelPcs => core[c].tlb = "empty"
  /\ c # 0 => /\ core[c].pc \in Released => flag[c] # 0
              /\ flag[c] # 0 => bss = "zero" /\ tables = "filled"
              /\ core[c].pc \in Released \cup {"firmware", "_start", "wait_until_smp_enabled"}

\* What core 0 has done by the time it is where it is.
PrimaryInv ==
  /\ bss = "zero" \/ core[0].pc \in {"_start", "clear_bss"}
  /\ tables = "filled" \/ core[0].pc \in Unmapped
  /\ core[0].pc \notin {"firmware", "wait_until_smp_enabled"} \cup Released

\* The inductive invariant.  A secondary core gets to the tables and to
\* cpu_stacks, in .bss, only after its flag, and the flag is set only by a core 0
\* that is through clear_bss and init_kernel_pt.
BootInv == BootTypeOK /\ PrimaryInv /\ \A c \in Cores : CoreInv(c)

\* The calls of main are one after the other in the kernel.
LEMMA MainPcsAre ==
  /\ Len(MainPcs) = 8
  /\ \A i \in 1 .. 8 : MainPcs[i] \in KernelPcs
  /\ \A i \in 1 .. 8 : MainPcs[i] \notin {"firmware", "wait_until_smp_enabled"} \cup Unmapped \cup Mapped \cup Released
<1>1. DOMAIN MainPcs = 1 .. 8 /\ Len(MainPcs) = 8
  BY DEF MainPcs
<1>2. ASSUME NEW i \in 1 .. 8
      PROVE  MainPcs[i] \in {"lock_init", "init_per_cpu_info", "mm_init", "map_kstack", "arch_interrupt_init",
                             "timer_init", "pmu_init", "plat_poweroff"}
  BY DEF MainPcs
<1>3. ASSUME NEW i \in 1 .. 8  PROVE MainPcs[i] \in KernelPcs
  BY <1>1, Zenon DEF KernelPcs
<1> QED BY <1>1, <1>2, <1>3, Zenon DEF Unmapped, Mapped, Released

\* Where a core is once it is in the kernel, spelled out.
LEMMA KernelPcsAre ==
  KernelPcs = {"lock_init", "init_per_cpu_info", "mm_init", "map_kstack", "arch_interrupt_init",
               "timer_init", "pmu_init", "plat_poweroff", "kernel", "threads", "secondary_start"}
<1>1. DOMAIN MainPcs = 1 .. 8
  BY DEF MainPcs
<1>2. {MainPcs[i] : i \in 1 .. 8} = {"lock_init", "init_per_cpu_info", "mm_init", "map_kstack", "arch_interrupt_init",
                                     "timer_init", "pmu_init", "plat_poweroff"}
  <2>1. ASSUME NEW i \in 1 .. 8
        PROVE  MainPcs[i] \in {"lock_init", "init_per_cpu_info", "mm_init", "map_kstack", "arch_interrupt_init",
                               "timer_init", "pmu_init", "plat_poweroff"}
    BY DEF MainPcs
  <2>2. /\ "lock_init" = MainPcs[1] /\ "init_per_cpu_info" = MainPcs[2] /\ "mm_init" = MainPcs[3]
        /\ "map_kstack" = MainPcs[4] /\ "arch_interrupt_init" = MainPcs[5] /\ "timer_init" = MainPcs[6]
        /\ "pmu_init" = MainPcs[7] /\ "plat_poweroff" = MainPcs[8]
    BY Zenon DEF MainPcs
  <2> QED BY <2>1, <2>2
<1> QED BY <1>1, <1>2, Zenon DEF KernelPcs

\* Reset: core 0 is at _start, .bss is not cleared and the tables are not filled.
LEMMA BootStarts == BootInit => BootInv
<1> SUFFICES ASSUME BootInit PROVE BootInv
  OBVIOUS
<1>1. BootTypeOK
  <2>1. PICK held \in BOOLEAN, el \in 1 .. 3 :
          core = [c \in Cores |->
                    [pc |-> IF c # 0 /\ held THEN "firmware" ELSE "_start", el |-> el,
                     sp |-> <<>>, mmu |-> "off", ttbr0 |-> 0, tlb |-> "empty"]]
    BY Zenon DEF BootInit
  <2>2. ASSUME NEW c \in Cores PROVE core[c] \in Core
    <3>1. <<>> \in {<<>>} \cup ({"boot_cpu_stack", "cpu_stacks"} \X Cores)
      OBVIOUS
    <3> QED BY <2>1, <3>1, Zenon DEF Core, Pcs, InitPcs
  <2>3. core \in [Cores -> Core]
    BY <2>1, <2>2, Zenon
  <2>4. flag \in [Cores -> {0, 1, PRIMARY_FLAG}]
    BY Zenon DEF BootInit, secondary_boot_flag
  <2>5. bss \in {"garbage", "zero"} /\ tables \in {"empty", "filled"}
    BY Zenon DEF BootInit
  <2>6. spin \in BOOLEAN /\ kstack \in BOOLEAN
    BY Zenon DEF BootInit
  <2> QED BY <2>3, <2>4, <2>5, <2>6, Zenon DEF BootTypeOK
<1>2. ASSUME NEW c \in Cores PROVE CoreInv(c)
  <2>1. /\ core[c].sp = <<>> /\ core[c].mmu = "off" /\ core[c].pc \in {"firmware", "_start"}
        /\ c # 0 => flag[c] = 0
    BY DEF BootInit, secondary_boot_flag
  <2>2. core[c].sp # <<"cpu_stacks", c>>
    BY <2>1
  <2> QED BY <2>1, <2>2, KernelPcsAre, Zenon DEF CoreInv, HeadPcs, Mapped, Released
<1> QED BY <1>1, <1>2, BootAssumption DEF BootInit, BootInv, PrimaryInv, Unmapped, Released

\* A change of one field keeps the type of a core.
LEMMA CoreUpdate ==
  ASSUME NEW k \in Core
  PROVE  /\ \A x \in Pcs : [k EXCEPT !.pc = x] \in Core
         /\ \A x \in 1 .. 3 : [k EXCEPT !.el = x] \in Core
         /\ \A x \in {<<>>} \cup ({"boot_cpu_stack", "cpu_stacks"} \X Cores) : [k EXCEPT !.sp = x] \in Core
         /\ \A x \in {"off", "pending", "on"} : [k EXCEPT !.mmu = x] \in Core
         /\ \A x \in {0, boot_ttbr0_l0, empty_page} : [k EXCEPT !.ttbr0 = x] \in Core
         /\ \A x \in {"empty", "low"} : [k EXCEPT !.tlb = x] \in Core
<1>1. ASSUME NEW x \in Pcs PROVE [k EXCEPT !.pc = x] \in Core
  BY Zenon DEF Core
<1>2. ASSUME NEW x \in 1 .. 3 PROVE [k EXCEPT !.el = x] \in Core
  BY Zenon DEF Core
<1>3. ASSUME NEW x \in {<<>>} \cup ({"boot_cpu_stack", "cpu_stacks"} \X Cores) PROVE [k EXCEPT !.sp = x] \in Core
  BY Zenon DEF Core
<1>4. ASSUME NEW x \in {"off", "pending", "on"} PROVE [k EXCEPT !.mmu = x] \in Core
  BY Zenon DEF Core
<1>5. ASSUME NEW x \in {0, boot_ttbr0_l0, empty_page} PROVE [k EXCEPT !.ttbr0 = x] \in Core
  BY Zenon DEF Core
<1>6. ASSUME NEW x \in {"empty", "low"} PROVE [k EXCEPT !.tlb = x] \in Core
  BY Zenon DEF Core
<1> QED BY <1>1, <1>2, <1>3, <1>4, <1>5, <1>6, Zenon

\* What the steps do to a core keeps its type.
LEMMA CoreUpdates ==
  ASSUME NEW k \in Core, NEW c \in Cores, NEW p \in Pcs
  PROVE  /\ [k EXCEPT !.el = 1, !.sp = <<"boot_cpu_stack", c>>, !.pc = p] \in Core
         /\ [k EXCEPT !.pc = p, !.sp = <<"cpu_stacks", c>>, !.ttbr0 = empty_page] \in Core
         /\ [k EXCEPT !.pc = p, !.tlb = "empty"] \in Core
         /\ [k EXCEPT !.pc = p, !.mmu = "pending", !.ttbr0 = boot_ttbr0_l0, !.tlb = "low"] \in Core
<1>0. {<<"boot_cpu_stack", c>>, <<"cpu_stacks", c>>} \subseteq {"boot_cpu_stack", "cpu_stacks"} \X Cores
  OBVIOUS
<1>1. [k EXCEPT !.el = 1, !.sp = <<"boot_cpu_stack", c>>, !.pc = p] \in Core
  <2> DEFINE k1 == [k EXCEPT !.el = 1]
  <2>1. k1 \in Core
    <3>1. 1 \in 1 .. 3
      OBVIOUS
    <3> QED BY <3>1, CoreUpdate, Zenon
  <2> DEFINE k2 == [k1 EXCEPT !.sp = <<"boot_cpu_stack", c>>]
  <2>2. k2 \in Core
    BY <1>0, <2>1, CoreUpdate, Zenon
  <2> DEFINE k3 == [k2 EXCEPT !.pc = p]
  <2>3. k3 \in Core
    BY <1>0, <2>2, CoreUpdate, Zenon
  <2>4. [k EXCEPT !.el = 1, !.sp = <<"boot_cpu_stack", c>>, !.pc = p] = k3
    OBVIOUS
  <2> QED BY <2>3, <2>4, Zenon
<1>2. [k EXCEPT !.pc = p, !.sp = <<"cpu_stacks", c>>, !.ttbr0 = empty_page] \in Core
  <2> DEFINE k1 == [k EXCEPT !.pc = p]
  <2>1. k1 \in Core
    BY <1>0, CoreUpdate, Zenon
  <2> DEFINE k2 == [k1 EXCEPT !.sp = <<"cpu_stacks", c>>]
  <2>2. k2 \in Core
    BY <1>0, <2>1, CoreUpdate, Zenon
  <2> DEFINE k3 == [k2 EXCEPT !.ttbr0 = empty_page]
  <2>3. k3 \in Core
    BY <1>0, <2>2, CoreUpdate, Zenon
  <2>4. [k EXCEPT !.pc = p, !.sp = <<"cpu_stacks", c>>, !.ttbr0 = empty_page] = k3
    OBVIOUS
  <2> QED BY <2>3, <2>4, Zenon
<1>3. [k EXCEPT !.pc = p, !.tlb = "empty"] \in Core
  <2> DEFINE k1 == [k EXCEPT !.pc = p]
  <2>1. k1 \in Core
    BY <1>0, CoreUpdate, Zenon
  <2> DEFINE k2 == [k1 EXCEPT !.tlb = "empty"]
  <2>2. k2 \in Core
    BY <1>0, <2>1, CoreUpdate, Zenon
  <2>3. [k EXCEPT !.pc = p, !.tlb = "empty"] = k2
    OBVIOUS
  <2> QED BY <2>2, <2>3, Zenon
<1>4. [k EXCEPT !.pc = p, !.mmu = "pending", !.ttbr0 = boot_ttbr0_l0, !.tlb = "low"] \in Core
  <2> DEFINE k1 == [k EXCEPT !.pc = p]
  <2>1. k1 \in Core
    BY <1>0, CoreUpdate, Zenon
  <2> DEFINE k2 == [k1 EXCEPT !.mmu = "pending"]
  <2>2. k2 \in Core
    BY <1>0, <2>1, CoreUpdate, Zenon
  <2> DEFINE k3 == [k2 EXCEPT !.ttbr0 = boot_ttbr0_l0]
  <2>3. k3 \in Core
    BY <1>0, <2>2, CoreUpdate, Zenon
  <2> DEFINE k4 == [k3 EXCEPT !.tlb = "low"]
  <2>4. k4 \in Core
    BY <1>0, <2>3, CoreUpdate, Zenon
  <2>5. [k EXCEPT !.pc = p, !.mmu = "pending", !.ttbr0 = boot_ttbr0_l0, !.tlb = "low"] = k4
    OBVIOUS
  <2> QED BY <2>4, <2>5, Zenon
<1> QED BY <1>1, <1>2, <1>3, <1>4, Zenon

\* A step that changes the state of one core, and of .bss only to clear it.
LEMMA OneCore ==
  ASSUME BootInv, NEW c \in Cores, NEW new \in Core,
         core' = [core EXCEPT ![c] = new],
         flag' = flag, bss' \in {bss, "zero"},
         spin' \in BOOLEAN, tables' \in {tables, "filled"}, kstack' \in BOOLEAN,
         CoreInv(c)',
         c = 0 => PrimaryInv'
  PROVE  BootInv'
<1>1. /\ core' \in [Cores -> Core] /\ core'[c] = new
      /\ \A d \in Cores : d # c => core'[d] = core[d]
  BY Zenon DEF BootInv, PrimaryInv, BootTypeOK
<1>2. bss' \in {"garbage", "zero"} /\ tables' \in {"empty", "filled"} /\ flag' \in [Cores -> {0, 1, PRIMARY_FLAG}]
  BY Zenon DEF BootInv, PrimaryInv, BootTypeOK
<1>3. BootTypeOK'
  <2>1. core' \in [Cores -> Core]
    BY <1>1, ZenonT(30)
  <2> QED BY <2>1, <1>2, Zenon DEF BootTypeOK
<1>4. ASSUME NEW d \in Cores, d # c PROVE CoreInv(d)'
  <2>1. CoreInv(d) /\ core'[d] = core[d] /\ (bss = "zero" => bss' = "zero") /\ (tables = "filled" => tables' = "filled")
    BY <1>1, <1>4, Zenon DEF BootInv
  <2> QED BY <2>1, ZenonT(30) DEF CoreInv, empty_page, phys_to_virt, KBASE
<1>5. \A d \in Cores : CoreInv(d)'
  BY <1>4, Zenon
<1>6. 0 \in Cores
  BY BootAssumption, Zenon
<1>7. CASE c = 0
  BY <1>3, <1>5, <1>7, Zenon DEF BootInv
<1>8. CASE c # 0
  BY <1>1, <1>3, <1>5, <1>6, <1>8, Zenon DEF BootInv, PrimaryInv
<1> QED BY <1>7, <1>8, Zenon

\* Where a core runs init code with the MMU off.
Early == {"firmware", "wait_until_smp_enabled", "secondary_init", "el1_mmu_activate"} \cup Unmapped

\* From there a core gets on only by enabling the MMU.
LEMMA EarlyPcs == Early \cap (Mapped \cup HeadPcs \cup KernelPcs) = {}
BY KernelPcsAre, Zenon DEF Early, Unmapped, Mapped, HeadPcs

\* A step of a core there, which changes nothing of the core but where it is.
LEMMA EarlyStep ==
  ASSUME BootInv, NEW c \in Cores, NEW p \in Early, core[c].pc \in Early,
         core' = [core EXCEPT ![c] = [core[c] EXCEPT !.pc = p]],
         flag' = flag, bss' \in {bss, "zero"}, tables' \in {tables, "filled"},
         core[c].pc \notin {"firmware", "_start"} \/ p = "_start",
         c # 0 => p = "_start" \/ (p = "secondary_init" /\ flag[c] # 0)
  PROVE  CoreInv(c)'
<1>1. core[c] \in Core /\ core'[c] = [core[c] EXCEPT !.pc = p]
  BY Zenon DEF BootInv, BootTypeOK
<1>2. /\ core'[c].pc = p /\ core'[c].sp = core[c].sp /\ core'[c].mmu = core[c].mmu /\ core'[c].el = core[c].el
  BY <1>1 DEF Core
<1>3. CoreInv(c) /\ {p, core[c].pc} \cap (Mapped \cup HeadPcs \cup KernelPcs) = {}
  BY EarlyPcs, Zenon DEF BootInv
<1>4. core[c].mmu = "off" /\ core[c].sp # <<"cpu_stacks", c>> /\ (p # "_start" => core[c].el = 1)
  BY <1>3, Zenon DEF CoreInv
<1>5. c # 0 => /\ p \in Released => flag'[c] # 0
               /\ flag'[c] # 0 => bss' = "zero" /\ tables' = "filled"
               /\ p \in Released \cup {"firmware", "_start", "wait_until_smp_enabled"}
  BY <1>3, Zenon DEF CoreInv, Released
<1> QED BY <1>2, <1>3, <1>4, <1>5, Zenon DEF CoreInv

\* Every step of BootNext keeps the invariant.
LEMMA BootSteps == BootInv /\ BootNext => BootInv'
<1> SUFFICES ASSUME BootInv, BootNext PROVE BootInv'
  OBVIOUS
<1> USE DEF At, Goto
<1>0. /\ core \in [Cores -> Core] /\ flag \in [Cores -> {0, 1, PRIMARY_FLAG}] /\ 0 \in Cores
      /\ bss \in {"garbage", "zero"} /\ tables \in {"empty", "filled"}
      /\ spin \in BOOLEAN /\ kstack \in BOOLEAN
  BY BootAssumption, Zenon DEF BootInv, PrimaryInv, BootTypeOK
<1>1. ASSUME NEW c \in Cores \ {0}, SpinTable(c) PROVE BootInv'
  <2> DEFINE new == [core[c] EXCEPT !.pc = "_start"]
  <2>1. new \in Core
    BY <1>0, CoreUpdate, CoreUpdates, Zenon DEF Pcs, InitPcs
  <2>2. core' = [core EXCEPT ![c] = new] /\ UNCHANGED <<flag, spin, bss, tables, kstack>>
    BY <1>0, <1>1, Zenon DEF SpinTable
  <2>3. CoreInv(c)'
    BY <1>0, <1>1, <2>2, EarlyStep, Zenon DEF SpinTable, Early, Unmapped
  <2> QED BY <1>0, <2>1, <2>2, <2>3, OneCore, Zenon
<1>2. ASSUME NEW c \in Cores, _start(c) PROVE BootInv'
  <2> DEFINE to == IF c = 0 THEN "clear_bss" ELSE "wait_until_smp_enabled"
             new == [core[c] EXCEPT !.el = 1, !.sp = <<"boot_cpu_stack", c>>, !.pc = to]
  <2>1. new \in Core
    BY <1>0, CoreUpdate, CoreUpdates, Zenon DEF Pcs, InitPcs
  <2>2. core' = [core EXCEPT ![c] = new] /\ UNCHANGED <<flag, spin, bss, tables, kstack>>
    <3>1. core[c].el \in 1 .. 3
      BY <1>0, Zenon DEF Core
    <3>2. arm64_elX_to_el1(core[c].el) = 1
      BY <3>1 DEF arm64_elX_to_el1
    <3> QED BY <1>0, <1>2, <3>2, Zenon DEF _start
  <2>3. CoreInv(c)'
    <3>1. core[c].mmu = "off" /\ (c # 0 => (flag[c] # 0 => bss = "zero" /\ tables = "filled"))
      BY <1>2, KernelPcsAre, Zenon DEF _start, BootInv, PrimaryInv, CoreInv, HeadPcs, Mapped
    <3>2. core'[c] = new /\ DOMAIN core[c] = {"pc", "el", "sp", "mmu", "ttbr0", "tlb"}
      BY <1>0, <2>2, Zenon DEF Core
    <3>4. new.pc = to /\ new.sp = <<"boot_cpu_stack", c>> /\ new.el = 1 /\ new.mmu = core[c].mmu
      BY <3>2, Zenon
    <3>3. <<"boot_cpu_stack", c>> # <<"cpu_stacks", c>>
      OBVIOUS
    <3>5. to \notin Mapped \cup HeadPcs \cup KernelPcs \cup Released /\ (c # 0 => to = "wait_until_smp_enabled")
      BY DEF HeadPcs, KernelPcs, MainPcs, Released, Mapped
    <3> HIDE DEF new, to
    <3> QED BY <2>2, <3>1, <3>2, <3>3, <3>4, <3>5, Zenon DEF CoreInv
  <2>4. c = 0 => PrimaryInv'
    BY <1>0, <2>2 DEF PrimaryInv, Unmapped, Released, Core
  <2> HIDE DEF new
  <2> QED BY <1>0, <2>1, <2>2, <2>3, <2>4, OneCore, Zenon
<1>3. ASSUME NEW c \in Cores \ {0}, wait_until_smp_enabled(c) PROVE BootInv'
  <2> DEFINE new == [core[c] EXCEPT !.pc = "secondary_init"]
  <2>1. new \in Core
    BY <1>0, CoreUpdate, CoreUpdates, Zenon DEF Pcs, InitPcs, HeadPcs, KernelPcs, MainPcs
  <2>2. core' = [core EXCEPT ![c] = new] /\ UNCHANGED <<flag, spin, bss, tables, kstack>>
    BY <1>0, <1>3, Zenon DEF wait_until_smp_enabled
  <2>3. CoreInv(c)'
    BY <1>0, <1>3, <2>2, EarlyStep, Zenon DEF wait_until_smp_enabled, Early, Unmapped
  <2>4. c = 0 => PrimaryInv'
    BY <1>0, <1>3, <2>2, Zenon DEF wait_until_smp_enabled, BootInv, PrimaryInv, HeadPcs, MainPcs, Released, Unmapped, Core
  <2> HIDE DEF new
  <2> QED BY <1>0, <2>1, <2>2, <2>3, <2>4, OneCore, Zenon
<1>4. ASSUME NEW c \in Cores, Sync(c) PROVE BootInv'
  <2> DEFINE new == [core[c] EXCEPT !.mmu = "on"]
  <2>1. new \in Core
    BY <1>0, CoreUpdate, CoreUpdates, Zenon DEF Pcs, InitPcs, HeadPcs, KernelPcs, MainPcs
  <2>2. core' = [core EXCEPT ![c] = new] /\ UNCHANGED <<flag, spin, bss, tables, kstack>>
    BY <1>0, <1>4, Zenon DEF Sync
  <2>3. CoreInv(c)'
    <3>1. CoreInv(c) /\ core[c].mmu = "pending"
      BY <1>4, Zenon DEF Sync, BootInv
    <3>2. /\ core'[c].pc = core[c].pc /\ core'[c].tlb = core[c].tlb /\ core'[c].sp = core[c].sp
          /\ core'[c].el = core[c].el /\ core'[c].ttbr0 = core[c].ttbr0 /\ core'[c].mmu = "on"
      BY <1>0, <2>2 DEF Core
    <3> QED BY <2>2, <3>1, <3>2, Zenon DEF CoreInv, empty_page, phys_to_virt, KBASE
  <2>4. c = 0 => PrimaryInv'
    BY <1>0, <1>4, <2>2 DEF Sync, BootInv, PrimaryInv, HeadPcs, MainPcs, Released, Unmapped, Core
  <2> HIDE DEF new
  <2> QED BY <1>0, <2>1, <2>2, <2>3, <2>4, OneCore, Zenon
<1>5. ASSUME clear_bss PROVE BootInv'
  <2> DEFINE new == [core[0] EXCEPT !.pc = "early_uart_init"]
  <2>1. new \in Core
    BY <1>0, CoreUpdate, CoreUpdates, Zenon DEF Pcs, InitPcs, HeadPcs, KernelPcs, MainPcs
  <2>2. core' = [core EXCEPT ![0] = new] /\ bss' = "zero" /\ UNCHANGED <<flag, spin, tables, kstack>>
    BY <1>0, <1>5, Zenon DEF clear_bss
  <2>3. CoreInv(0)'
    BY <1>0, <1>5, <2>2, EarlyStep, Zenon DEF clear_bss, Early, Unmapped
  <2>4. PrimaryInv'
    BY <1>0, <1>5, <2>2 DEF clear_bss, BootInv, PrimaryInv, HeadPcs, MainPcs, Released, Unmapped, Core
  <2> HIDE DEF new
  <2> QED BY <1>0, <2>1, <2>2, <2>3, <2>4, OneCore, Zenon
<1>6. ASSUME early_uart_init PROVE BootInv'
  <2> DEFINE new == [core[0] EXCEPT !.pc = "wakeup_other_cores"]
  <2>1. new \in Core
    BY <1>0, CoreUpdate, CoreUpdates, Zenon DEF Pcs, InitPcs, HeadPcs, KernelPcs, MainPcs
  <2>2. core' = [core EXCEPT ![0] = new] /\ UNCHANGED <<flag, spin, bss, tables, kstack>>
    BY <1>0, <1>6, Zenon DEF early_uart_init
  <2>3. CoreInv(0)'
    BY <1>0, <1>6, <2>2, EarlyStep, Zenon DEF early_uart_init, Early, Unmapped
  <2>4. PrimaryInv'
    BY <1>0, <1>6, <2>2 DEF early_uart_init, BootInv, PrimaryInv, HeadPcs, MainPcs, Released, Unmapped, Core
  <2> HIDE DEF new
  <2> QED BY <1>0, <2>1, <2>2, <2>3, <2>4, OneCore, Zenon
<1>7. ASSUME wakeup_other_cores PROVE BootInv'
  <2> DEFINE new == [core[0] EXCEPT !.pc = "init_kernel_pt"]
  <2>1. new \in Core
    BY <1>0, CoreUpdate, CoreUpdates, Zenon DEF Pcs, InitPcs, HeadPcs, KernelPcs, MainPcs
  <2>2. core' = [core EXCEPT ![0] = new] /\ spin' = TRUE /\ UNCHANGED <<flag, bss, tables, kstack>>
    BY <1>0, <1>7, Zenon DEF wakeup_other_cores
  <2>3. CoreInv(0)'
    BY <1>0, <1>7, <2>2, EarlyStep, Zenon DEF wakeup_other_cores, Early, Unmapped
  <2>4. PrimaryInv'
    BY <1>0, <1>7, <2>2 DEF wakeup_other_cores, BootInv, PrimaryInv, HeadPcs, MainPcs, Released, Unmapped, Core
  <2> HIDE DEF new
  <2> QED BY <1>0, <2>1, <2>2, <2>3, <2>4, OneCore, Zenon
<1>8. ASSUME InitKernelPt PROVE BootInv'
  <2> DEFINE new == [core[0] EXCEPT !.pc = "el1_mmu_activate"]
  <2>1. new \in Core
    BY <1>0, CoreUpdate, CoreUpdates, Zenon DEF Pcs, InitPcs, HeadPcs, KernelPcs, MainPcs
  <2>2. core' = [core EXCEPT ![0] = new] /\ tables' = "filled" /\ UNCHANGED <<flag, spin, bss, kstack>>
    BY <1>0, <1>8, Zenon DEF InitKernelPt
  <2>3. CoreInv(0)'
    BY <1>0, <1>8, <2>2, EarlyStep, Zenon DEF InitKernelPt, Early, Unmapped
  <2>4. PrimaryInv'
    BY <1>0, <1>8, <2>2, SMTT(30) DEF InitKernelPt, BootInv, PrimaryInv, HeadPcs, MainPcs, Released, Unmapped, Core
  <2> HIDE DEF new
  <2> QED BY <1>0, <2>1, <2>2, <2>3, <2>4, OneCore, Zenon
<1>9. ASSUME start_kernel PROVE BootInv'
  <2> DEFINE new == [core[0] EXCEPT !.pc = "start_kernel", !.sp = <<"cpu_stacks", 0>>, !.ttbr0 = empty_page]
  <2>1. new \in Core
    BY <1>0, CoreUpdate, CoreUpdates, Zenon DEF Pcs, InitPcs, HeadPcs, KernelPcs, MainPcs
  <2>2. core' = [core EXCEPT ![0] = new] /\ UNCHANGED <<flag, spin, bss, tables, kstack>>
    BY <1>0, <1>9, Zenon DEF start_kernel, EnterKernel
  <2>3. CoreInv(0)'
    <3>1. core[0].pc = "call_start_kernel" /\ core[0].mmu = "on"
      BY <1>9, Zenon DEF start_kernel, EnterKernel
    <3>2. core[0].el = 1 /\ bss = "zero" /\ tables = "filled"
      BY <1>0, <3>1, Zenon DEF BootInv, PrimaryInv, CoreInv, Unmapped
    <3>3. /\ core'[0].pc = "start_kernel" /\ core'[0].sp = <<"cpu_stacks", 0>> /\ core'[0].ttbr0 = empty_page
          /\ core'[0].mmu = core[0].mmu /\ core'[0].el = core[0].el
      BY <1>0, <2>2 DEF Core
    <3>4. "start_kernel" \in HeadPcs /\ "start_kernel" \notin Mapped \cup KernelPcs
      BY KernelPcsAre, Zenon DEF HeadPcs, Mapped
    <3> QED BY <2>2, <3>1, <3>2, <3>3, <3>4, Zenon DEF CoreInv, empty_page, phys_to_virt, KBASE
  <2>4. PrimaryInv'
    BY <1>0, <1>9, <2>2, SMTT(30) DEF start_kernel, EnterKernel, BootInv, PrimaryInv, HeadPcs, MainPcs, Released, Unmapped, Core
  <2> HIDE DEF new
  <2> QED BY <1>0, <2>1, <2>2, <2>3, <2>4, OneCore, Zenon
<1>10. ASSUME NEW c \in Cores \ {0}, secondary_cpu_boot(c) PROVE BootInv'
  <2> DEFINE new == [core[c] EXCEPT !.pc = "secondary_cpu_boot", !.sp = <<"cpu_stacks", c>>, !.ttbr0 = empty_page]
  <2>1. new \in Core
    BY <1>0, CoreUpdate, CoreUpdates, ZenonT(30) DEF Pcs, InitPcs, HeadPcs, KernelPcs, MainPcs
  <2>2. core' = [core EXCEPT ![c] = new] /\ UNCHANGED <<flag, spin, bss, tables, kstack>>
    BY <1>0, <1>10, Zenon DEF secondary_cpu_boot, EnterKernel
  <2>3. CoreInv(c)'
    <3>1. core[c].pc = "call_secondary_cpu_boot" /\ core[c].mmu = "on"
      BY <1>10, SMTT(30) DEF secondary_cpu_boot, EnterKernel
    <3>2. core[c].el = 1 /\ flag[c] # 0 /\ bss = "zero" /\ tables = "filled"
      BY <3>1 DEF BootInv, CoreInv, Released
    <3>3. /\ core'[c].pc = "secondary_cpu_boot" /\ core'[c].sp = <<"cpu_stacks", c>> /\ core'[c].ttbr0 = empty_page
          /\ core'[c].mmu = core[c].mmu /\ core'[c].el = core[c].el
      BY <1>0, <2>2 DEF Core
    <3>4. "secondary_cpu_boot" \in HeadPcs \cap Released /\ "secondary_cpu_boot" \notin Mapped \cup KernelPcs
      BY KernelPcsAre, Zenon DEF HeadPcs, Mapped, Released
    <3> QED BY <2>2, <3>1, <3>2, <3>3, <3>4 DEF CoreInv, empty_page, phys_to_virt, KBASE
  <2>4. c = 0 => PrimaryInv'
    BY <1>0, <1>10, <2>2, Zenon DEF secondary_cpu_boot, EnterKernel, BootInv, PrimaryInv, HeadPcs, MainPcs, Released, Unmapped, Core
  <2> HIDE DEF new
  <2> QED BY <1>0, <2>1, <2>2, <2>3, <2>4, OneCore, Zenon
<1>11. ASSUME NEW c \in Cores, FlushTlb(c) PROVE BootInv'
  <2> DEFINE new == [core[c] EXCEPT !.pc = IF c = 0 THEN "lock_init" ELSE "secondary_start", !.tlb = "empty"]
  <2>1. new \in Core
    <3> DEFINE to == IF c = 0 THEN "lock_init" ELSE "secondary_start"
    <3>1. to \in Pcs
      <4>1. {"lock_init", "secondary_start"} \subseteq KernelPcs
        BY MainPcsAre DEF KernelPcs, MainPcs
      <4> QED BY <4>1, Zenon DEF Pcs
    <3> HIDE DEF to
    <3>2. [core[c] EXCEPT !.pc = to, !.tlb = "empty"] \in Core
      BY <1>0, <3>1, CoreUpdates, Zenon
    <3> QED BY <3>2, Zenon DEF to
  <2>2. core' = [core EXCEPT ![c] = new] /\ UNCHANGED <<flag, spin, bss, tables, kstack>>
    BY <1>0, <1>11, Zenon DEF FlushTlb, flush_tlb_all, MainPcs
  <2>3. CoreInv(c)'
    <3> DEFINE to == IF c = 0 THEN "lock_init" ELSE "secondary_start"
    <3>1. core[c].pc \in HeadPcs
      BY <1>11, ZenonT(30) DEF FlushTlb
    <3>2. /\ core[c].el = 1 /\ core[c].sp = <<"cpu_stacks", c>> /\ bss = "zero" /\ tables = "filled"
          /\ core[c].mmu = "on" /\ core[c].ttbr0 = empty_page
      BY <3>1, SMTT(30) DEF BootInv, CoreInv, HeadPcs
    <3>3. c # 0 => flag[c] # 0
      BY <3>1 DEF BootInv, CoreInv, HeadPcs, Released
    <3>4. /\ core'[c].pc = to /\ core'[c].tlb = "empty" /\ core'[c].sp = core[c].sp /\ core'[c].el = core[c].el
          /\ core'[c].ttbr0 = core[c].ttbr0 /\ core'[c].mmu = core[c].mmu
      BY <1>0, <2>2 DEF Core
    <3>5. to \in KernelPcs /\ to \notin Mapped /\ (c # 0 => to \in Released)
      BY KernelPcsAre, Zenon DEF Mapped, Released
    <3> HIDE DEF to
    <3> QED BY <2>2, <3>2, <3>3, <3>4, <3>5, Zenon DEF CoreInv, empty_page, phys_to_virt, KBASE
  <2>4. c = 0 => PrimaryInv'
    BY <1>0, <1>11, <2>2 DEF FlushTlb, flush_tlb_all, MainPcs, BootInv, PrimaryInv, HeadPcs, MainPcs, Released, Unmapped, Core
  <2> HIDE DEF new
  <2> QED BY <1>0, <2>1, <2>2, <2>3, <2>4, OneCore, Zenon
<1>12. ASSUME main PROVE BootInv'
  <2>1. PICK i \in 1 .. 7 :
          /\ core[0].pc = MainPcs[i] /\ core' = [core EXCEPT ![0].pc = MainPcs[i + 1]]
          /\ kstack' = (kstack \/ MainPcs[i] = "map_kstack")
    <3>1. 1 .. Len(MainPcs) - 1 = 1 .. 7
      BY MainPcsAre
    <3> QED BY <1>12, <3>1, ZenonT(30) DEF main
  <2> DEFINE to == MainPcs[i + 1]
             new == [core[0] EXCEPT !.pc = to]
  <2>2. /\ core[0].pc \in KernelPcs /\ to \in KernelPcs
        /\ core[0].pc \notin {"_start", "clear_bss"} \cup Unmapped
        /\ to \notin {"firmware", "wait_until_smp_enabled", "_start"} \cup Unmapped \cup Released
        /\ to \notin Mapped
    <3>1. i \in 1 .. 8 /\ i + 1 \in 1 .. 8
      OBVIOUS
    <3>2. "_start" \in Unmapped /\ "clear_bss" \in Unmapped
      BY Zenon DEF Unmapped
    <3> QED BY <2>1, <3>1, <3>2, MainPcsAre
  <2>3. core' = [core EXCEPT ![0] = new] /\ new \in Core
    BY <1>0, <2>1, <2>2, CoreUpdate, CoreUpdates, Zenon DEF Pcs
  <2>4. UNCHANGED <<flag, spin, bss, tables>>
    BY <1>12 DEF main
  <2>5. kstack' \in BOOLEAN
    BY <2>1
  <2>6. CoreInv(0)'
    BY <1>0, <2>2, <2>3, <2>4 DEF BootInv, PrimaryInv, CoreInv, Core
  <2>7. PrimaryInv'
    BY <1>0, <2>2, <2>3, <2>4 DEF BootInv, PrimaryInv, Core
  <2> HIDE DEF to, new
  <2> QED BY <1>0, <2>2, <2>3, <2>4, <2>5, <2>6, <2>7, OneCore, Zenon
<1>13. ASSUME NEW c \in Cores, NEW next \in {"call_start_kernel", "call_secondary_cpu_boot"},
              el1_mmu_activate(c, next), core[c].pc \in {"el1_mmu_activate", "secondary_init"},
              next = "call_start_kernel" <=> c = 0
       PROVE  BootInv'
  <2>1. UNCHANGED <<flag, spin, bss, tables, kstack>>
    BY <1>13, ZenonT(30) DEF el1_mmu_activate
  <2> DEFINE new == [core[c] EXCEPT !.pc = next, !.mmu = "pending", !.ttbr0 = boot_ttbr0_l0, !.tlb = "low"]
  <2>2. new \in Core /\ core'[c] = new
    <3>1. next \in Pcs
      BY ZenonT(30) DEF Pcs, InitPcs
    <3>2. new \in Core
      BY <1>0, <3>1, CoreUpdates, ZenonT(30)
    <3> QED BY <3>2, <1>13, Zenon DEF el1_mmu_activate
  <2>3. /\ core'[c].pc = next /\ core'[c].mmu = "pending" /\ core'[c].ttbr0 = boot_ttbr0_l0
         /\ core'[c].sp = core[c].sp /\ core'[c].el = core[c].el
    <3>1. core[c] \in Core /\ core'[c] = new
      BY <1>0, <2>2, SMTT(30)
    <3> QED BY <3>1 DEF Core
  <2> HIDE DEF new
  <2>4. ASSUME NEW d \in Cores, d # c
        PROVE  /\ core'[d] \in Core /\ CoreInv(d)' /\ core'[d].pc = core[d].pc
    <3> DEFINE flushed == IF core[d].mmu # "off" /\ core[d].ttbr0 = boot_ttbr0_l0 THEN core[d].tlb ELSE "empty"
    <3>1. core'[d] = [core[d] EXCEPT !.tlb = flushed]
      BY <1>0, <1>13, <2>4, Zenon DEF el1_mmu_activate
    <3>2. flushed \in {"empty", "low"} /\ (core[d].tlb = "empty" => flushed = "empty")
      BY <1>0, ZenonT(30) DEF Core
    <3> HIDE DEF flushed
    <3> QED BY <1>0, <2>1, <3>1, <3>2 DEF BootInv, PrimaryInv, CoreInv, Core
  <2>5. core' \in [Cores -> Core]
    BY <1>13, <2>2, <2>4, ZenonT(30) DEF el1_mmu_activate
  <2>6. CoreInv(c)'
    <3>1. CoreInv(c)
      BY Zenon DEF BootInv
    <3>2. CoreInv(c) /\ core[c].pc \notin Mapped \cup HeadPcs \cup KernelPcs /\ core[c].pc \notin {"firmware", "_start"}
      BY <1>13, <3>1, KernelPcsAre DEF HeadPcs, Mapped
    <3>3. next \in Mapped /\ next \notin HeadPcs \cup KernelPcs /\ (c # 0 => next \in Released)
      BY <1>13, KernelPcsAre, SMTT(30) DEF HeadPcs, Mapped, Released
    <3>4. c # 0 => core[c].pc \in Released
      BY <1>13, <3>2, SMTT(30) DEF CoreInv, Released
    <3>5. tables = "filled"
      BY <1>0, <1>13, <3>2, <3>4, ZenonT(30) DEF BootInv, PrimaryInv, CoreInv, Released, Unmapped
    <3> QED BY <2>1, <2>3, <3>2, <3>3, <3>4, <3>5, ZenonT(30) DEF CoreInv, empty_page, phys_to_virt, KBASE
  <2>7. BootTypeOK'
    <3>1. bss' \in {"garbage", "zero"} /\ tables' \in {"empty", "filled"} /\ flag' \in [Cores -> {0, 1, PRIMARY_FLAG}]
      BY <1>0, <2>1, SMTT(30)
    <3> QED BY <1>0, <2>1, <2>5, <3>1, Zenon DEF BootTypeOK
  <2>8. \A d \in Cores : CoreInv(d)'
    BY <2>4, <2>6, SMTT(30)
  <2>9. CASE c = 0
    <3>1. bss = "zero" /\ tables = "filled"
      BY <1>13, <2>9 DEF BootInv, PrimaryInv, Released, Unmapped
    <3>2. core'[0].pc = "call_start_kernel"
      BY <1>13, <2>9, <2>3, SMTT(30)
    <3> QED BY <2>1, <2>7, <2>8, <3>1, <3>2, SMTT(30) DEF BootInv, PrimaryInv, Released
  <2>10. CASE c # 0
    BY <1>0, <2>1, <2>4, <2>7, <2>8, <2>10, SMTT(30) DEF BootInv, PrimaryInv
  <2> QED BY <2>9, <2>10, SMTT(30)
<1>14. ASSUME NEW c \in Cores, Release(c) PROVE BootInv'
  <2>1. UNCHANGED <<core, spin, bss, tables, kstack>> /\ flag' = [flag EXCEPT ![c] = 1] /\ c # 0
    BY <1>14, SMTT(30) DEF Release
  <2>2. bss = "zero" /\ tables = "filled"
    BY <1>14 DEF Release, BootInv, PrimaryInv, Unmapped
  <2>3. BootTypeOK'
    <3>1. bss' \in {"garbage", "zero"} /\ tables' \in {"empty", "filled"} /\ flag' \in [Cores -> {0, 1, PRIMARY_FLAG}] /\ core' \in [Cores -> Core]
      BY <1>0, <2>1, SMTT(30)
    <3> QED BY <1>0, <2>1, <3>1, Zenon DEF BootTypeOK
  <2>4. ASSUME NEW d \in Cores PROVE CoreInv(d)'
    <3>1. CoreInv(d) /\ (flag[d] # 0 => flag'[d] # 0)
      BY <1>0, <2>1 DEF BootInv
    <3> QED BY <2>1, <2>2, <3>1, ZenonT(30) DEF CoreInv, empty_page, phys_to_virt, KBASE
  <2> QED BY <2>1, <2>2, <2>3, <2>4, SMTT(30) DEF BootInv, PrimaryInv
<1>15. CASE Primary
  BY <1>0, <1>2, <1>4, <1>5, <1>6, <1>7, <1>8, <1>9, <1>11, <1>12, <1>13, <1>15, SMTT(30) DEF Primary, EnableMmu
<1>16. ASSUME NEW c \in Cores \ {0}, Secondary(c) PROVE BootInv'
  BY <1>1, <1>2, <1>3, <1>4, <1>10, <1>11, <1>13, <1>14, <1>16, SMTT(30) DEF Secondary, secondary_init
<1> QED BY <1>15, <1>16, Zenon DEF BootNext

\* The invariant says whose every stack is.
LEMMA StacksAreKept == BootInv => StacksKept
<1> SUFFICES ASSUME BootInv PROVE StacksKept
  OBVIOUS
<1>1. ASSUME NEW c \in Cores, core[c].sp # <<>>, StackMemory(core[c].sp) = _bss_start
      PROVE  bss = "zero"
  <2>1. core[c].sp = <<"boot_cpu_stack", c>> => StackMemory(core[c].sp) = TEXT_OFFSET
    BY DEF StackMemory
  <2>2. TEXT_OFFSET # _bss_start
    BY BootAssumption
  <2> QED BY <1>1, <2>1, <2>2, Zenon DEF BootInv, PrimaryInv, CoreInv
<1>2. ASSUME NEW c \in Cores, NEW d \in Cores, c # d, core[c].sp # <<>>
      PROVE  core[c].sp # core[d].sp
  <2>1. /\ core[c].sp \in {<<"boot_cpu_stack", c>>, <<"cpu_stacks", c>>}
        /\ core[d].sp \in {<<>>, <<"boot_cpu_stack", d>>, <<"cpu_stacks", d>>}
    BY <1>2, Zenon DEF BootInv, PrimaryInv, CoreInv
  <2>2. core[c].sp[2] = c /\ (core[d].sp # <<>> => core[d].sp[2] = d)
    BY <2>1
  <2> QED BY <1>2, <2>1, <2>2, Zenon
<1> QED BY <1>1, <1>2, Zenon DEF StacksKept

\* A core in the kernel has neither the low tables nor what a TLB kept of them.
LEMMA LowMapIsGone == BootInv => LowMapGone
<1> SUFFICES ASSUME BootInv, NEW c \in Cores, core[c].pc \in KernelPcs
             PROVE  /\ core[c].mmu = "on" /\ core[c].el = 1
                    /\ \A va \in {0, TEXT_OFFSET, RASPI3_PL011} : TranslateOn(c, va) = Fault
  BY Zenon DEF LowMapGone
<1>1. core[c].mmu = "on" /\ core[c].ttbr0 = empty_page /\ core[c].tlb = "empty"
  BY Zenon DEF BootInv, PrimaryInv, CoreInv
<1>2. core[c].el = 1
  <2>1. core[c].pc \notin {"firmware", "_start"}
    BY DEF KernelPcs, MainPcs
  <2> QED BY <2>1, Zenon DEF BootInv, PrimaryInv, CoreInv
<1>3. empty_page # boot_ttbr0_l0
  BY BootAssumption, BootLayoutAssumption, SMTT(30) DEF empty_page, phys_to_virt, KBASE
<1>4. ASSUME NEW va \in {0, TEXT_OFFSET, RASPI3_PL011} PROVE ~(va >= KBASE)
  BY BootAssumption, BootLayoutAssumption DEF KBASE
<1> QED BY <1>1, <1>2, <1>3, <1>4, Zenon DEF TranslateOn, TranslateLow

\* ttbr0_el1 maps the first GB to itself: 2 MB of memory, then devices.
LEMMA LowMap ==
  ASSUME NEW pa \in 0 .. SIZE_1G - 1
  PROVE  Walk(boot_ttbr0_l0, pa) = <<pa, IF pa < SIZE_2M THEN NORMAL_MEMORY ELSE DEVICE_MEMORY>>
<1>1. PICK k \in Index : pa = SIZE_2M * k + (pa % SIZE_2M) /\ pa % SIZE_2M \in 0 .. SIZE_2M - 1
  BY Slot, Zenon
<1>2. PICK b \in Int : b = SIZE_2M * k
  BY Sizes DEF Index
<1>3. PICK x \in 0 .. SIZE_2M - 1 : x = pa % SIZE_2M
  BY <1>1, Zenon
<1>4. pa = b + x /\ pa \in Int
  BY <1>1, <1>2, <1>3, Sizes
<1>5. GET_L2_INDEX(pa) = k
  BY <1>1, <1>4, BlockIndex, Zenon
<1>6. b < SIZE_2M <=> pa < SIZE_2M
  <2>1. k = 0 \/ b >= SIZE_2M
    BY <1>2, Sizes DEF Index
  <2>2. k = 0 => b = 0
    BY <1>2, Sizes
  <2> QED BY <1>4, <2>1, <2>2, Sizes
<1> DEFINE attr == IF pa < SIZE_2M THEN NORMAL_MEMORY ELSE DEVICE_MEMORY
<1>7. ttbr0_l2[k] = BlockPte(attr, b)
  BY <1>2, <1>6, Entries, Zenon
<1> HIDE DEF attr
<1>8. Walk(boot_ttbr0_l0, pa) = <<b + (pa % SIZE_2M), attr>>
  <2>1. /\ init_kernel_pt(boot_ttbr0_l0)[GET_L0_INDEX(pa)] = TablePte(boot_ttbr0_l1)
        /\ init_kernel_pt(boot_ttbr0_l1)[GET_L1_INDEX(pa)] = TablePte(boot_ttbr0_l2)
    BY Links, UpperIndex, Zenon
  <2>2. init_kernel_pt(boot_ttbr0_l2)[GET_L2_INDEX(pa)] = BlockPte(attr, b)
    BY <1>5, <1>7, Links, Zenon
  <2>3. /\ TablePte(boot_ttbr0_l1).addr = boot_ttbr0_l1 /\ ~IS_PTE_INVALID(TablePte(boot_ttbr0_l1))
        /\ TablePte(boot_ttbr0_l2).addr = boot_ttbr0_l2 /\ ~IS_PTE_INVALID(TablePte(boot_ttbr0_l2))
        /\ IS_PTE_TABLE(TablePte(boot_ttbr0_l2))
        /\ BlockPte(attr, b).addr = b /\ BlockPte(attr, b).attr_index = attr /\ ~IS_PTE_INVALID(BlockPte(attr, b))
    BY PteFields, Zenon
  <2> QED BY <2>1, <2>2, <2>3, Zenon DEF Walk
<1> QED BY <1>3, <1>4, <1>8, Zenon DEF attr

\* ttbr1_el1 maps the first GB of the direct map: memory, then devices.
LEMMA DirectMap ==
  ASSUME NEW pa \in 0 .. SIZE_1G - 1
  PROVE  Walk(boot_ttbr1_l0, phys_to_virt(pa)) =
           <<pa, IF pa < PERIPHERAL_BASE THEN NORMAL_MEMORY ELSE DEVICE_MEMORY>>
<1>1. PICK k \in Index : pa = SIZE_2M * k + (pa % SIZE_2M) /\ pa % SIZE_2M \in 0 .. SIZE_2M - 1
  BY Slot, Zenon
<1>2. PICK b \in Int : b = SIZE_2M * k
  BY Sizes DEF Index
<1>3. PICK x \in 0 .. SIZE_2M - 1 : x = pa % SIZE_2M
  BY <1>1, Zenon
<1>4. pa = b + x /\ pa \in Int
  BY <1>1, <1>2, <1>3, Sizes
<1>5. GET_L2_INDEX(pa + KERNEL_VADDR) = k
  BY <1>1, <1>4, BlockIndex, Zenon
<1>6. b < PERIPHERAL_BASE <=> pa < PERIPHERAL_BASE
  <2>1. b % SIZE_2M = 0
    BY <1>2, Sizes, ProductMod DEF Index
  <2>2. PERIPHERAL_BASE \in Int /\ PERIPHERAL_BASE % SIZE_2M = 0
    BY BootLayoutAssumption
  <2>3. PERIPHERAL_BASE < b + SIZE_2M => PERIPHERAL_BASE <= b
    BY <2>1, <2>2, Sizes, CloseMultiples, Zenon
  <2> QED BY <1>4, <2>2, <2>3, Sizes
<1> DEFINE attr == IF pa < PERIPHERAL_BASE THEN NORMAL_MEMORY ELSE DEVICE_MEMORY
<1>7. ttbr1_l2[k] = BlockPte(attr, b)
  BY <1>2, <1>6, Entries, Zenon
<1> HIDE DEF attr
<1>8. Walk(boot_ttbr1_l0, pa + KERNEL_VADDR) = <<b + ((pa + KERNEL_VADDR) % SIZE_2M), attr>>
  <2> DEFINE va == pa + KERNEL_VADDR
  <2>1. /\ init_kernel_pt(boot_ttbr1_l0)[GET_L0_INDEX(va)] = TablePte(boot_ttbr1_l1)
        /\ init_kernel_pt(boot_ttbr1_l1)[GET_L1_INDEX(va)] = TablePte(boot_ttbr1_l2)
    BY Links, UpperIndex, Zenon
  <2>2. init_kernel_pt(boot_ttbr1_l2)[GET_L2_INDEX(va)] = BlockPte(attr, b)
    BY <1>5, <1>7, Links, Zenon
  <2>3. /\ TablePte(boot_ttbr1_l1).addr = boot_ttbr1_l1 /\ ~IS_PTE_INVALID(TablePte(boot_ttbr1_l1))
        /\ TablePte(boot_ttbr1_l2).addr = boot_ttbr1_l2 /\ ~IS_PTE_INVALID(TablePte(boot_ttbr1_l2))
        /\ IS_PTE_TABLE(TablePte(boot_ttbr1_l2))
        /\ BlockPte(attr, b).addr = b /\ BlockPte(attr, b).attr_index = attr /\ ~IS_PTE_INVALID(BlockPte(attr, b))
    BY PteFields, Zenon
  <2> HIDE DEF va
  <2>4. Walk(boot_ttbr1_l0, va) = <<b + (va % SIZE_2M), attr>>
    BY <2>1, <2>2, <2>3, Zenon DEF Walk
  <2> QED BY <2>4, Zenon DEF va
<1>9. (pa + KERNEL_VADDR) % SIZE_2M = x
  <2>1. PICK n \in Nat \ {0} : n = SIZE_1G * PTP_ENTRIES
    BY Sizes, Zenon
  <2>2. PICK m \in Int : KERNEL_VADDR = n * m
    <3>1. KERNEL_VADDR % n = 0 /\ KERNEL_VADDR \in Int
      BY <2>1, BootLayoutAssumption
    <3> QED BY <3>1, Multiple, Zenon
  <2>3. PICK g \in Int : n * m = SIZE_2M * g
    <3>1. n = SIZE_2M * (PTP_ENTRIES * PTP_ENTRIES)
      BY <2>1, Sizes DEF SIZE_1G
    <3>2. PICK s \in Int : s = PTP_ENTRIES * PTP_ENTRIES
      BY Sizes
    <3>3. n * m = SIZE_2M * (s * m) /\ s * m \in Int
      BY <3>1, <3>2, Sizes
    <3> QED BY <3>3, Zenon
  <2>4. PICK a \in Int : a = pa + KERNEL_VADDR
    BY <1>4, BootLayoutAssumption
  <2>5. a = SIZE_2M * (k + g) + x /\ k + g \in Int
    <3>1. SIZE_2M * (k + g) = SIZE_2M * k + SIZE_2M * g
      BY Sizes DEF Index
    <3>2. SIZE_2M * (k + g) = b + KERNEL_VADDR
      BY <1>2, <2>2, <2>3, <3>1, Zenon
    <3>3. KERNEL_VADDR \in Int /\ k \in Int
      BY BootLayoutAssumption DEF Index
    <3> QED BY <1>4, <2>4, <3>2, <3>3
  <2>6. PICK d \in Int : d = k + g
    BY <2>5, Zenon
  <2>7. a = SIZE_2M * d + x
    BY <2>5, <2>6, Zenon
  <2>8. a % SIZE_2M = x
    BY <2>7, Sizes, RemainderMod, SMTT(30)
  <2> QED BY <2>4, <2>8, Zenon
<1> QED BY <1>4, <1>8, <1>9, SMTT(30) DEF phys_to_virt, KBASE, attr

\* The addresses of the image and of the UART in the two maps.
LEMMA ImagePlaces ==
  /\ \A pa \in {TEXT_OFFSET, init_end, _bss_start} :
       pa \in 0 .. SIZE_1G - 1 /\ pa < SIZE_2M /\ pa < PERIPHERAL_BASE
  /\ RASPI3_PL011 \in 0 .. SIZE_1G - 1 /\ ~(RASPI3_PL011 < SIZE_2M) /\ ~(RASPI3_PL011 < PERIPHERAL_BASE)
  /\ \A pa \in {TEXT_OFFSET, init_end, _bss_start, RASPI3_PL011} :
       /\ ~(pa >= KBASE)
       /\ phys_to_virt(pa) >= KBASE /\ ~(phys_to_virt(pa) >= KSTACK_BASE)
<1>1. SHARED_PERIPHERAL_END <= SIZE_1G /\ SIZE_2M <= SIZE_1G
  BY Sizes, BootLayoutAssumption
<1> QED BY <1>1, Sizes, BootAssumption, BootLayoutAssumption DEF phys_to_virt, KBASE

\* A core with ttbr0_el1 on the boot tables reaches a low address either way.
LEMMA ReachesLow ==
  ASSUME NEW c \in Cores, NEW pa \in {TEXT_OFFSET, RASPI3_PL011},
         core[c].mmu # "off" => tables = "filled" /\ core[c].ttbr0 = boot_ttbr0_l0
  PROVE  Reaches(c, pa, pa, IF pa = TEXT_OFFSET THEN NORMAL_MEMORY ELSE DEVICE_MEMORY)
<1> DEFINE type == IF pa = TEXT_OFFSET THEN NORMAL_MEMORY ELSE DEVICE_MEMORY
<1>1. Walk(boot_ttbr0_l0, pa) = <<pa, type>>
  BY ImagePlaces, LowMap, Zenon
<1>2. ~(pa >= KBASE)
  BY ImagePlaces, Zenon
<1> HIDE DEF type
<1>3. core[c].mmu # "off" => TranslateOn(c, pa) = <<pa, type>>
  BY <1>1, <1>2, Zenon DEF TranslateOn, TranslateLow
<1>4. Reaches(c, pa, pa, type)
  BY <1>3, Zenon DEF Reaches
<1> QED BY <1>4, Zenon DEF type

\* A core in the kernel reaches it through the direct map.
LEMMA ReachesHigh ==
  ASSUME NEW c \in Cores, NEW pa \in {init_end, _bss_start, RASPI3_PL011},
         core[c].mmu = "on", tables = "filled"
  PROVE  Reaches(c, phys_to_virt(pa), pa, IF pa = RASPI3_PL011 THEN DEVICE_MEMORY ELSE NORMAL_MEMORY)
<1> DEFINE type == IF pa = RASPI3_PL011 THEN DEVICE_MEMORY ELSE NORMAL_MEMORY
<1>1. Walk(boot_ttbr1_l0, phys_to_virt(pa)) = <<pa, type>>
  BY ImagePlaces, DirectMap, Zenon
<1>2. phys_to_virt(pa) >= KBASE /\ ~(phys_to_virt(pa) >= KSTACK_BASE)
  BY ImagePlaces, Zenon
<1> HIDE DEF type
<1>3. TranslateOn(c, phys_to_virt(pa)) = <<pa, type>>
  BY <1>1, <1>2, Zenon DEF TranslateOn, TranslateHigh
<1>4. Reaches(c, phys_to_virt(pa), pa, type)
  BY <1>3, Zenon DEF Reaches
<1> QED BY <1>4, Zenon DEF type

\* Wherever a core is, the addresses it uses are mapped to what it means by them.
LEMMA AccessesAreMapped == BootInv => AccessesMapped
<1> SUFFICES ASSUME BootInv PROVE AccessesMapped
  OBVIOUS
<1>1. ASSUME NEW c \in Cores, core[c].pc \in InitPcs
      PROVE  /\ Reaches(c, TEXT_OFFSET, TEXT_OFFSET, NORMAL_MEMORY)
             /\ Reaches(c, RASPI3_PL011, RASPI3_PL011, DEVICE_MEMORY)
             /\ core[c].sp # <<>> => Reaches(c, StackAddress(core[c].sp), StackMemory(core[c].sp), NORMAL_MEMORY)
  <2>1. CoreInv(c)
    BY Zenon DEF BootInv
  <2>2. core[c].pc \notin HeadPcs \cup KernelPcs
    BY <1>1 DEF InitPcs, HeadPcs, KernelPcs, MainPcs
  <2>3. core[c].mmu # "off" => tables = "filled" /\ core[c].ttbr0 = boot_ttbr0_l0
    BY <2>1, <2>2, Zenon DEF CoreInv
  <2>4. TEXT_OFFSET # RASPI3_PL011
    BY ImagePlaces, Zenon
  <2>5. /\ Reaches(c, TEXT_OFFSET, TEXT_OFFSET, NORMAL_MEMORY)
        /\ Reaches(c, RASPI3_PL011, RASPI3_PL011, DEVICE_MEMORY)
    BY <2>3, <2>4, ReachesLow, Zenon
  <2>6. core[c].sp # <<>> => core[c].sp = <<"boot_cpu_stack", c>>
    BY <2>1, <2>2, Zenon DEF CoreInv
  <2>7. core[c].sp # <<>> => StackAddress(core[c].sp) = TEXT_OFFSET /\ StackMemory(core[c].sp) = TEXT_OFFSET
    BY <2>6 DEF StackAddress, StackMemory
  <2> QED BY <2>5, <2>7, Zenon
<1>2. ASSUME NEW c \in Cores, core[c].pc \in HeadPcs \cup KernelPcs
      PROVE  /\ Reaches(c, phys_to_virt(init_end), init_end, NORMAL_MEMORY)
             /\ Reaches(c, phys_to_virt(RASPI3_PL011), RASPI3_PL011, DEVICE_MEMORY)
             /\ Reaches(c, StackAddress(core[c].sp), StackMemory(core[c].sp), NORMAL_MEMORY)
  <2>1. core[c].mmu = "on" /\ tables = "filled" /\ core[c].sp = <<"cpu_stacks", c>>
    BY <1>2, Zenon DEF BootInv, CoreInv
  <2>2. init_end # RASPI3_PL011 /\ _bss_start # RASPI3_PL011
    BY ImagePlaces, Zenon
  <2>3. /\ Reaches(c, phys_to_virt(init_end), init_end, NORMAL_MEMORY)
        /\ Reaches(c, phys_to_virt(_bss_start), _bss_start, NORMAL_MEMORY)
        /\ Reaches(c, phys_to_virt(RASPI3_PL011), RASPI3_PL011, DEVICE_MEMORY)
    BY <2>1, <2>2, ReachesHigh, Zenon
  <2>4. StackAddress(core[c].sp) = phys_to_virt(_bss_start) /\ StackMemory(core[c].sp) = _bss_start
    BY <2>1 DEF StackAddress, StackMemory
  <2> QED BY <2>3, <2>4, Zenon
<1>3. ASSUME NEW c \in Cores, core[c].pc # "firmware"
      PROVE  core[c].pc \in InitPcs \/ (core[c].pc \in HeadPcs \cup KernelPcs /\ core[c].pc \notin InitPcs)
  <2>1. core[c].pc \in Pcs
    BY Zenon DEF BootInv, BootTypeOK, Core
  <2> QED BY <1>3, <2>1, Zenon DEF Pcs
<1> QED BY <1>1, <1>2, <1>3, Zenon DEF AccessesMapped
\* A step of core 0 within the kernel, after main's initialisation.
LEMMA KernelStep ==
  ASSUME BootInv, NEW to \in {"kernel", "threads"}, core[0].pc \in KernelPcs,
         core[0].pc \notin {"_start", "clear_bss"} \cup Unmapped, Goto(0, to), UNCHANGED <<flag, spin, bss, tables, kstack>>
  PROVE  BootInv'
<1> DEFINE new == [core[0] EXCEPT !.pc = to]
<1>0. 0 \in Cores /\ core \in [Cores -> Core]
  BY BootAssumption, Zenon DEF BootInv, BootTypeOK
<1>1. to \in KernelPcs
  BY Zenon DEF KernelPcs
<1>2. new \in Core /\ core' = [core EXCEPT ![0] = new]
  BY <1>0, <1>1, CoreUpdate, Zenon DEF Pcs, Goto
<1>3. to \notin {"firmware", "wait_until_smp_enabled"} \cup Mapped \cup Released
  BY Zenon DEF Mapped, Released
<1>4. CoreInv(0)'
  BY <1>0, <1>1, <1>2, <1>3 DEF BootInv, PrimaryInv, CoreInv, Core
<1>5. bss' = "zero" /\ tables' = "filled" /\ core'[0].pc = to
  BY <1>0, <1>2, Zenon DEF BootInv, PrimaryInv, Core
<1>6. PrimaryInv'
  BY <1>3, <1>5, Zenon DEF PrimaryInv
<1>7. spin' \in BOOLEAN /\ kstack' \in BOOLEAN
  BY Zenon DEF BootInv, BootTypeOK
<1> HIDE DEF new
<1> QED BY <1>0, <1>2, <1>4, <1>6, <1>7, OneCore, Zenon

\* What the machine does besides booting keeps the invariant of the boot.
THEOREM BootInvariant == Spec => []BootInv
<1>1. Init => BootInv
  BY BootStarts, Zenon DEF Init
<1>2. BootInv /\ [Next]_vars => BootInv'
  <2> SUFFICES ASSUME BootInv, [Next]_vars PROVE BootInv'
    OBVIOUS
  <2>1. ASSUME UNCHANGED bootVars PROVE BootInv'
    <3>1. BootTypeOK'
      BY <2>1, SMTT(30) DEF bootVars, BootInv, BootTypeOK
    <3> QED BY <2>1, <3>1, ZenonT(30) DEF bootVars, BootInv, PrimaryInv, CoreInv
  <2>2. CASE Boots
    BY <2>2, BootSteps, Zenon DEF Boots
  <2>3. {"plat_poweroff", "kernel"} \subseteq KernelPcs /\ {"plat_poweroff", "kernel"} \cap Unmapped = {}
    BY MainPcsAre DEF KernelPcs, MainPcs, Unmapped
  <2>4. CASE MainGoesOn
    BY <2>3, <2>4, KernelStep, Zenon DEF MainGoesOn, At
  <2>5. CASE StartThreads
    BY <2>3, <2>5, KernelStep, Zenon DEF StartThreads, At
  <2>6. CASE MainPowersOff \/ RunsThreads \/ sys_poweroff \/ ReturnPoweroff
    BY <2>1, <2>6, Zenon DEF MainPowersOff, RunsThreads, sys_poweroff, ReturnPoweroff
  <2>7. CASE PowersDown \/ Answers \/ Resets
    BY <2>1, <2>7, Zenon DEF PowersDown, Answers, Resets
  <2>8. CASE UNCHANGED vars
    BY <2>1, <2>8, Zenon DEF vars
  <2> QED BY <2>2, <2>4, <2>5, <2>6, <2>7, <2>8, Zenon DEF Next
<1> QED BY <1>1, <1>2, PTL DEF Spec

\* However the cores' steps fall, no core's stack is cleared under it or used by
\* another: clear_bss, the flags and start_kernel come in the right order.
THEOREM StacksStayOwn == Spec => []StacksKept
BY BootInvariant, StacksAreKept, PTL

\* A core that runs main or secondary_start translates no low address any more.
THEOREM LowMapStaysGone == Spec => []LowMapGone
BY BootInvariant, LowMapIsGone, PTL

\* Every core, at every step of the boot and after, reaches its code, its stack
\* and the UART through the tables init_kernel_pt has made, for every layout of
\* memory that fits them: the MMU may come on between any two instructions.
THEOREM AccessesStayMapped == Spec => []AccessesMapped
BY BootInvariant, AccessesAreMapped, PTL

(***************************************************************************)
(* Exceptions and the mailbox in the machine                               *)
(***************************************************************************)
\* Only the exception code, on the core that runs threads, touches the state of
\* the exceptions: its invariant is one of the whole machine.
THEOREM ExceptionsInvariant == Spec => []ExceptionsInv
<1>1. Init => ExceptionsInv
  BY ExceptionsStart, Zenon DEF Init
<1>2. ExceptionsInv /\ [Next]_vars => ExceptionsInv'
  <2> SUFFICES ASSUME ExceptionsInv, [Next]_vars PROVE ExceptionsInv'
    OBVIOUS
  <2>1. ASSUME UNCHANGED exceptionVars PROVE ExceptionsInv'
    <3>1. StateTypes'
      BY <2>1, ZenonT(30) DEF exceptionVars, ExceptionsInv, StateTypes
    <3>2. StackInv' /\ ThreadInv'
      BY <2>1, ZenonT(30) DEF exceptionVars, ExceptionsInv, StackInv, LevelInv, Label, ThreadInv
    <3>3. ContextRestored'
      BY <2>1, Zenon DEF exceptionVars, ExceptionsInv, ContextRestored
    <3> QED BY <3>1, <3>2, <3>3, Zenon DEF ExceptionsInv
  <2>2. CASE RunsThreads
    BY <2>2, ExceptionsKeep, Zenon DEF RunsThreads
  <2>3. CASE ReturnPoweroff
    BY <2>3, ExceptionsKeep, Zenon DEF ReturnPoweroff
  <2>4. CASE Boots \/ MainPowersOff \/ MainGoesOn \/ StartThreads \/ sys_poweroff
    BY <2>1, <2>4, Zenon DEF Boots, MainPowersOff, MainGoesOn, StartThreads, sys_poweroff
  <2>5. CASE PowersDown \/ Answers \/ Resets
    BY <2>1, <2>5, Zenon DEF PowersDown, Answers, Resets
  <2>6. CASE UNCHANGED vars
    BY <2>1, <2>6, Zenon DEF vars
  <2> QED BY <2>2, <2>3, <2>4, <2>5, <2>6, Zenon DEF Next
<1> QED BY <1>1, <1>2, PTL DEF Spec

\* However exceptions nest, whichever thread they come from and whatever the
\* handlers do, no saved context is overwritten before it is restored.
THEOREM FramesStayIntact == Spec => []FramesIntact
BY ExceptionsInvariant, ExceptionsSafe, PTL

\* Every eret gives the interrupted code back its registers, its program counter
\* and its stack pointer, with at most the result of a system call in x0.
THEOREM ContextsAreRestored == Spec => []ContextRestored
BY ExceptionsInvariant, ExceptionsSafe, PTL

\* What plat_poweroff writes to the mailbox when sys_poweroff calls it.
SysMessage == virt_to_phys(StackAddress(<<"KSTACK", 0>>))

\* The mail is that of others, or the message of the one plat_poweroff that runs
\* or has run: the one of main, which never returns to the kernel, or those of
\* sys_poweroff, which all have the same address.
MailInv ==
  /\ po \in {"idle", "write", "read", "gpio", "pm", "done"}
  /\ mbox.pa \in Nat /\ mbox.va \in Nat /\ r \in Nat
  /\ requests \in Seq({Other, r}) /\ responses \in Seq({Other, r})
  /\ Len(requests) <= MBOX_SLOTS /\ Len(responses) <= MBOX_SLOTS
  /\ armed \in BOOLEAN /\ off \in BOOLEAN
  /\ \/ po = "idle" /\ requests \in Seq({Other}) /\ responses \in Seq({Other})
     \/ po # "idle" /\ At(0, "plat_poweroff")
     \/ r = SysMessage /\ At(0, "threads")

\* Core 0 stays where it is at the end of main and when it runs threads.
LEMMA BootStays ==
  ASSUME BootTypeOK, BootNext, NEW p \in {"plat_poweroff", "threads"}, At(0, p)
  PROVE  At(0, p)'
<1>0. 0 \in Cores /\ core \in [Cores -> Core]
  BY BootAssumption, Zenon DEF BootTypeOK
<1>1. core[0].pc = p /\ core[0].pc \notin {"_start", "clear_bss", "early_uart_init", "wakeup_other_cores", "init_kernel_pt",
        "el1_mmu_activate", "call_start_kernel"} \cup HeadPcs
  BY Zenon DEF At, HeadPcs
<1>2. CASE Primary
  <2>1. ASSUME main PROVE FALSE
    <3>0. PICK i \in 1 .. Len(MainPcs) - 1 : At(0, MainPcs[i])
      BY <2>1, Zenon DEF main
    <3>1. i \in 1 .. 7 /\ core[0].pc = MainPcs[i]
      <4>1. Len(MainPcs) = 8
        BY MainPcsAre, Zenon
      <4>2. i \in 1 .. 7
        BY <4>1
      <4> QED BY <3>0, <4>2, Zenon DEF At
    <3>2. MainPcs[i] \in {"lock_init", "init_per_cpu_info", "mm_init", "map_kstack", "arch_interrupt_init",
                         "timer_init", "pmu_init"}
      BY <3>1 DEF MainPcs
    <3>3. MainPcs[i] \notin {"plat_poweroff", "threads"}
      BY <3>2, Zenon
    <3> QED BY <3>1, <3>3, <1>1, Zenon
  <2>2. Sync(0)
    BY <1>1, <1>2, <2>1, Zenon DEF Primary, _start, clear_bss, early_uart_init, wakeup_other_cores, InitKernelPt, EnableMmu,
                            start_kernel, EnterKernel, FlushTlb, At
  <2> QED BY <2>2, <1>0, <1>1, Zenon DEF Sync, At, Core
<1>3. ASSUME NEW c \in Cores \ {0}, Secondary(c) PROVE core'[0].pc = p
  <2>1. CASE SpinTable(c) \/ _start(c) \/ wait_until_smp_enabled(c) \/ Sync(c)
    BY <2>1, <1>0, <1>1, Zenon DEF SpinTable, _start, wait_until_smp_enabled, Sync, Goto
  <2>2. CASE secondary_init(c)
    <3>1. PICK x : core'[0] = [core[0] EXCEPT !.tlb = x]
      BY <2>2, <1>0, Zenon DEF secondary_init, el1_mmu_activate
    <3>2. core[0] \in Core
      BY <1>0, Zenon
    <3> QED BY <3>1, <3>2, <1>1, Zenon DEF Core
  <2>3. CASE secondary_cpu_boot(c) \/ FlushTlb(c) \/ Release(c)
    BY <2>3, <1>0, <1>1, Zenon DEF secondary_cpu_boot, EnterKernel, FlushTlb, flush_tlb_all, Release
  <2> QED BY <1>3, <2>1, <2>2, <2>3, Zenon DEF Secondary
<1> QED BY <1>2, <1>3, Zenon DEF BootNext, At

\* The address of a message is a number.
LEMMA AddressType ==
  ASSUME NEW k \in {"cpu_stacks", "KSTACK"}
  PROVE  /\ StackMemory(<<k, 0>>) \in Nat /\ StackAddress(<<k, 0>>) \in Nat
         /\ virt_to_phys(StackAddress(<<k, 0>>)) \in Nat
<1>1. /\ {_bss_start, KSTACK_BASE, KERNEL_VADDR} \subseteq Nat /\ SIZE_4G \in Nat /\ SIZE_4G > 0
  BY BootAssumption, BootLayoutAssumption DEF SIZE_4G, SIZE_1G
<1>2. StackMemory(<<k, 0>>) = _bss_start /\ StackAddress(<<k, 0>>) \in {_bss_start + KERNEL_VADDR, KSTACK_BASE}
  BY <1>1, Zenon DEF StackMemory, StackAddress, phys_to_virt, KBASE
<1>3. StackAddress(<<k, 0>>) \in Nat
  BY <1>1, <1>2
<1>4. \A a \in Int : a % SIZE_4G \in Nat
  BY <1>1
<1>5. StackAddress(<<k, 0>>) - KBASE \in Int
  BY <1>1, <1>3 DEF KBASE
<1> QED BY <1>1, <1>2, <1>3, <1>4, <1>5, ZenonT(30) DEF virt_to_phys

\* A call of plat_poweroff by main or by sys_poweroff.
LEMMA CallKeeps ==
  ASSUME MailInv, NEW k \in {"cpu_stacks", "KSTACK"}, Call(<<k, 0>>), po = "idle", UNCHANGED core,
         \/ At(0, "plat_poweroff")
         \/ At(0, "threads") /\ k = "KSTACK"
  PROVE  MailInv'
<1>1. /\ po' = "write" /\ mbox' = [pa |-> StackMemory(<<k, 0>>), va |-> StackAddress(<<k, 0>>)]
      /\ r' = virt_to_phys(StackAddress(<<k, 0>>))
      /\ requests' = requests /\ responses' = responses /\ armed' = armed /\ off' = off
  BY Zenon DEF Call, plat_poweroff
<1>2. mbox'.pa \in Nat /\ mbox'.va \in Nat /\ r' \in Nat
  BY <1>1, AddressType, Zenon
<1>3. requests' \in Seq({Other, r'}) /\ responses' \in Seq({Other, r'})
  <2>1. \/ requests \in Seq({Other}) /\ responses \in Seq({Other})
        \/ requests \in Seq({Other, r'}) /\ responses \in Seq({Other, r'})
    BY <1>1, Zenon DEF MailInv, At, SysMessage
  <2> QED BY <2>1, <1>1
<1>4. armed' \in BOOLEAN /\ off' \in BOOLEAN
  BY <1>1, Zenon DEF MailInv
<1>5. Len(requests') <= MBOX_SLOTS /\ Len(responses') <= MBOX_SLOTS
  BY <1>1, Zenon DEF MailInv
<1>6. At(0, "plat_poweroff")' \/ (r' = SysMessage' /\ At(0, "threads")')
  BY <1>1, Zenon DEF At, SysMessage
<1>7. po' # "idle" /\ po' \in {"idle", "write", "read", "gpio", "pm", "done"}
  BY <1>1, Zenon
<1> QED BY <1>2, <1>3, <1>4, <1>5, <1>6, <1>7, Zenon DEF MailInv

\* The steps of plat_poweroff, of the firmware and of the watchdog.
LEMMA MailMoves ==
  ASSUME MailInv, PoweroffStep \/ Firmware \/ Watchdog, UNCHANGED core
  PROVE  MailInv'
<1>0. At(0, "plat_poweroff")' = At(0, "plat_poweroff") /\ At(0, "threads")' = At(0, "threads") /\ SysMessage' = SysMessage
  BY Zenon DEF At, SysMessage
<1>1. armed \in BOOLEAN /\ off \in BOOLEAN
  BY Zenon DEF MailInv
<1>2. armed' \in BOOLEAN /\ off' \in BOOLEAN
  BY <1>1, Zenon DEF PoweroffStep, MboxWrite, MboxRead, PowerPins, ArmWatchdog, Firmware, Watchdog
<1>3. r' = r /\ mbox' = mbox
  BY Zenon DEF PoweroffStep, MboxWrite, MboxRead, PowerPins, ArmWatchdog, Firmware, Watchdog
<1>4. po' \in {"idle", "write", "read", "gpio", "pm", "done"} /\ (po' = "idle" <=> po = "idle")
  <2>1. po \in {"idle", "write", "read", "gpio", "pm", "done"}
    BY Zenon DEF MailInv
  <2>2. CASE PoweroffStep
    BY <2>2, Zenon DEF PoweroffStep, MboxWrite, MboxRead, PowerPins, ArmWatchdog
  <2>3. CASE Firmware \/ Watchdog
    BY <2>1, <2>3, Zenon DEF Firmware, Watchdog
  <2> QED BY <2>2, <2>3, Zenon
<1>5. ASSUME NEW S, requests \in Seq(S), responses \in Seq(S), r \in S \/ po = "idle"
      PROVE  requests' \in Seq(S) /\ responses' \in Seq(S)
  <2>1. CASE MboxWrite
    <3>1. r \in S /\ requests' = Append(requests, r) /\ responses' = responses
      BY <2>1, <1>5, Zenon DEF MboxWrite
    <3> QED BY <3>1, <1>5
  <2>4. CASE MboxRead
    <3>1. responses # <<>> /\ requests' = requests /\ responses' = Tail(responses)
      BY <2>4, Zenon DEF MboxRead
    <3> QED BY <3>1, <1>5
  <2>2. CASE Firmware
    BY <2>2, <1>5 DEF Firmware
  <2>3. CASE PowerPins \/ ArmWatchdog \/ Watchdog
    BY <2>3, <1>5, Zenon DEF PowerPins, ArmWatchdog, Watchdog
  <2> QED BY <2>1, <2>2, <2>3, <2>4, Zenon DEF PoweroffStep
<1>6. Len(requests') <= MBOX_SLOTS /\ Len(responses') <= MBOX_SLOTS
  <2>1. Len(requests) <= MBOX_SLOTS /\ Len(responses) <= MBOX_SLOTS /\ MBOX_SLOTS \in Nat
        /\ requests \in Seq({Other, r}) /\ responses \in Seq({Other, r})
    BY PoweroffAssumption, Zenon DEF MailInv
  <2>2. CASE MboxWrite \/ MboxRead
    BY <2>1, <2>2 DEF MboxWrite, MboxRead
  <2>3. CASE Firmware
    BY <2>1, <2>3 DEF Firmware
  <2>4. CASE PowerPins \/ ArmWatchdog \/ Watchdog
    BY <2>1, <2>4, Zenon DEF PowerPins, ArmWatchdog, Watchdog
  <2> QED BY <2>2, <2>3, <2>4, Zenon DEF PoweroffStep
<1>7. requests' \in Seq({Other, r'}) /\ responses' \in Seq({Other, r'})
  BY <1>3, <1>5, Zenon DEF MailInv
<1>8. po = "idle" /\ requests \in Seq({Other}) /\ responses \in Seq({Other}) =>
      requests' \in Seq({Other}) /\ responses' \in Seq({Other})
  BY <1>5, Zenon
<1>9. mbox'.pa \in Nat /\ mbox'.va \in Nat /\ r' \in Nat
  BY <1>3, Zenon DEF MailInv
<1> QED BY <1>0, <1>2, <1>3, <1>4, <1>6, <1>7, <1>8, <1>9, Zenon DEF MailInv

\* The mail is accounted for in every state of the machine.
THEOREM MailInvariant == Spec => []MailInv
<1>1. Init => MailInv
  <2> SUFFICES ASSUME Init PROVE MailInv
    OBVIOUS
  <2>1. po = "idle" /\ mbox = [pa |-> 0, va |-> 0] /\ r = 0 /\ armed = FALSE /\ off = FALSE
    BY Zenon DEF Init, PoweroffInit
  <2>2. PICK m, n \in 0 .. MBOX_SLOTS : requests = Mail(m) /\ responses = Mail(n)
    BY Zenon DEF Init, PoweroffInit
  <2>3. ASSUME NEW k \in 0 .. MBOX_SLOTS PROVE Mail(k) \in Seq({Other}) /\ Mail(k) \in Seq({Other, r}) /\ Len(Mail(k)) <= MBOX_SLOTS
    BY PoweroffAssumption DEF Mail
  <2>4. armed \in BOOLEAN /\ off \in BOOLEAN
    BY <2>1, Zenon
  <2>5. mbox.pa \in Nat /\ mbox.va \in Nat /\ r \in Nat
    BY <2>1, Zenon
  <2> QED BY <2>1, <2>2, <2>3, <2>4, <2>5, Zenon DEF MailInv
<1>2. BootInv /\ MailInv /\ [Next]_vars => MailInv'
  <2> SUFFICES ASSUME BootInv, MailInv, [Next]_vars PROVE MailInv'
    OBVIOUS
  <2>1. ASSUME UNCHANGED poweroffVars, \A p \in {"plat_poweroff", "threads"} : At(0, p) => At(0, p)'
        PROVE  MailInv'
    BY <2>1, Zenon DEF poweroffVars, MailInv, SysMessage
  <2>2. CASE Boots
    BY <2>1, <2>2, BootStays, Zenon DEF Boots, BootInv
  <2>3. CASE MainGoesOn
    <3>1. UNCHANGED poweroffVars /\ po = "idle" /\ At(0, "plat_poweroff")
      BY <2>3, Zenon DEF MainGoesOn
    <3>2. requests \in Seq({Other}) /\ responses \in Seq({Other})
      BY <3>1, Zenon DEF MailInv, At
    <3> QED BY <3>1, <3>2, Zenon DEF MailInv, poweroffVars
  <2>4. CASE StartThreads
    <3>1. UNCHANGED poweroffVars /\ At(0, "kernel")
      BY <2>4, Zenon DEF StartThreads
    <3>2. ~At(0, "plat_poweroff") /\ ~At(0, "threads")
      BY <3>1, Zenon DEF At
    <3> QED BY <2>1, <3>1, <3>2, Zenon
  <2>5. CASE RunsThreads \/ UNCHANGED vars
    <3>1. UNCHANGED poweroffVars /\ UNCHANGED bootVars
      BY <2>5, Zenon DEF RunsThreads, vars
    <3> QED BY <2>1, <3>1, Zenon DEF bootVars, At
  <2>6. CASE MainPowersOff
    <3>1. At(0, "plat_poweroff") /\ 0 \in Cores
      BY <2>6, BootAssumption, Zenon DEF MainPowersOff
    <3>2. core[0].sp = <<"cpu_stacks", 0>>
      BY <3>1, KernelPcsAre, Zenon DEF BootInv, CoreInv, At
    <3> QED BY <2>6, <3>1, <3>2, CallKeeps, Zenon DEF MainPowersOff, bootVars
  <2>7. CASE sys_poweroff
    BY <2>7, CallKeeps, Zenon DEF sys_poweroff, bootVars
  <2>8. CASE ReturnPoweroff
    <3>1. /\ At(0, "threads") /\ po = "done" /\ po' = "idle"
          /\ UNCHANGED <<core, mbox, r, requests, responses, armed, off>>
      BY <2>8, Zenon DEF ReturnPoweroff, bootVars
    <3>2. r = SysMessage /\ At(0, "threads")' /\ SysMessage' = SysMessage
      BY <3>1, Zenon DEF MailInv, At, SysMessage
    <3> QED BY <3>1, <3>2, Zenon DEF MailInv
  <2>9. CASE PowersDown \/ Answers \/ Resets
    BY <2>9, MailMoves, Zenon DEF PowersDown, Answers, Resets, bootVars
  <2> QED BY <2>2, <2>3, <2>4, <2>5, <2>6, <2>7, <2>8, <2>9, Zenon DEF Next
<1> QED BY <1>1, <1>2, BootInvariant, PTL DEF Spec

\* Type correctness of the whole machine: in particular a core's program counter,
\* stack and translation base stay in their ranges, frames and stack pointer stay
\* on the stacks, and the mailboxes hold nothing but the mail they were given.
THEOREM MachineTypeCorrect == Spec => []TypeOK
<1>1. MailInv => PoweroffTypeOK
  <2> SUFFICES ASSUME MailInv PROVE PoweroffTypeOK
    OBVIOUS
  <2>1. \A m \in {requests, responses} : Len(m) <= MBOX_SLOTS /\ \A i \in DOMAIN m : m[i] \in {Other, r}
    BY DEF MailInv
  <2> QED BY <2>1, Zenon DEF MailInv, PoweroffTypeOK
<1>2. BootInv => BootTypeOK
  BY Zenon DEF BootInv
<1> QED BY <1>1, <1>2, BootInvariant, MailInvariant, ExceptionsInvariant, ExceptionsSafe, PTL DEF TypeOK
=============================================================================
