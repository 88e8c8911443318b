---------------------------- MODULE SlabProofs -----------------------------
(***************************************************************************)
(* Proofs about Slab.                                                      *)
(***************************************************************************)
EXTENDS Slab, TLAPS

(***************************************************************************)
(* The inductive invariant                                                 *)
(***************************************************************************)
\* What is under way in container o, and the slab it is about.
Busy(o) == IF sc_lock[o] = NULL THEN "idle" ELSE pc[sc_lock[o]]
Subject(o) == s[sc_lock[o]]

\* A CPU in a call holds the lock of its container, and only that one.
Locks ==
  /\ \A c \in CPUs :
       IF pc[c] = "idle" THEN sc[c] = NULL ELSE sc[c] \in BlockOrders /\ sc_lock[sc[c]] = c
  /\ \A c \in CPUs : pc[c] \in {"free", "drop"} => s[c] \in Chunks
  /\ \A o \in BlockOrders : sc_lock[o] # NULL => pc[sc_lock[o]] # "idle" /\ sc[sc_lock[o]] = o

\* S has n elements.
HasSize(S, n) == \E h \in Seq(Nat) : Len(h) = n /\ IsInjective(h) /\ Range(h) = S

\* A slab shares its blocks out between its chain and the callers.
ChunkInv(x) ==
  /\ page_slab[x] \in {NULL, x}
  /\ page_slab[x] # NULL =>
       /\ x \notin buddy /\ order[x] \in BlockOrders
       /\ free_block_count[x] = Len(free_blocks[x])
       /\ IsInjective(free_blocks[x])
       /\ Range(free_blocks[x]) \cap HeldBlocks(x) = {}
       /\ Range(free_blocks[x]) \cup HeldBlocks(x) = 1 .. Total[order[x]] - 1
       /\ HasSize(HeldBlocks(x), Total[order[x]] - 1 - free_block_count[x])

\* The slabs that container o can reach, and those it should.
Members(o) == (Range(partial_list[o]) \cup {current[o]}) \ {NULL}
Usable(o) == {x \in SlabsOf(o) : free_block_count[x] > 0}

\* What holds of container o at every point of a call, not only while sc->lock
\* is free: in between, the two differ by the slab the call is about.
ContainerInv(o) ==
  /\ IsInjective(partial_list[o]) /\ current[o] \notin Range(partial_list[o])
  /\ \A x \in Range(partial_list[o]) : node[x] = o
  /\ \A x \in Range(partial_list[o]) :
       free_block_count[x] < Total[o] - 1 \/ (Busy(o) \in {"free", "drop"} /\ x = Subject(o))
  /\ Busy(o) \in {"idle", "alloc"} => Members(o) = Usable(o)
  /\ Busy(o) = "replace" =>
       /\ current[o] \in SlabsOf(o) /\ free_block_count[current[o]] = 0
       /\ Members(o) = Usable(o) \cup {current[o]}
  /\ Busy(o) = "free" =>
       /\ Subject(o) \in Usable(o)
       /\ Members(o) = IF free_block_count[Subject(o)] = 1
                       THEN Usable(o) \ {Subject(o)} ELSE Usable(o)
  /\ Busy(o) = "drop" =>
       /\ Subject(o) \in buddy
       /\ Members(o) = Usable(o) \cup {Subject(o)}
  /\ Busy(o) # "halt"

Owners == KfreeFindsOwner /\ \A a \in held : a[2] = 0 => a[3] = 0

SlabInv ==
  /\ TypeOK /\ Locks /\ Owners
  /\ \A x \in Chunks : ChunkInv(x)
  /\ \A o \in BlockOrders : ContainerInv(o)

(***************************************************************************)
(* The one thing that can break it.  __slab_free gives a slab back to the  *)
(* buddy allocator before its container lets go of it; a step hands such a *)
(* chunk out again only if another CPU runs in between.                    *)
(***************************************************************************)
NotTaken == \A c \in CPUs : pc[c] = "drop" => s[c] \in buddy'

\* A step changes nothing about the lock and the call of container o.
Calm(o) ==
  /\ sc_lock'[o] = sc_lock[o]
  /\ sc_lock[o] # NULL => pc'[sc_lock[o]] = pc[sc_lock[o]] /\ s'[sc_lock[o]] = s[sc_lock[o]]

\* A step writes only to slabs of container o, and to chunks it takes from the
\* buddy allocator.
Confined(o) ==
  \A x \in Chunks :
    \/ /\ order'[x] = order[x] /\ page_slab'[x] = page_slab[x]
       /\ free_block_count'[x] = free_block_count[x] /\ node'[x] = node[x]
    \/ /\ x \in SlabsOf(o) \cup (buddy \ buddy')
       /\ page_slab'[x] = x => order'[x] = o

(***************************************************************************)
(* Sequences without repetitions, and how many elements a set has          *)
(***************************************************************************)
\* The first element of a sequence without repetitions is taken off.
LEMMA TailOf ==
  ASSUME NEW S, NEW q \in Seq(S), q # <<>>, IsInjective(q)
  PROVE  /\ Tail(q) \in Seq(S) /\ Len(Tail(q)) = Len(q) - 1 /\ IsInjective(Tail(q))
         /\ Head(q) \in S /\ Head(q) \in Range(q)
         /\ Range(Tail(q)) = Range(q) \ {Head(q)}
<1>1. /\ Len(q) \in Nat /\ Len(q) > 0 /\ DOMAIN q = 1 .. Len(q)
      /\ Tail(q) \in Seq(S) /\ Len(Tail(q)) = Len(q) - 1 /\ DOMAIN Tail(q) = 1 .. Len(q) - 1
      /\ \A i \in 1 .. Len(q) - 1 : Tail(q)[i] = q[i + 1]
      /\ Head(q) = q[1]
  OBVIOUS
<1>2. IsInjective(Tail(q))
  BY <1>1 DEF IsInjective
<1>3. ASSUME NEW e PROVE e \in Range(Tail(q)) <=> e \in Range(q) /\ e # q[1]
  <2>1. ASSUME NEW i \in 1 .. Len(q) - 1, e = Tail(q)[i] PROVE e \in Range(q) /\ e # q[1]
    BY <2>1, <1>1 DEF Range, IsInjective
  <2>2. ASSUME NEW i \in 1 .. Len(q), e = q[i], e # q[1] PROVE e \in Range(Tail(q))
    <3>1. i - 1 \in 1 .. Len(q) - 1 /\ Tail(q)[i - 1] = q[i]
      BY <2>2, <1>1
    <3> QED BY <3>1, <2>2, <1>1, Zenon DEF Range
  <2> QED BY <2>1, <2>2, <1>1, Zenon DEF Range
<1>4. Range(Tail(q)) = Range(q) \ {Head(q)}
  BY <1>1, <1>3, Zenon
<1>5. Head(q) \in S /\ Head(q) \in Range(q)
  BY <1>1 DEF Range
<1> QED BY <1>1, <1>2, <1>4, <1>5, Zenon

\* An element that is not in a sequence without repetitions is put before it.
LEMMA ConsOf ==
  ASSUME NEW S, NEW q \in Seq(S), NEW e \in S, e \notin Range(q), IsInjective(q)
  PROVE  /\ <<e>> \o q \in Seq(S) /\ Len(<<e>> \o q) = Len(q) + 1 /\ IsInjective(<<e>> \o q)
         /\ Range(<<e>> \o q) = Range(q) \cup {e}
<1>1. PICK p : p = <<e>> \o q
  BY Zenon
<1>2. /\ Len(q) \in Nat /\ DOMAIN q = 1 .. Len(q) /\ p \in Seq(S) /\ Len(p) = Len(q) + 1
      /\ DOMAIN p = 1 .. Len(q) + 1 /\ p[1] = e
      /\ \A i \in 2 .. Len(q) + 1 : p[i] = q[i - 1]
  BY <1>1
<1>3. IsInjective(p)
  <2>1. ASSUME NEW i \in 2 .. Len(q) + 1 PROVE i - 1 \in 1 .. Len(q) /\ p[i] # e
    <3>1. i - 1 \in 1 .. Len(q)
      BY <1>2
    <3>2. q[i - 1] \in Range(q) /\ p[i] = q[i - 1]
      BY <3>1, <1>2, Zenon DEF Range
    <3> QED BY <3>1, <3>2, Zenon
  <2> SUFFICES ASSUME NEW i \in 1 .. Len(q) + 1, NEW j \in 1 .. Len(q) + 1, p[i] = p[j] PROVE i = j
    BY <1>2, Zenon DEF IsInjective
  <2>2. CASE i = 1 \/ j = 1
    BY <2>1, <2>2, <1>2
  <2>3. CASE i # 1 /\ j # 1
    <3>1. i - 1 \in 1 .. Len(q) /\ j - 1 \in 1 .. Len(q) /\ q[i - 1] = q[j - 1]
      BY <2>1, <2>3, <1>2
    <3>2. i - 1 = j - 1
      BY <3>1, <1>2, Zenon DEF IsInjective
    <3> QED BY <3>2, <1>2
  <2> QED BY <2>2, <2>3, Zenon
<1>4. ASSUME NEW d PROVE d \in Range(p) <=> d \in Range(q) \/ d = e
  <2>1. ASSUME NEW i \in 1 .. Len(q), d = q[i] PROVE d \in Range(p)
    <3>1. i + 1 \in 1 .. Len(q) + 1 /\ p[i + 1] = d
      BY <2>1, <1>2
    <3> QED BY <3>1, <1>2, Zenon DEF Range
  <2>2. ASSUME NEW i \in 1 .. Len(q) + 1, d = p[i] PROVE d \in Range(q) \/ d = e
    <3>1. i = 1 \/ (i - 1 \in 1 .. Len(q) /\ d = q[i - 1])
      BY <2>2, <1>2
    <3> QED BY <3>1, <2>2, <1>2, Zenon DEF Range
  <2>3. e \in Range(p)
    BY <1>2 DEF Range
  <2> QED BY <2>1, <2>2, <2>3, <1>2, Zenon DEF Range
<1>5. Range(p) = Range(q) \cup {e}
  BY <1>4, Zenon
<1> QED BY <1>1, <1>2, <1>3, <1>5, Zenon

\* An element that is not in a sequence without repetitions is put after it.
LEMMA AppendOf ==
  ASSUME NEW S, NEW q \in Seq(S), NEW e \in S, e \notin Range(q), IsInjective(q)
  PROVE  /\ Append(q, e) \in Seq(S) /\ Len(Append(q, e)) = Len(q) + 1 /\ IsInjective(Append(q, e))
         /\ Range(Append(q, e)) = Range(q) \cup {e}
<1>1. PICK p : p = Append(q, e)
  BY Zenon
<1>2. /\ Len(q) \in Nat /\ DOMAIN q = 1 .. Len(q) /\ p \in Seq(S) /\ Len(p) = Len(q) + 1
      /\ DOMAIN p = 1 .. Len(q) + 1 /\ p[Len(q) + 1] = e
      /\ \A i \in 1 .. Len(q) : p[i] = q[i]
  BY <1>1
<1>3. IsInjective(p)
  BY <1>2 DEF IsInjective, Range
<1>4. ASSUME NEW d PROVE d \in Range(p) <=> d \in Range(q) \/ d = e
  BY <1>2 DEF Range
<1>5. Range(p) = Range(q) \cup {e}
  BY <1>4, Zenon
<1> QED BY <1>1, <1>2, <1>3, <1>5, Zenon

\* An element of a sequence without repetitions is removed.
LEMMA RemoveOf ==
  ASSUME NEW S, NEW q \in Seq(S), NEW e \in Range(q), IsInjective(q)
  PROVE  /\ list_del(q, e) \in Seq(S) /\ Len(list_del(q, e)) = Len(q) - 1 /\ IsInjective(list_del(q, e))
         /\ Range(list_del(q, e)) = Range(q) \ {e}
<1>1. PICK k \in 1 .. Len(q) : q[k] = e
  BY DEF Range
<1>2. Len(q) \in Nat /\ DOMAIN q = 1 .. Len(q)
  OBVIOUS
<1>3. k \in Int /\ Len(q) \in Int /\ k <= Len(q)
  BY <1>2
<1>6. (CHOOSE i \in DOMAIN q : q[i] = e) = k
  BY <1>1, <1>2, Zenon DEF IsInjective
<1>7. PICK p : p = SubSeq(q, 1, k - 1) \o SubSeq(q, k + 1, Len(q))
  BY Zenon
<1>8. list_del(q, e) = p
  BY <1>6, <1>7, <1>1, Zenon DEF list_del
<1>9. /\ p \in Seq(S) /\ Len(p) = Len(q) - 1 /\ DOMAIN p = 1 .. Len(q) - 1
      /\ \A i \in 1 .. Len(q) - 1 : p[i] = IF i < k THEN q[i] ELSE q[i + 1]
  <2>1. PICK a, b : a = SubSeq(q, 1, k - 1) /\ b = SubSeq(q, k + 1, Len(q))
    BY Zenon
  <2>2. a \in Seq(S) /\ Len(a) = k - 1 /\ \A i \in 1 .. k - 1 : a[i] = q[i]
    BY <2>1, <1>1, <1>2
  <2>3. b \in Seq(S) /\ Len(b) = Len(q) - k /\ \A i \in 1 .. Len(q) - k : b[i] = q[i + k]
    <3>1. CASE k = Len(q)
      <4>1. b = <<>>
        BY <3>1, <2>1
      <4> QED BY <4>1, <3>1, <1>1, <1>2
    <3>2. CASE k < Len(q)
      <4>1. b \in Seq(S)
        BY <3>2, <2>1
      <4>2. Len(b) = Len(q) - k
        BY <3>2, <2>1
      <4>3. ASSUME NEW i \in 1 .. Len(q) - k PROVE b[i] = q[i + k]
        BY <3>2, <2>1
      <4> QED BY <4>1, <4>2, <4>3, Zenon
    <3>3. k = Len(q) \/ k < Len(q)
      BY <1>3
    <3> QED BY <3>1, <3>2, <3>3, Zenon
  <2>4. p = a \o b
    BY <2>1, <1>7, Zenon
  <2>5. Len(a) \in Nat /\ Len(b) \in Nat /\ Len(a) + Len(b) = Len(q) - 1
    BY <2>2, <2>3, <1>1, <1>2
  <2>6. /\ p \in Seq(S) /\ Len(p) = Len(q) - 1
        /\ \A i \in 1 .. Len(p) : p[i] = IF i <= Len(a) THEN a[i] ELSE b[i - Len(a)]
    <3>1. a \in Seq(S) /\ b \in Seq(S)
      BY <2>2, <2>3, Zenon
    <3>2. p \in Seq(S)
      BY <3>1, <2>4
    <3>3. Len(p) = Len(a) + Len(b)
      BY <3>1, <2>4
    <3>4. ASSUME NEW i \in 1 .. Len(a) + Len(b) PROVE p[i] = IF i <= Len(a) THEN a[i] ELSE b[i - Len(a)]
      BY <3>1, <2>4
    <3> QED BY <3>2, <3>3, <3>4, <2>5, Zenon
  <2>7. ASSUME NEW i \in 1 .. Len(q) - 1 PROVE p[i] = IF i < k THEN q[i] ELSE q[i + 1]
    <3>1. CASE i < k
      BY <3>1, <2>2, <2>6, <1>1, <1>2
    <3>2. CASE i >= k
      <4>1. i - (k - 1) \in 1 .. Len(q) - k /\ (i - (k - 1)) + k = i + 1
        BY <3>2, <1>1, <1>2
      <4>2. p[i] = b[i - (k - 1)]
        BY <3>2, <2>2, <2>6, <1>1, <1>2
      <4>3. b[i - (k - 1)] = q[i + 1]
        BY <4>1, <2>3, Zenon
      <4> QED BY <4>2, <4>3, <3>2, <1>1, <1>2
    <3> QED BY <3>1, <3>2, <1>1, <1>2
  <2> QED BY <2>6, <2>7
<1>10. IsInjective(p)
  <2> SUFFICES ASSUME NEW i \in 1 .. Len(q) - 1, NEW j \in 1 .. Len(q) - 1, p[i] = p[j] PROVE i = j
    BY <1>9, Zenon DEF IsInjective
  <2>1. PICK m, n : m = (IF i < k THEN i ELSE i + 1) /\ n = (IF j < k THEN j ELSE j + 1)
    OBVIOUS
  <2>2. m \in 1 .. Len(q) /\ n \in 1 .. Len(q) /\ p[i] = q[m] /\ p[j] = q[n]
    BY <2>1, <1>1, <1>2, <1>9
  <2>3. m = n
    BY <2>2, <1>2, Zenon DEF IsInjective
  <2> QED BY <2>1, <2>3, <1>1, <1>2
<1>11. ASSUME NEW d PROVE d \in Range(p) <=> d \in Range(q) /\ d # e
  <2>1. ASSUME NEW i \in 1 .. Len(q), d = q[i], d # e PROVE d \in Range(p)
    <3>1. i # k
      BY <2>1, <1>1, Zenon
    <3>2. CASE i < k
      <4>1. i \in 1 .. Len(q) - 1 /\ p[i] = q[i]
        BY <3>2, <1>3, <1>2, <1>9
      <4> QED BY <4>1, <2>1, <1>9, Zenon DEF Range
    <3>3. CASE i > k
      <4>1. i - 1 \in 1 .. Len(q) - 1 /\ p[i - 1] = q[i]
        BY <3>3, <1>1, <1>2, <1>9
      <4> QED BY <4>1, <2>1, <1>9, Zenon DEF Range
    <3> QED BY <3>1, <3>2, <3>3, <1>1, <1>2
  <2>2. ASSUME NEW i \in 1 .. Len(q) - 1, d = p[i] PROVE d \in Range(q) /\ d # e
    <3>1. PICK j \in 1 .. Len(q) : j # k /\ d = q[j]
      BY <2>2, <1>1, <1>2, <1>9
    <3> QED BY <3>1, <1>1, <1>2, Zenon DEF Range, IsInjective
  <2> QED BY <2>1, <2>2, <1>2, <1>9, Zenon DEF Range
<1>12. Range(p) = Range(q) \ {e}
  BY <1>11, Zenon
<1> QED BY <1>8, <1>9, <1>10, <1>12, Zenon

\* The sizes of the empty set, and of a set with an element more or less.
LEMMA SizeZero == HasSize({}, 0) /\ \A S : HasSize(S, 0) => S = {}
<1>1. <<>> \in Seq(Nat) /\ Len(<<>>) = 0 /\ IsInjective(<<>>) /\ Range(<<>>) = {}
  BY DEF IsInjective, Range
<1>2. ASSUME NEW h \in Seq(Nat), Len(h) = 0 PROVE Range(h) = {}
  BY <1>2 DEF Range
<1> QED BY <1>1, <1>2, Zenon DEF HasSize

\* A size is a natural number.
LEMMA SizeNat == ASSUME NEW S, NEW n, HasSize(S, n) PROVE n \in Nat
BY DEF HasSize

\* A set with a new element is one larger: a block is handed out (__slab_malloc).
LEMMA SizeAdd ==
  ASSUME NEW S, NEW n \in Nat, HasSize(S, n), NEW e \in Nat, e \notin S
  PROVE  HasSize(S \cup {e}, n + 1)
<1>1. PICK h \in Seq(Nat) : Len(h) = n /\ IsInjective(h) /\ Range(h) = S
  BY Zenon DEF HasSize
<1>2. /\ Append(h, e) \in Seq(Nat) /\ Len(Append(h, e)) = n + 1 /\ IsInjective(Append(h, e))
      /\ Range(Append(h, e)) = S \cup {e}
  BY <1>1, AppendOf
<1> QED BY <1>2, Zenon DEF HasSize

\* A set without one of its elements is one smaller: a block is given back
\* (__slab_free).
LEMMA SizeRemove ==
  ASSUME NEW S, NEW n \in Nat, HasSize(S, n), NEW e \in S
  PROVE  n > 0 /\ HasSize(S \ {e}, n - 1)
<1>1. PICK h \in Seq(Nat) : Len(h) = n /\ IsInjective(h) /\ Range(h) = S
  BY Zenon DEF HasSize
<1>2. /\ list_del(h, e) \in Seq(Nat) /\ Len(list_del(h, e)) = n - 1
      /\ IsInjective(list_del(h, e)) /\ Range(list_del(h, e)) = S \ {e}
  BY <1>1, RemoveOf, Zenon
<1>3. n # 0
  BY <1>1, SizeZero, Zenon DEF HasSize
<1> QED BY <1>2, <1>3 DEF HasSize

(***************************************************************************)
(* Containers that a step is not about                                     *)
(***************************************************************************)
\* A container reaches slabs of its own, and possibly the chunk it is dropping.
LEMMA MembersOf ==
  ASSUME SlabInv, NEW o \in BlockOrders, NEW x \in Members(o)
  PROVE  /\ x \in Chunks
         /\ x \in SlabsOf(o) \/ (Busy(o) = "drop" /\ x = Subject(o) /\ x \in buddy)
<1>1. ContainerInv(o) /\ TypeOK
  BY Zenon DEF SlabInv
<1>2. Busy(o) \in {"idle", "alloc", "replace", "free", "drop", "halt"}
  BY <1>1, Zenon DEF TypeOK, Busy
<1>3. Usable(o) \subseteq SlabsOf(o)
  BY Zenon DEF Usable
<1>4. x \in SlabsOf(o) \/ (Busy(o) = "drop" /\ x = Subject(o) /\ x \in buddy)
  BY <1>1, <1>2, <1>3, Zenon DEF ContainerInv
<1> QED BY <1>1, <1>4, Zenon DEF SlabsOf, TypeOK

\* A slab of a container is not free in the buddy allocator, nor another's.
LEMMA SlabsApart ==
  ASSUME SlabInv, NEW o, NEW x \in SlabsOf(o)
  PROVE  /\ x \in Chunks /\ x \notin buddy /\ o \in BlockOrders /\ order[x] = o /\ page_slab[x] = x
         /\ \A p \in BlockOrders : p # o => x \notin SlabsOf(p) /\ x \notin Members(p)
<1>1. x \in Chunks /\ page_slab[x] = x /\ order[x] = o /\ ChunkInv(x)
  BY Zenon DEF SlabsOf, SlabInv
<1>2. x # NULL
  BY <1>1, SlabAssumption, Zenon
<1>3. x \notin buddy /\ o \in BlockOrders
  BY <1>1, <1>2, Zenon DEF ChunkInv
<1>4. \A p \in BlockOrders : p # o => x \notin SlabsOf(p)
  BY <1>1, Zenon DEF SlabsOf
<1> QED BY <1>1, <1>3, <1>4, MembersOf, Zenon

\* What a step about container o leaves true of the others.
LEMMA OthersKeep ==
  ASSUME SlabInv, NotTaken, NEW o, Confined(o), NEW p \in BlockOrders, p # o, Calm(p),
         current'[p] = current[p], partial_list'[p] = partial_list[p]
  PROVE  ContainerInv(p)'
<1>1. TypeOK /\ Locks /\ ContainerInv(p) /\ \A x \in Chunks : ChunkInv(x)
  BY Zenon DEF SlabInv
<1>2. Members(p)' = Members(p)
  BY Zenon DEF Members
<1>3. Busy(p)' = Busy(p)
  BY Zenon DEF Busy, Calm
<1>4. Busy(p) \in {"free", "drop"} => Subject(p)' = Subject(p) /\ Subject(p) \in Chunks
  BY <1>1 DEF Busy, Subject, Calm, Locks, TypeOK
<1>5. Busy(p) = "drop" => Subject(p) \in buddy'
  BY <1>1 DEF Busy, Subject, Locks, TypeOK, NotTaken
<1>6. ASSUME NEW x \in SlabsOf(p) \cup Members(p)
      PROVE  /\ order'[x] = order[x] /\ page_slab'[x] = page_slab[x]
             /\ free_block_count'[x] = free_block_count[x] /\ node'[x] = node[x]
  <2>1. x \in Chunks
    BY MembersOf, Zenon DEF SlabsOf
  <2>2. x \notin SlabsOf(o)
    BY SlabsApart, Zenon
  <2>3. x \notin buddy \ buddy'
    BY <1>5, SlabsApart, MembersOf
  <2> QED BY <2>1, <2>2, <2>3, Zenon DEF Confined
<1>7. ASSUME NEW x \in Chunks, x \notin SlabsOf(p) PROVE ~(page_slab'[x] = x /\ order'[x] = p)
  BY <1>7, Zenon DEF Confined, SlabsOf
<1>8. SlabsOf(p)' = SlabsOf(p)
  BY <1>6, <1>7, Zenon DEF SlabsOf
<1>9. Usable(p)' = Usable(p)
  BY <1>6, <1>8, Zenon DEF Usable
<1>10. \A x \in Range(partial_list[p]) : x \in Chunks
  BY <1>1 DEF TypeOK, Range
<1>11. Range(partial_list[p]) \subseteq Members(p)
  BY <1>10, SlabAssumption, Zenon DEF Members
<1>12. Busy(p) = "replace" => current[p] \in SlabsOf(p)
  BY <1>1, Zenon DEF ContainerInv
<1>13. Busy(p) = "free" => Subject(p) \in SlabsOf(p)
  BY <1>1, Zenon DEF ContainerInv, Usable
<1>14. /\ \A x \in Range(partial_list'[p]) : node'[x] = p
       /\ \A x \in Range(partial_list'[p]) :
            free_block_count'[x] < Total[p] - 1 \/ (Busy(p)' \in {"free", "drop"} /\ x = Subject(p)')
  BY <1>1, <1>3, <1>4, <1>6, <1>11, Zenon DEF ContainerInv
<1>15. /\ Busy(p)' \in {"idle", "alloc"} => Members(p)' = Usable(p)'
       /\ Busy(p)' = "replace" =>
            /\ current'[p] \in SlabsOf(p)' /\ free_block_count'[current'[p]] = 0
            /\ Members(p)' = Usable(p)' \cup {current'[p]}
  BY <1>1, <1>2, <1>3, <1>6, <1>8, <1>9, <1>12, Zenon DEF ContainerInv
<1>16. Busy(p)' = "free" =>
         /\ Subject(p)' \in Usable(p)'
         /\ Members(p)' = IF free_block_count'[Subject(p)'] = 1
                          THEN Usable(p)' \ {Subject(p)'} ELSE Usable(p)'
  BY <1>1, <1>2, <1>3, <1>4, <1>6, <1>9, <1>13, Zenon DEF ContainerInv
<1>17. Busy(p)' = "drop" =>
         /\ Subject(p)' \in buddy'
         /\ Members(p)' = Usable(p)' \cup {Subject(p)'}
  BY <1>1, <1>2, <1>3, <1>4, <1>5, <1>9, Zenon DEF ContainerInv
<1> QED BY <1>1, <1>3, <1>14, <1>15, <1>16, <1>17, Zenon DEF ContainerInv

(***************************************************************************)
(* Locks, and what the callers hold                                        *)
(***************************************************************************)
\* unlock(&sc->lock) at the end of a call frees one container, no other.
LEMMA ReturnLocks ==
  ASSUME SlabInv, NEW c \in CPUs, NEW o, o = sc[c], pc[c] # "idle", Return(c)
  PROVE  /\ Locks' /\ sc_lock' \in [BlockOrders -> CPUs \cup {NULL}]
         /\ pc' \in [CPUs -> {"idle", "alloc", "replace", "free", "drop", "halt"}]
         /\ sc' \in [CPUs -> BlockOrders \cup {NULL}] /\ s' \in [CPUs -> Chunks \cup {NULL}]
         /\ o \in BlockOrders /\ Busy(o) = pc[c] /\ Subject(o) = s[c]
         /\ Busy(o)' = "idle"
         /\ \A p \in BlockOrders : p # o => Calm(p)
<1>1. TypeOK /\ Locks /\ c # NULL
  BY SlabAssumption, Zenon DEF SlabInv
<1>2. o \in BlockOrders /\ sc_lock[o] = c
  BY <1>1, Zenon DEF Locks
<1>3. /\ sc_lock' \in [BlockOrders -> CPUs \cup {NULL}]
      /\ pc' \in [CPUs -> {"idle", "alloc", "replace", "free", "drop", "halt"}]
      /\ sc' \in [CPUs -> BlockOrders \cup {NULL}] /\ s' \in [CPUs -> Chunks \cup {NULL}]
  BY <1>1, Zenon DEF Return, TypeOK
<1>4. \A p \in BlockOrders : p # o => sc_lock[p] # c
  BY <1>1, Zenon DEF Locks
<1>5. Locks'
  <2>1. ASSUME NEW d \in CPUs
        PROVE  IF pc'[d] = "idle" THEN sc'[d] = NULL
               ELSE sc'[d] \in BlockOrders /\ sc_lock'[sc'[d]] = d
    BY <1>1, <1>2, Zenon DEF Return, TypeOK, Locks
  <2>2. ASSUME NEW d \in CPUs, pc'[d] \in {"free", "drop"} PROVE s'[d] \in Chunks
    BY <2>2, <1>1, Zenon DEF Return, TypeOK, Locks
  <2>3. ASSUME NEW p \in BlockOrders, sc_lock'[p] # NULL
        PROVE  pc'[sc_lock'[p]] # "idle" /\ sc'[sc_lock'[p]] = p
    BY <2>3, <1>1, <1>2, <1>4 DEF Return, TypeOK, Locks
  <2> QED BY <2>1, <2>2, <2>3, Zenon DEF Locks
<1>6. \A p \in BlockOrders : p # o => Calm(p)
  BY <1>1, <1>4, Zenon DEF Calm, Return, TypeOK
<1>7. Busy(o) = pc[c] /\ Subject(o) = s[c]
  BY <1>1, <1>2, Zenon DEF Busy, Subject
<1>8. Busy(o)' = "idle"
  <2>1. sc_lock'[o] = NULL
    BY <1>1, <1>2, Zenon DEF Return, TypeOK
  <2> QED BY <2>1, <1>2, Zenon DEF Busy
<1> QED BY <1>2, <1>3, <1>5, <1>6, <1>7, <1>8, Zenon

\* A step inside a call keeps the lock of its container.
LEMMA GotoLocks ==
  ASSUME SlabInv, NEW c \in CPUs, NEW o, o = sc[c], NEW l \in {"alloc", "replace", "drop"},
         pc[c] # "idle", Goto(c, l), l = "drop" => s[c] \in Chunks
  PROVE  /\ Locks' /\ sc_lock' \in [BlockOrders -> CPUs \cup {NULL}]
         /\ pc' \in [CPUs -> {"idle", "alloc", "replace", "free", "drop", "halt"}]
         /\ sc' \in [CPUs -> BlockOrders \cup {NULL}] /\ s' \in [CPUs -> Chunks \cup {NULL}]
         /\ o \in BlockOrders /\ Busy(o) = pc[c] /\ Subject(o) = s[c]
         /\ Busy(o)' = l /\ Subject(o)' = s[c]
         /\ \A p \in BlockOrders : p # o => Calm(p)
<1>1. TypeOK /\ Locks /\ c # NULL
  BY SlabAssumption, Zenon DEF SlabInv
<1>2. o \in BlockOrders /\ sc_lock[o] = c
  BY <1>1, Zenon DEF Locks
<1>3. /\ sc_lock' \in [BlockOrders -> CPUs \cup {NULL}]
      /\ pc' \in [CPUs -> {"idle", "alloc", "replace", "free", "drop", "halt"}]
      /\ sc' \in [CPUs -> BlockOrders \cup {NULL}] /\ s' \in [CPUs -> Chunks \cup {NULL}]
  BY <1>1, Zenon DEF Goto, TypeOK
<1>4. \A p \in BlockOrders : p # o => sc_lock[p] # c
  BY <1>1, Zenon DEF Locks
<1>5. Locks'
  <2>1. ASSUME NEW d \in CPUs
        PROVE  IF pc'[d] = "idle" THEN sc'[d] = NULL
               ELSE sc'[d] \in BlockOrders /\ sc_lock'[sc'[d]] = d
    BY <1>1, <1>2, Zenon DEF Goto, TypeOK, Locks
  <2>2. ASSUME NEW d \in CPUs, pc'[d] \in {"free", "drop"} PROVE s'[d] \in Chunks
    BY <2>2, <1>1, Zenon DEF Goto, TypeOK, Locks
  <2>3. ASSUME NEW p \in BlockOrders, sc_lock'[p] # NULL
        PROVE  pc'[sc_lock'[p]] # "idle" /\ sc'[sc_lock'[p]] = p
    BY <2>3, <1>1, <1>2, <1>4 DEF Goto, TypeOK, Locks
  <2> QED BY <2>1, <2>2, <2>3, Zenon DEF Locks
<1>6. \A p \in BlockOrders : p # o => Calm(p)
  BY <1>1, <1>4, Zenon DEF Calm, Goto, TypeOK
<1>7. Busy(o) = pc[c] /\ Subject(o) = s[c]
  BY <1>1, <1>2, Zenon DEF Busy, Subject
<1>8. Busy(o)' = l /\ Subject(o)' = s[c]
  <2>1. sc_lock'[o] = c /\ sc' = sc /\ s' = s /\ pc'[c] = l
    BY <1>1, <1>2, Zenon DEF Goto, TypeOK
  <2> QED BY <2>1, <1>1, <1>2, Zenon DEF Busy, Subject
<1> QED BY <1>2, <1>3, <1>5, <1>6, <1>7, <1>8, Zenon

\* lock(&sc->lock) at the start of a call.
LEMMA EnterLocks ==
  ASSUME SlabInv, NEW c \in CPUs, NEW o \in BlockOrders, NEW l \in {"alloc", "free"},
         pc[c] = "idle", sc_lock[o] = NULL,
         sc_lock' = [sc_lock EXCEPT ![o] = c], pc' = [pc EXCEPT ![c] = l],
         sc' = [sc EXCEPT ![c] = o], s' \in [CPUs -> Chunks \cup {NULL}],
         \A d \in CPUs : d # c => s'[d] = s[d], l = "free" => s'[c] \in Chunks
  PROVE  /\ Locks' /\ sc_lock' \in [BlockOrders -> CPUs \cup {NULL}]
         /\ pc' \in [CPUs -> {"idle", "alloc", "replace", "free", "drop", "halt"}]
         /\ sc' \in [CPUs -> BlockOrders \cup {NULL}]
         /\ Busy(o) = "idle" /\ Busy(o)' = l /\ Subject(o)' = s'[c]
         /\ \A p \in BlockOrders : p # o => Calm(p)
<1>1. TypeOK /\ Locks /\ c # NULL
  BY SlabAssumption, Zenon DEF SlabInv
<1>2. /\ sc_lock' \in [BlockOrders -> CPUs \cup {NULL}]
      /\ pc' \in [CPUs -> {"idle", "alloc", "replace", "free", "drop", "halt"}]
      /\ sc' \in [CPUs -> BlockOrders \cup {NULL}]
  BY <1>1, Zenon DEF TypeOK
<1>3. \A p \in BlockOrders : sc_lock[p] # c
  BY <1>1, Zenon DEF Locks
<1>4. Locks'
  <2>1. ASSUME NEW d \in CPUs
        PROVE  IF pc'[d] = "idle" THEN sc'[d] = NULL
               ELSE sc'[d] \in BlockOrders /\ sc_lock'[sc'[d]] = d
    <3>1. CASE d = c
      BY <3>1, <1>1, Zenon DEF TypeOK
    <3>2. CASE d # c
      <4>1. pc'[d] = pc[d] /\ sc'[d] = sc[d] /\ (pc[d] # "idle" => sc[d] # o)
        BY <3>2, <1>1, SlabAssumption DEF TypeOK, Locks
      <4> QED BY <4>1, <3>2, <1>1, Zenon DEF TypeOK, Locks
    <3> QED BY <3>1, <3>2, Zenon
  <2>2. ASSUME NEW d \in CPUs, pc'[d] \in {"free", "drop"} PROVE s'[d] \in Chunks
    BY <2>2, <1>1 DEF TypeOK, Locks
  <2>3. ASSUME NEW p \in BlockOrders, sc_lock'[p] # NULL
        PROVE  pc'[sc_lock'[p]] # "idle" /\ sc'[sc_lock'[p]] = p
    BY <2>3, <1>1, <1>3 DEF TypeOK, Locks
  <2> QED BY <2>1, <2>2, <2>3, Zenon DEF Locks
<1>5. \A p \in BlockOrders : p # o => Calm(p)
  BY <1>1, <1>3, Zenon DEF Calm, TypeOK
<1>6. sc_lock'[o] = c /\ pc'[c] = l
  BY <1>1, Zenon DEF TypeOK
<1>7. Busy(o) = "idle" /\ Busy(o)' = l /\ Subject(o)' = s'[c]
  BY <1>1, <1>6, Zenon DEF Busy, Subject
<1> QED BY <1>2, <1>4, <1>5, <1>7, Zenon

\* The blocks of a chunk that a step does not touch stay accounted for.
LEMMA ChunkKeeps ==
  ASSUME NEW x, ChunkInv(x), page_slab'[x] = page_slab[x], order'[x] = order[x],
         free_blocks'[x] = free_blocks[x], free_block_count'[x] = free_block_count[x],
         HeldBlocks(x)' = HeldBlocks(x), page_slab[x] # NULL => x \notin buddy'
  PROVE  ChunkInv(x)'
BY Zenon DEF ChunkInv

\* An allocation more, of block i of chunk x.
LEMMA HoldOf ==
  ASSUME NEW x, NEW i, NEW o, held' = held \cup {<<x, i, o>>}
  PROVE  HeldBlocks(x)' = HeldBlocks(x) \cup {i} /\ \A y : y # x => HeldBlocks(y)' = HeldBlocks(y)
<1>1. PICK t : t = <<x, i, o>>
  BY Zenon
<1>2. t[1] = x /\ t[2] = i /\ held' = held \cup {t}
  BY <1>1, Zenon
<1>3. ASSUME NEW y, NEW j PROVE j \in HeldBlocks(y)' <=> j \in HeldBlocks(y) \/ (y = x /\ j = i)
  BY <1>2, Zenon DEF HeldBlocks
<1> QED BY <1>3, Zenon DEF HeldBlocks

\* A chunk in the buddy allocator is no slab, and no caller holds any of it.
LEMMA FreeChunk ==
  ASSUME SlabInv, NEW x \in buddy
  PROVE  x \in Chunks /\ page_slab[x] = NULL /\ HeldBlocks(x) = {} /\ \A a \in held : a[1] # x
<1>1. x \in Chunks /\ ChunkInv(x) /\ \A a \in held : a[1] \notin buddy
  BY Zenon DEF SlabInv, TypeOK, Owners, KfreeFindsOwner
<1>2. page_slab[x] = NULL
  BY <1>1, Zenon DEF ChunkInv
<1>3. HeldBlocks(x) = {}
  BY <1>1, Zenon DEF HeldBlocks
<1> QED BY <1>1, <1>2, <1>3, Zenon

\* The chain that alloc_slab_from_buddy threads through the blocks 1 .. n.
LEMMA Numbered ==
  ASSUME NEW n \in Nat, NEW q, q = [i \in 1 .. n |-> i]
  PROVE  q \in Seq(Nat \ {0}) /\ Len(q) = n /\ IsInjective(q) /\ Range(q) = 1 .. n
<1>1. q \in Seq(Nat \ {0})
  OBVIOUS
<1>2. Len(q) = n
  OBVIOUS
<1>3. IsInjective(q) /\ Range(q) = 1 .. n
  BY Zenon DEF IsInjective, Range
<1> QED BY <1>1, <1>2, <1>3, Zenon

\* alloc_slab_from_buddy adds one slab, all of whose blocks are free.
LEMMA NewSlab ==
  ASSUME SlabInv, NotTaken, NEW o \in BlockOrders, NEW x \in buddy, alloc_slab_from_buddy(o, x),
         UNCHANGED held
  PROVE  /\ current' \in [BlockOrders -> Chunks \cup {NULL}]
         /\ order' \in [Chunks -> BlockOrders \cup {NULL}]
         /\ free_blocks' \in [Chunks -> Seq(Nat \ {0})]
         /\ free_block_count' \in [Chunks -> Nat]
         /\ node' \in [Chunks -> BlockOrders \cup {NULL}]
         /\ page_slab' \in [Chunks -> Chunks \cup {NULL}]
         /\ buddy' \subseteq Chunks
         /\ Owners' /\ \A y \in Chunks : ChunkInv(y)'
         /\ Confined(o)
         /\ x \notin Usable(o) /\ Usable(o)' = Usable(o) \cup {x}
         /\ Busy(o) # "drop" => x \notin Members(o)
         /\ \A y \in Chunks : y # x => free_block_count'[y] = free_block_count[y]
<1>1. TypeOK /\ Owners /\ x \in Chunks /\ x # NULL /\ page_slab[x] = NULL /\ HeldBlocks(x) = {}
      /\ \A a \in held : a[1] # x
  BY FreeChunk, SlabAssumption, Zenon DEF SlabInv
<1>2. PICK n \in Nat : n = Total[o] - 1 /\ n > 0
  BY SlabAssumption
<1>3. PICK q : q = [i \in 1 .. n |-> i]
  BY Zenon
<1>4. q \in Seq(Nat \ {0}) /\ Len(q) = n /\ IsInjective(q) /\ Range(q) = 1 .. n
  BY <1>3, Numbered, Zenon
<1>5. /\ buddy' = buddy \ {x} /\ order' = [order EXCEPT ![x] = o]
      /\ free_block_count' = [free_block_count EXCEPT ![x] = n]
      /\ free_blocks' = [free_blocks EXCEPT ![x] = q]
      /\ current' = [current EXCEPT ![o] = x]
      /\ page_slab' = [page_slab EXCEPT ![x] = x] /\ node' = node
  BY <1>2, <1>3, Zenon DEF alloc_slab_from_buddy
<1>6. /\ current' \in [BlockOrders -> Chunks \cup {NULL}]
      /\ order' \in [Chunks -> BlockOrders \cup {NULL}]
      /\ free_block_count' \in [Chunks -> Nat]
      /\ node' \in [Chunks -> BlockOrders \cup {NULL}]
      /\ page_slab' \in [Chunks -> Chunks \cup {NULL}]
      /\ buddy' \subseteq Chunks
  BY <1>1, <1>5, Zenon DEF TypeOK
<1>7. free_blocks' \in [Chunks -> Seq(Nat \ {0})]
  BY <1>1, <1>4, <1>5, Zenon DEF TypeOK
<1>8. ASSUME NEW y \in Chunks, y # x
      PROVE  /\ order'[y] = order[y] /\ page_slab'[y] = page_slab[y] /\ node'[y] = node[y]
             /\ free_block_count'[y] = free_block_count[y] /\ free_blocks'[y] = free_blocks[y]
  BY <1>1, <1>5, <1>8, Zenon DEF TypeOK
<1>9. order'[x] = o /\ page_slab'[x] = x /\ free_block_count'[x] = n /\ free_blocks'[x] = q
  BY <1>1, <1>5, Zenon DEF TypeOK
<1>10. \A y : HeldBlocks(y)' = HeldBlocks(y)
  BY Zenon DEF HeldBlocks
<1>11. ASSUME NEW y \in Chunks PROVE ChunkInv(y)'
  <2>1. CASE y = x
    <3>1. HasSize({}, 0)
      BY SizeZero, Zenon
    <3>2. Total[o] - 1 - n = 0 /\ n = Total[o] - 1
      BY <1>2, SlabAssumption
    <3>3. HeldBlocks(x)' = {}
      BY <1>1, <1>10, Zenon
    <3> QED BY <2>1, <3>1, <3>2, <3>3, <1>1, <1>4, <1>5, <1>9, Zenon DEF ChunkInv
  <2>2. CASE y # x
    <3>1. ChunkInv(y) /\ (page_slab[y] # NULL => y \notin buddy')
      BY <1>5, Zenon DEF SlabInv, ChunkInv
    <3> QED BY <3>1, <2>2, <1>8, <1>10, ChunkKeeps, Zenon
  <2> QED BY <2>1, <2>2, Zenon
<1>12. Owners'
  BY <1>1, <1>5, <1>8 DEF Owners, KfreeFindsOwner, TypeOK
<1>13. Confined(o)
  BY <1>5, <1>8, <1>9, Zenon DEF Confined
<1>14. SlabsOf(o)' = SlabsOf(o) \cup {x}
  BY <1>1, <1>8, <1>9 DEF SlabsOf
<1>15. x \notin SlabsOf(o)
  BY <1>1, Zenon DEF SlabsOf
<1>16. \A y \in SlabsOf(o) : free_block_count'[y] = free_block_count[y]
  BY <1>8, <1>15, Zenon DEF SlabsOf
<1>17. Usable(o)' = Usable(o) \cup {x} /\ x \notin Usable(o)
  BY <1>2, <1>9, <1>14, <1>15, <1>16 DEF Usable
<1>18. Busy(o) # "drop" => x \notin Members(o)
  BY <1>15, MembersOf, Zenon
<1> QED BY <1>6, <1>7, <1>8, <1>11, <1>12, <1>13, <1>17, <1>18, Zenon

\* A slab of a container that no call works on is well placed: the invariant of
\* a container after Return.
LEMMA IdleContainer ==
  ASSUME NEW o, Busy(o)' = "idle", IsInjective(partial_list'[o]),
         current'[o] \notin Range(partial_list'[o]),
         \A y \in Range(partial_list'[o]) :
           node'[y] = o /\ free_block_count'[y] < Total[o] - 1,
         Members(o)' = Usable(o)'
  PROVE  ContainerInv(o)'
BY Zenon DEF ContainerInv

\* What stays true when no block, count or page->slab changes.
LEMMA BlocksSame ==
  ASSUME SlabInv, UNCHANGED <<order, free_blocks, free_block_count, page_slab, buddy, held>>
  PROVE  /\ Owners' /\ \A x \in Chunks : ChunkInv(x)'
         /\ \A o : Usable(o)' = Usable(o) /\ SlabsOf(o)' = SlabsOf(o)
         /\ node' = node => \A o : Confined(o)
<1>1. Owners'
  BY Zenon DEF SlabInv, Owners, KfreeFindsOwner
<1>2. ASSUME NEW x \in Chunks PROVE ChunkInv(x)'
  <2>1. HeldBlocks(x)' = HeldBlocks(x)
    BY Zenon DEF HeldBlocks
  <2>2. ChunkInv(x) /\ (page_slab[x] # NULL => x \notin buddy')
    BY Zenon DEF SlabInv, ChunkInv
  <2> QED BY <2>1, <2>2, ChunkKeeps, Zenon
<1>3. \A o : Usable(o)' = Usable(o) /\ SlabsOf(o)' = SlabsOf(o)
  BY Zenon DEF Usable, SlabsOf
<1>4. node' = node => \A o : Confined(o)
  BY Zenon DEF Confined
<1> QED BY <1>1, <1>2, <1>3, <1>4, Zenon

\* list_del takes a slab off the list it is on.
LEMMA UnlinkOf ==
  ASSUME SlabInv, NEW o \in BlockOrders, NEW x \in Range(partial_list[o]), Unlink(x)
  PROVE  /\ partial_list' \in [BlockOrders -> Seq(Chunks)]
         /\ IsInjective(partial_list'[o]) /\ Range(partial_list'[o]) = Range(partial_list[o]) \ {x}
         /\ \A p \in BlockOrders : p # o => partial_list'[p] = partial_list[p]
<1>1. TypeOK /\ ContainerInv(o)
  BY Zenon DEF SlabInv
<1>2. node[x] = o /\ IsInjective(partial_list[o]) /\ partial_list[o] \in Seq(Chunks)
  BY <1>1, Zenon DEF ContainerInv, TypeOK
<1>3. PICK q : q = list_del(partial_list[o], x)
  OBVIOUS
<1>4. q \in Seq(Chunks) /\ IsInjective(q) /\ Range(q) = Range(partial_list[o]) \ {x}
  BY <1>2, <1>3, RemoveOf, Zenon
<1>5. partial_list' = [i \in BlockOrders |-> IF i = o THEN q ELSE partial_list[i]]
  BY <1>2, <1>3, Zenon DEF Unlink
<1>6. partial_list'[o] = q /\ \A p \in BlockOrders : p # o => partial_list'[p] = partial_list[p]
  BY <1>5, Zenon
<1>7. partial_list' \in [BlockOrders -> Seq(Chunks)]
  BY <1>1, <1>4, <1>5, Zenon DEF TypeOK
<1> QED BY <1>4, <1>6, <1>7, Zenon

\* get_from_partial_list moves the first slab of the list to current.
LEMMA TakePartialOf ==
  ASSUME SlabInv, NEW o \in BlockOrders, partial_list[o] # <<>>, TakePartial(o)
  PROVE  /\ partial_list' \in [BlockOrders -> Seq(Chunks)]
         /\ current' \in [BlockOrders -> Chunks \cup {NULL}]
         /\ current'[o] \in Range(partial_list[o])
         /\ IsInjective(partial_list'[o])
         /\ Range(partial_list'[o]) = Range(partial_list[o]) \ {current'[o]}
         /\ \A p \in BlockOrders :
              p # o => partial_list'[p] = partial_list[p] /\ current'[p] = current[p]
<1>1. TypeOK /\ partial_list[o] \in Seq(Chunks) /\ IsInjective(partial_list[o])
  BY Zenon DEF SlabInv, ContainerInv, TypeOK
<1>2. PICK h : h = Head(partial_list[o])
  OBVIOUS
<1>3. h \in Chunks /\ h \in Range(partial_list[o])
  BY <1>1, <1>2, TailOf, Zenon
<1>4. current' = [current EXCEPT ![o] = h] /\ Unlink(h)
  BY <1>2, Zenon DEF TakePartial
<1>5. /\ current' \in [BlockOrders -> Chunks \cup {NULL}] /\ current'[o] = h
      /\ \A p \in BlockOrders : p # o => current'[p] = current[p]
  BY <1>1, <1>3, <1>4, Zenon DEF TypeOK
<1> QED BY <1>3, <1>4, <1>5, UnlinkOf, Zenon

\* The members of a container are its list and its current slab, both of chunks.
LEMMA MembersAre ==
  ASSUME TypeOK, NEW o \in BlockOrders
  PROVE  /\ Range(partial_list[o]) \subseteq Chunks /\ NULL \notin Range(partial_list[o])
         /\ Members(o) = Range(partial_list[o]) \cup ({current[o]} \ {NULL})
<1>1. Range(partial_list[o]) \subseteq Chunks
  BY DEF TypeOK, Range
<1> QED BY <1>1, SlabAssumption, Zenon DEF Members

(***************************************************************************)
(* One lemma per action                                                    *)
(***************************************************************************)
\* slab_alloc takes the lock of an idle container.
LEMMA SlabAllocKeeps ==
  ASSUME SlabInv, NotTaken, NEW c \in CPUs, NEW o \in BlockOrders, SlabAlloc(c, o)
  PROVE  SlabInv'
<1>1. TypeOK /\ pc[c] = "idle" /\ sc_lock[o] = NULL /\ s' = s /\ partial_list' = partial_list
      /\ current' = current /\ node' = node
      /\ UNCHANGED <<order, free_blocks, free_block_count, page_slab, buddy, held>>
      /\ sc_lock' = [sc_lock EXCEPT ![o] = c] /\ pc' = [pc EXCEPT ![c] = "alloc"]
      /\ sc' = [sc EXCEPT ![c] = o]
  BY Zenon DEF SlabInv, SlabAlloc, headerVars
<1>2. s' \in [CPUs -> Chunks \cup {NULL}]
  BY <1>1, Zenon DEF TypeOK
<1>3. /\ Locks' /\ sc_lock' \in [BlockOrders -> CPUs \cup {NULL}]
      /\ pc' \in [CPUs -> {"idle", "alloc", "replace", "free", "drop", "halt"}]
      /\ sc' \in [CPUs -> BlockOrders \cup {NULL}]
      /\ Busy(o) = "idle" /\ Busy(o)' = "alloc"
      /\ \A p \in BlockOrders : p # o => Calm(p)
  BY <1>1, <1>2, EnterLocks, Zenon
<1>4. TypeOK'
  BY <1>1, <1>2, <1>3, Zenon DEF TypeOK
<1>5. /\ Confined(o) /\ Owners' /\ \A x \in Chunks : ChunkInv(x)'
      /\ Usable(o)' = Usable(o)
  BY <1>1, BlocksSame, Zenon
<1>6. \A p \in BlockOrders : p # o => ContainerInv(p)'
  BY <1>1, <1>3, <1>5, OthersKeep, Zenon
<1>7. Members(o)' = Members(o)
  BY <1>1, Zenon DEF Members
<1>8. ContainerInv(o)
  BY Zenon DEF SlabInv
<1>9. ContainerInv(o)'
  BY <1>1, <1>3, <1>5, <1>7, <1>8, Zenon DEF ContainerInv
<1> QED BY <1>3, <1>4, <1>5, <1>6, <1>9, Zenon DEF SlabInv

\* A container without a current slab gets a new one.
LEMMA AllocRefillKeeps ==
  ASSUME SlabInv, NotTaken, NEW c \in CPUs, AllocRefill(c)
  PROVE  SlabInv'
<1>1. TypeOK /\ Locks /\ pc[c] = "alloc" /\ sc_lock' = sc_lock /\ partial_list' = partial_list
      /\ held' = held /\ pc' = pc /\ sc' = sc /\ s' = s
  BY Zenon DEF SlabInv, AllocRefill, callVars
<1>2. PICK o \in BlockOrders : o = sc[c] /\ sc_lock[o] = c /\ current[o] = NULL
  BY <1>1, Zenon DEF Locks, AllocRefill
<1>3. PICK x \in buddy : alloc_slab_from_buddy(o, x)
  BY <1>2, Zenon DEF AllocRefill
<1>4. Busy(o) = "alloc" /\ Busy(o)' = "alloc"
  BY <1>1, <1>2, SlabAssumption, Zenon DEF Busy
<1>5. \A p \in BlockOrders : Calm(p)
  BY <1>1, Zenon DEF Calm
<1>6. /\ current' \in [BlockOrders -> Chunks \cup {NULL}]
      /\ order' \in [Chunks -> BlockOrders \cup {NULL}]
      /\ free_blocks' \in [Chunks -> Seq(Nat \ {0})]
      /\ free_block_count' \in [Chunks -> Nat]
      /\ node' \in [Chunks -> BlockOrders \cup {NULL}]
      /\ page_slab' \in [Chunks -> Chunks \cup {NULL}]
      /\ buddy' \subseteq Chunks
      /\ Owners' /\ \A y \in Chunks : ChunkInv(y)'
      /\ Confined(o)
      /\ Usable(o)' = Usable(o) \cup {x}
      /\ x \notin Members(o)
      /\ \A y \in Chunks : y # x => free_block_count'[y] = free_block_count[y]
  BY <1>1, <1>3, <1>4, NewSlab, Zenon
<1>7. TypeOK'
  BY <1>1, <1>6, Zenon DEF TypeOK
<1>8. Locks'
  BY <1>1, Zenon DEF Locks
<1>9. current' = [current EXCEPT ![o] = x] /\ node' = node /\ x \in Chunks /\ x # NULL
  BY <1>1, <1>3, SlabAssumption, Zenon DEF alloc_slab_from_buddy, TypeOK
<1>10. current'[o] = x /\ \A p \in BlockOrders : p # o => current'[p] = current[p]
  BY <1>1, <1>9, Zenon DEF TypeOK
<1>11. \A p \in BlockOrders : p # o => ContainerInv(p)'
  BY <1>1, <1>5, <1>6, <1>10, OthersKeep, Zenon
<1>12. ContainerInv(o)'
  <2>1. ContainerInv(o) /\ Members(o) = Usable(o) /\ IsInjective(partial_list[o])
        /\ \A y \in Range(partial_list[o]) : node[y] = o /\ free_block_count[y] < Total[o] - 1
    BY <1>4, Zenon DEF SlabInv, ContainerInv
  <2>2. Range(partial_list[o]) \subseteq Chunks /\ Members(o) = Range(partial_list[o])
    BY <1>1, <1>2, MembersAre, Zenon
  <2>3. Members(o)' = Range(partial_list[o]) \cup {x}
    BY <1>1, <1>9, <1>10, <2>2, SlabAssumption, Zenon DEF Members
  <2>4. \A y \in Range(partial_list[o]) : node'[y] = o /\ free_block_count'[y] < Total[o] - 1
    BY <2>1, <2>2, <1>6, <1>9, Zenon
  <2>5. Members(o)' = Usable(o)' /\ current'[o] \notin Range(partial_list[o])
    BY <2>1, <2>2, <2>3, <1>6, <1>10, Zenon
  <2> QED BY <2>1, <2>4, <2>5, <1>1, <1>4, Zenon DEF ContainerInv
<1> QED BY <1>6, <1>7, <1>8, <1>11, <1>12, Zenon DEF SlabInv

\* Nothing to allocate from: the call returns NULL.
LEMMA AllocFailKeeps ==
  ASSUME SlabInv, NotTaken, NEW c \in CPUs, AllocFail(c)
  PROVE  SlabInv'
<1>1. TypeOK /\ pc[c] = "alloc" /\ Return(c) /\ partial_list' = partial_list
      /\ current' = current /\ node' = node
      /\ UNCHANGED <<order, free_blocks, free_block_count, page_slab, buddy, held>>
  BY Zenon DEF SlabInv, AllocFail, headerVars
<1>2. PICK o : o = sc[c]
  OBVIOUS
<1>3. /\ Locks' /\ sc_lock' \in [BlockOrders -> CPUs \cup {NULL}]
      /\ pc' \in [CPUs -> {"idle", "alloc", "replace", "free", "drop", "halt"}]
      /\ sc' \in [CPUs -> BlockOrders \cup {NULL}] /\ s' \in [CPUs -> Chunks \cup {NULL}]
      /\ o \in BlockOrders /\ Busy(o) = "alloc" /\ Busy(o)' = "idle"
      /\ \A p \in BlockOrders : p # o => Calm(p)
  BY <1>1, <1>2, ReturnLocks, Zenon
<1>4. TypeOK'
  BY <1>1, <1>3, Zenon DEF TypeOK
<1>5. /\ Confined(o) /\ Usable(o)' = Usable(o)
      /\ Owners' /\ \A x \in Chunks : ChunkInv(x)'
  BY <1>1, BlocksSame, Zenon
<1>6. \A p \in BlockOrders : p # o => ContainerInv(p)'
  BY <1>1, <1>3, <1>5, OthersKeep, Zenon
<1>7. Members(o)' = Members(o)
  BY <1>1, Zenon DEF Members
<1>8. ContainerInv(o)
  BY <1>3, Zenon DEF SlabInv
<1>9. ContainerInv(o)'
  BY <1>1, <1>3, <1>5, <1>7, <1>8, Zenon DEF ContainerInv
<1> QED BY <1>3, <1>4, <1>5, <1>6, <1>9, Zenon DEF SlabInv

\* slab_get_free_block finds a block, hands it out once, and no BUG_ON fires.
LEMMA AllocTakeKeeps ==
  ASSUME SlabInv, NotTaken, NEW c \in CPUs, AllocTake(c)
  PROVE  /\ SlabInv'
         /\ \E x \in Chunks, o \in BlockOrders, i \in Nat :
              /\ i \in 1 .. Total[o] - 1 /\ i \notin HeldBlocks(x)
              /\ page_slab[x] = x /\ order[x] = o
              /\ held' = held \cup {<<x, i, o>>}
<1>1. TypeOK /\ Locks /\ Owners /\ pc[c] = "alloc" /\ c # NULL
  BY SlabAssumption, Zenon DEF SlabInv, AllocTake
<1>2. PICK o \in BlockOrders : o = sc[c] /\ sc_lock[o] = c
  BY <1>1, Zenon DEF Locks
<1>3. PICK x : x = current[o] /\ x # NULL
  BY <1>2, Zenon DEF AllocTake
<1>4. Busy(o) = "alloc" /\ ContainerInv(o)
  BY <1>1, <1>2, Zenon DEF Busy, SlabInv
<1>5. x \in Usable(o)
  BY <1>3, <1>4, Zenon DEF ContainerInv, Members
<1>6. x \in Chunks /\ page_slab[x] = x /\ order[x] = o /\ free_block_count[x] > 0 /\ x \notin buddy
  BY <1>5, SlabsApart, Zenon DEF Usable
<1>7. PICK q : q = free_blocks[x]
  OBVIOUS
<1>8. PICK n \in Nat : n = free_block_count[x]
  BY <1>1, <1>6, Zenon DEF TypeOK
<1>9. ChunkInv(x) /\ q \in Seq(Nat \ {0}) /\ n = Len(q) /\ IsInjective(q)
      /\ Range(q) \cap HeldBlocks(x) = {} /\ Range(q) \cup HeldBlocks(x) = 1 .. Total[o] - 1
      /\ HasSize(HeldBlocks(x), Total[o] - 1 - n)
  BY <1>1, <1>3, <1>6, <1>7, <1>8, Zenon DEF SlabInv, ChunkInv, TypeOK
<1>10. q # <<>> /\ n > 0
  <2>1. n > 0
    BY <1>6, <1>8, Zenon
  <2>2. Len(q) = n
    BY <1>9, Zenon
  <2> QED BY <2>1, <2>2
<1>11. PICK i, r : i = Head(q) /\ r = Tail(q)
  BY Zenon
<1>12. /\ r \in Seq(Nat \ {0}) /\ Len(r) = n - 1 /\ IsInjective(r)
       /\ i \in Nat \ {0} /\ i \in Range(q) /\ Range(r) = Range(q) \ {i}
  BY <1>9, <1>10, <1>11, TailOf, Zenon
<1>13. n = 1 => r = <<>>
  BY <1>12
<1>14. /\ free_block_count' = [free_block_count EXCEPT ![x] = n - 1]
       /\ free_blocks' = [free_blocks EXCEPT ![x] = r]
       /\ held' = held \cup {<<x, i, o>>}
       /\ IF n = 1 THEN Goto(c, "replace") ELSE Return(c)
       /\ UNCHANGED <<current, partial_list, order, node, page_slab, buddy>>
  <2>1. x = current[sc[c]] /\ q = free_blocks[x] /\ n = free_block_count[x]
    BY <1>2, <1>3, <1>7, <1>8, Zenon
  <2>2. ~(n = 0 \/ q = <<>> \/ (n = 1 /\ Tail(q) # <<>>))
    BY <1>10, <1>11, <1>13
  <2> QED BY <2>1, <2>2, <1>2, <1>11, Zenon DEF AllocTake
<1>15. i \in 1 .. Total[o] - 1 /\ i \notin HeldBlocks(x)
  BY <1>9, <1>12, Zenon
<1>16. ASSUME NEW y \in Chunks, y # x
       PROVE  free_block_count'[y] = free_block_count[y] /\ free_blocks'[y] = free_blocks[y]
  BY <1>1, <1>6, <1>14, <1>16, Zenon DEF TypeOK
<1>17. free_block_count'[x] = n - 1 /\ free_blocks'[x] = r
  BY <1>1, <1>6, <1>14, Zenon DEF TypeOK
<1>18. /\ Locks' /\ sc_lock' \in [BlockOrders -> CPUs \cup {NULL}]
       /\ pc' \in [CPUs -> {"idle", "alloc", "replace", "free", "drop", "halt"}]
       /\ sc' \in [CPUs -> BlockOrders \cup {NULL}] /\ s' \in [CPUs -> Chunks \cup {NULL}]
       /\ Busy(o)' = IF n = 1 THEN "replace" ELSE "idle"
       /\ \A p \in BlockOrders : p # o => Calm(p)
  <2>1. CASE n = 1
    BY <2>1, <1>1, <1>2, <1>14, GotoLocks, Zenon
  <2>2. CASE n # 1
    BY <2>2, <1>1, <1>2, <1>14, ReturnLocks, Zenon
  <2> QED BY <2>1, <2>2, Zenon
<1>19. TypeOK'
  <2>1. free_block_count' \in [Chunks -> Nat]
    <3>1. n - 1 \in Nat
      BY <1>10
    <3> QED BY <3>1, <1>1, <1>14, Zenon DEF TypeOK
  <2>2. free_blocks' \in [Chunks -> Seq(Nat \ {0})]
    BY <1>1, <1>12, <1>14, Zenon DEF TypeOK
  <2>3. held' \subseteq Chunks \X Nat \X (BlockOrders \cup {0})
    <3>1. <<x, i, o>> \in Chunks \X Nat \X (BlockOrders \cup {0})
      BY <1>6, <1>12, Zenon
    <3> QED BY <3>1, <1>1, <1>14, Zenon DEF TypeOK
  <2> QED BY <1>1, <1>14, <1>18, <2>1, <2>2, <2>3, Zenon DEF TypeOK
<1>20. HeldBlocks(x)' = HeldBlocks(x) \cup {i} /\ \A y : y # x => HeldBlocks(y)' = HeldBlocks(y)
  BY <1>14, HoldOf, Zenon
<1>21. ASSUME NEW y \in Chunks PROVE ChunkInv(y)'
  <2>1. CASE y = x
    <3>1. PICK m \in Nat : m = Total[o] - 1 - n
      BY <1>9, <1>15, <1>12, SlabAssumption, SizeNat, Zenon
    <3>2. HasSize(HeldBlocks(x) \cup {i}, m + 1)
      BY <3>1, <1>9, <1>12, <1>15, SizeAdd, Zenon
    <3>3. m + 1 = Total[o] - 1 - (n - 1)
      BY <3>1, SlabAssumption
    <3>4. HasSize(HeldBlocks(x)', Total[o] - 1 - (n - 1))
      BY <3>2, <3>3, <1>20, Zenon
    <3>5. Range(r) \cap HeldBlocks(x)' = {} /\ Range(r) \cup HeldBlocks(x)' = 1 .. Total[o] - 1
      BY <1>9, <1>12, <1>20, Zenon
    <3> QED BY <2>1, <3>4, <3>5, <1>6, <1>12, <1>14, <1>17, <1>2, Zenon DEF ChunkInv
  <2>2. CASE y # x
    <3>1. ChunkInv(y) /\ (page_slab[y] # NULL => y \notin buddy')
      BY <1>14, Zenon DEF SlabInv, ChunkInv
    <3> QED BY <3>1, <2>2, <1>14, <1>16, <1>20, ChunkKeeps, Zenon
  <2> QED BY <2>1, <2>2, Zenon
<1>22. Owners'
  <2>1. ASSUME NEW a \in held'
        PROVE  /\ a[1] \notin buddy' /\ (a[2] = 0 => a[3] = 0)
               /\ IF a[2] = 0 THEN page_slab'[a[1]] = NULL
                  ELSE page_slab'[a[1]] = a[1] /\ order'[a[1]] = a[3]
    <3>1. CASE a \in held
      BY <3>1, <1>1, <1>14, Zenon DEF Owners, KfreeFindsOwner
    <3>2. CASE a = <<x, i, o>>
      BY <3>2, <1>6, <1>12, <1>14, Zenon
    <3> QED BY <3>1, <3>2, <1>14, Zenon
  <2> QED BY <2>1, Zenon DEF Owners, KfreeFindsOwner
<1>23. Confined(o)
  BY <1>5, <1>6, <1>14, <1>16, Zenon DEF Confined, Usable
<1>24. \A p \in BlockOrders : p # o => ContainerInv(p)'
  BY <1>14, <1>18, <1>23, OthersKeep, Zenon
<1>25. ContainerInv(o)'
  <2>1. /\ Members(o) = Usable(o) /\ IsInjective(partial_list[o]) /\ x \notin Range(partial_list[o])
        /\ \A y \in Range(partial_list[o]) : node[y] = o /\ free_block_count[y] < Total[o] - 1
    BY <1>3, <1>4, Zenon DEF ContainerInv
  <2>2. Range(partial_list[o]) \subseteq Chunks
    BY <1>1, MembersAre, Zenon
  <2>3. \A y \in Range(partial_list[o]) : node'[y] = o /\ free_block_count'[y] < Total[o] - 1
    BY <2>1, <2>2, <1>14, <1>16, Zenon
  <2>4. Members(o)' = Members(o)
    BY <1>14, Zenon DEF Members
  <2>5. SlabsOf(o)' = SlabsOf(o)
    BY <1>14, Zenon DEF SlabsOf
  <2>6. CASE n = 1
    <3>1. Usable(o)' = Usable(o) \ {x}
      <4>1. \A y \in SlabsOf(o) : y # x => free_block_count'[y] = free_block_count[y]
        BY <1>16, Zenon DEF SlabsOf
      <4>2. free_block_count'[x] = 0
        BY <2>6, <1>17
      <4> QED BY <4>1, <4>2, <2>5 DEF Usable
    <3>2. Members(o)' = Usable(o)' \cup {x}
      BY <2>1, <2>4, <3>1, <1>5, Zenon
    <3>3. Busy(o)' = "replace" /\ current'[o] = x /\ partial_list' = partial_list
      BY <2>6, <1>3, <1>14, <1>18, Zenon
    <3>4. x \in SlabsOf(o)' /\ free_block_count'[x] = 0
      BY <2>5, <2>6, <1>5, <1>17 DEF Usable
    <3> QED BY <2>1, <2>3, <3>2, <3>3, <3>4, Zenon DEF ContainerInv
  <2>7. CASE n # 1
    <3>1. n - 1 > 0
      BY <2>7, <1>10
    <3>2. Usable(o)' = Usable(o)
      BY <2>5, <3>1, <1>5, <1>16, <1>17, Zenon DEF Usable, SlabsOf
    <3> QED BY <2>1, <2>3, <2>4, <2>7, <3>2, <1>3, <1>14, <1>18, IdleContainer, Zenon
  <2> QED BY <2>6, <2>7, Zenon
<1>26. SlabInv'
  BY <1>18, <1>19, <1>21, <1>22, <1>24, <1>25, Zenon DEF SlabInv
<1> QED BY <1>6, <1>12, <1>14, <1>15, <1>26, Zenon

\* set_new_current_slab: an exhausted slab makes room for the next one.
LEMMA AllocReplaceKeeps ==
  ASSUME SlabInv, NotTaken, NEW c \in CPUs, AllocReplace(c)
  PROVE  SlabInv'
<1>1. TypeOK /\ pc[c] = "replace" /\ Return(c) /\ held' = held
  BY Zenon DEF SlabInv, AllocReplace
<1>2. PICK o : o = sc[c]
  OBVIOUS
<1>3. /\ Locks' /\ sc_lock' \in [BlockOrders -> CPUs \cup {NULL}]
      /\ pc' \in [CPUs -> {"idle", "alloc", "replace", "free", "drop", "halt"}]
      /\ sc' \in [CPUs -> BlockOrders \cup {NULL}] /\ s' \in [CPUs -> Chunks \cup {NULL}]
      /\ o \in BlockOrders /\ Busy(o) = "replace" /\ Busy(o)' = "idle"
      /\ \A p \in BlockOrders : p # o => Calm(p)
  BY <1>1, <1>2, ReturnLocks, Zenon
<1>4. PICK y : y = current[o]
  OBVIOUS
<1>5. /\ IsInjective(partial_list[o]) /\ y \notin Range(partial_list[o]) /\ y \in SlabsOf(o)
      /\ \A x \in Range(partial_list[o]) : node[x] = o /\ free_block_count[x] < Total[o] - 1
      /\ y \notin Usable(o) /\ Members(o) = Usable(o) \cup {y}
  <2>1. ContainerInv(o)
    BY <1>3, Zenon DEF SlabInv
  <2>2. /\ IsInjective(partial_list[o]) /\ y \notin Range(partial_list[o])
        /\ \A x \in Range(partial_list[o]) : node[x] = o
    BY <2>1, <1>4, Zenon DEF ContainerInv
  <2>3. Busy(o) = "replace" /\ Busy(o) \notin {"free", "drop"}
    BY <1>3, Zenon
  <2>4. \A x \in Range(partial_list[o]) : free_block_count[x] < Total[o] - 1
    BY <2>1, <2>3, Zenon DEF ContainerInv
  <2>5. y \in SlabsOf(o) /\ free_block_count[y] = 0 /\ Members(o) = Usable(o) \cup {y}
    BY <2>1, <2>3, <1>4, Zenon DEF ContainerInv
  <2>6. y \notin Usable(o)
    BY <2>5 DEF Usable
  <2> QED BY <2>2, <2>4, <2>5, <2>6, Zenon
<1>6. /\ Range(partial_list[o]) \subseteq Chunks /\ NULL \notin Range(partial_list[o])
      /\ Range(partial_list[o]) = Usable(o)
  <2>1. /\ Range(partial_list[o]) \subseteq Chunks /\ NULL \notin Range(partial_list[o])
        /\ Members(o) = Range(partial_list[o]) \cup ({y} \ {NULL})
    BY <1>1, <1>3, <1>4, MembersAre, Zenon
  <2>2. y # NULL
    BY <1>5, Zenon DEF Members
  <2> QED BY <2>1, <2>2, <1>5
<1>7. CASE /\ partial_list[o] # <<>> /\ TakePartial(o)
           /\ UNCHANGED <<headerVars, page_slab, buddy>>
  <2>1. /\ partial_list' \in [BlockOrders -> Seq(Chunks)]
        /\ current' \in [BlockOrders -> Chunks \cup {NULL}]
        /\ current'[o] \in Range(partial_list[o])
        /\ IsInjective(partial_list'[o])
        /\ Range(partial_list'[o]) = Range(partial_list[o]) \ {current'[o]}
        /\ \A p \in BlockOrders :
             p # o => partial_list'[p] = partial_list[p] /\ current'[p] = current[p]
    BY <1>3, <1>7, TakePartialOf, Zenon
  <2>2. UNCHANGED <<order, free_blocks, free_block_count, page_slab, buddy, held>> /\ node' = node
    BY <1>1, <1>7, Zenon DEF headerVars
  <2>3. /\ Confined(o) /\ Usable(o)' = Usable(o)
        /\ Owners' /\ \A x \in Chunks : ChunkInv(x)'
    BY <2>2, BlocksSame, Zenon
  <2>4. TypeOK'
    BY <1>1, <1>3, <2>1, <2>2, Zenon DEF TypeOK
  <2>5. \A p \in BlockOrders : p # o => ContainerInv(p)'
    BY <1>3, <2>1, <2>3, OthersKeep, Zenon
  <2>6. Members(o)' = Range(partial_list[o])
    BY <1>6, <2>1, Zenon DEF Members
  <2>7. \A x \in Range(partial_list'[o]) : node'[x] = o /\ free_block_count'[x] < Total[o] - 1
    BY <1>5, <2>1, <2>2, Zenon
  <2>8. ContainerInv(o)'
    BY <1>3, <1>6, <2>1, <2>3, <2>6, <2>7, IdleContainer, Zenon
  <2> QED BY <1>3, <2>3, <2>4, <2>5, <2>8, Zenon DEF SlabInv
<1>8. CASE /\ partial_list[o] = <<>> /\ partial_list' = partial_list
           /\ \E x \in buddy : alloc_slab_from_buddy(o, x)
  <2>1. PICK x \in buddy : alloc_slab_from_buddy(o, x)
    BY <1>8, Zenon
  <2>2. /\ current' \in [BlockOrders -> Chunks \cup {NULL}]
        /\ order' \in [Chunks -> BlockOrders \cup {NULL}]
        /\ free_blocks' \in [Chunks -> Seq(Nat \ {0})]
        /\ free_block_count' \in [Chunks -> Nat]
        /\ node' \in [Chunks -> BlockOrders \cup {NULL}]
        /\ page_slab' \in [Chunks -> Chunks \cup {NULL}]
        /\ buddy' \subseteq Chunks
        /\ Owners' /\ \A z \in Chunks : ChunkInv(z)'
        /\ Confined(o)
        /\ Usable(o)' = Usable(o) \cup {x}
    BY <1>1, <1>3, <2>1, NewSlab, Zenon
  <2>3. TypeOK'
    BY <1>1, <1>3, <1>8, <2>2, Zenon DEF TypeOK
  <2>4. current' = [current EXCEPT ![o] = x] /\ x # NULL
    BY <1>1, <2>1, SlabAssumption, Zenon DEF alloc_slab_from_buddy, TypeOK
  <2>5. current'[o] = x /\ \A p \in BlockOrders : p # o => current'[p] = current[p]
    BY <1>1, <1>3, <2>4, Zenon DEF TypeOK
  <2>6. \A p \in BlockOrders : p # o => ContainerInv(p)'
    BY <1>3, <1>8, <2>2, <2>5, OthersKeep, Zenon
  <2>7. Range(partial_list'[o]) = {}
    BY <1>8 DEF Range
  <2>8. Members(o)' = Usable(o)'
    BY <1>6, <1>8, <2>2, <2>4, <2>5, <2>7, Zenon DEF Members
  <2>9. ContainerInv(o)'
    BY <1>3, <1>5, <1>8, <2>7, <2>8, IdleContainer, Zenon
  <2> QED BY <1>3, <2>2, <2>3, <2>6, <2>9, Zenon DEF SlabInv
<1>9. CASE /\ partial_list[o] = <<>> /\ current' = [current EXCEPT ![o] = NULL]
           /\ UNCHANGED <<partial_list, headerVars, page_slab, buddy>>
  <2>1. UNCHANGED <<order, free_blocks, free_block_count, page_slab, buddy, held>> /\ node' = node
        /\ partial_list' = partial_list
    BY <1>1, <1>9, Zenon DEF headerVars
  <2>2. /\ Confined(o) /\ Usable(o)' = Usable(o)
        /\ Owners' /\ \A x \in Chunks : ChunkInv(x)'
    BY <2>1, BlocksSame, Zenon
  <2>3. current' \in [BlockOrders -> Chunks \cup {NULL}] /\ current'[o] = NULL
        /\ \A p \in BlockOrders : p # o => current'[p] = current[p]
    BY <1>1, <1>3, <1>9, Zenon DEF TypeOK
  <2>4. TypeOK'
    BY <1>1, <1>3, <2>1, <2>3, Zenon DEF TypeOK
  <2>5. \A p \in BlockOrders : p # o => ContainerInv(p)'
    BY <1>3, <2>1, <2>2, <2>3, OthersKeep, Zenon
  <2>6. Range(partial_list'[o]) = {}
    BY <1>9, <2>1 DEF Range
  <2>7. Members(o)' = Usable(o)'
    BY <1>6, <2>1, <2>2, <2>3, <2>6, Zenon DEF Members
  <2>8. ContainerInv(o)'
    BY <1>3, <1>5, <2>1, <2>6, <2>7, IdleContainer, Zenon
  <2> QED BY <1>3, <2>2, <2>4, <2>5, <2>8, Zenon DEF SlabInv
<1> QED BY <1>2, <1>7, <1>8, <1>9, Zenon DEF AllocReplace

\* A block comes back: the slab has one more, under the lock of its container.
LEMMA SlabFreeKeeps ==
  ASSUME SlabInv, NotTaken, NEW c \in CPUs, NEW a \in held, KFree(c, a), page_slab[a[1]] # NULL
  PROVE  SlabInv'
<1>1. TypeOK /\ Locks /\ Owners /\ pc[c] = "idle" /\ held' = held \ {a} /\ page_slab' = page_slab
      /\ slab_free(c, a)
  BY Zenon DEF SlabInv, KFree
<1>2. PICK x, i, o : x = a[1] /\ i = a[2] /\ o = a[3]
  OBVIOUS
<1>3. x \in Chunks /\ i \in Nat /\ i # 0 /\ page_slab[x] = x /\ order[x] = o
  BY <1>1, <1>2, Zenon DEF TypeOK, Owners, KfreeFindsOwner
<1>4. ChunkInv(x) /\ x # NULL
  BY <1>3, SlabAssumption, Zenon DEF SlabInv
<1>5. o \in BlockOrders /\ x \notin buddy /\ x \in SlabsOf(o)
  BY <1>3, <1>4, Zenon DEF ChunkInv, SlabsOf
<1>6. PICK q, n : q = free_blocks[x] /\ n = free_block_count[x]
  OBVIOUS
<1>7. q \in Seq(Nat \ {0}) /\ n \in Nat /\ n = Len(q) /\ IsInjective(q)
      /\ Range(q) \cap HeldBlocks(x) = {} /\ Range(q) \cup HeldBlocks(x) = 1 .. Total[o] - 1
      /\ HasSize(HeldBlocks(x), Total[o] - 1 - n)
  BY <1>1, <1>3, <1>4, <1>6, Zenon DEF ChunkInv, TypeOK
<1>8. i \in HeldBlocks(x)
  BY <1>2, Zenon DEF HeldBlocks
<1>9. PICK r : r = <<i>> \o q
  BY Zenon
<1>10. r \in Seq(Nat \ {0}) /\ Len(r) = n + 1 /\ IsInjective(r) /\ Range(r) = Range(q) \cup {i}
  <2>1. i \in Nat \ {0} /\ i \notin Range(q)
    BY <1>3, <1>7, <1>8, Zenon
  <2>2. q \in Seq(Nat \ {0}) /\ n = Len(q) /\ IsInjective(q)
    BY <1>7, Zenon
  <2> QED BY <2>1, <2>2, <1>9, ConsOf
<1>11. /\ sc_lock[o] = NULL /\ sc_lock' = [sc_lock EXCEPT ![o] = c]
       /\ pc' = [pc EXCEPT ![c] = "free"] /\ sc' = [sc EXCEPT ![c] = o] /\ s' = [s EXCEPT ![c] = x]
       /\ free_blocks' = [free_blocks EXCEPT ![x] = r]
       /\ free_block_count' = [free_block_count EXCEPT ![x] = n + 1]
       /\ UNCHANGED <<current, partial_list, order, node, buddy>>
  BY <1>1, <1>2, <1>3, <1>6, <1>9, Zenon DEF slab_free, slab_get_header, slab_put_block
<1>12. s' \in [CPUs -> Chunks \cup {NULL}] /\ s'[c] = x /\ \A d \in CPUs : d # c => s'[d] = s[d]
  BY <1>1, <1>3, <1>11, Zenon DEF TypeOK
<1>13. /\ Locks' /\ sc_lock' \in [BlockOrders -> CPUs \cup {NULL}]
       /\ pc' \in [CPUs -> {"idle", "alloc", "replace", "free", "drop", "halt"}]
       /\ sc' \in [CPUs -> BlockOrders \cup {NULL}]
       /\ Busy(o) = "idle" /\ Busy(o)' = "free" /\ Subject(o)' = x
       /\ \A p \in BlockOrders : p # o => Calm(p)
  <2>1. PICK l : l = "free"
    OBVIOUS
  <2>2. l \in {"alloc", "free"} /\ pc' = [pc EXCEPT ![c] = l] /\ (l = "free" => s'[c] \in Chunks)
    BY <2>1, <1>3, <1>11, <1>12, Zenon
  <2> QED BY <2>1, <2>2, <1>1, <1>5, <1>11, <1>12, EnterLocks, Zenon
<1>14. TypeOK'
  <2>1. free_block_count' \in [Chunks -> Nat]
    <3>1. n + 1 \in Nat
      <4>1. n \in Nat
        BY <1>7, Zenon
      <4> QED BY <4>1
    <3> QED BY <3>1, <1>1, <1>11, Zenon DEF TypeOK
  <2>2. free_blocks' \in [Chunks -> Seq(Nat \ {0})]
    BY <1>1, <1>10, <1>11, Zenon DEF TypeOK
  <2>3. held' \subseteq Chunks \X Nat \X (BlockOrders \cup {0})
    BY <1>1, Zenon DEF TypeOK
  <2> QED BY <1>1, <1>11, <1>12, <1>13, <2>1, <2>2, <2>3, Zenon DEF TypeOK
<1>15. ASSUME NEW y \in Chunks, y # x
       PROVE  free_block_count'[y] = free_block_count[y] /\ free_blocks'[y] = free_blocks[y]
  BY <1>1, <1>3, <1>11, <1>15, Zenon DEF TypeOK
<1>16. free_block_count'[x] = n + 1 /\ free_blocks'[x] = r
  BY <1>1, <1>3, <1>11, Zenon DEF TypeOK
<1>17. HeldBlocks(x)' = HeldBlocks(x) \ {i} /\ \A y : y # x => HeldBlocks(y)' = HeldBlocks(y)
  <2>1. ASSUME NEW b \in held, b[1] = x, b[2] = i PROVE b = a
    <3>1. b[3] = o
      BY <2>1, <1>1, <1>3, Zenon DEF Owners, KfreeFindsOwner
    <3>2. held \subseteq Chunks \X Nat \X (BlockOrders \cup {0})
      BY <1>1, Zenon DEF TypeOK
    <3>3. b = <<b[1], b[2], b[3]>> /\ a = <<a[1], a[2], a[3]>>
      BY <3>2
    <3> QED BY <2>1, <3>1, <3>3, <1>2, Zenon
  <2>2. ASSUME NEW y, NEW j PROVE j \in HeldBlocks(y)' <=> j \in HeldBlocks(y) /\ ~(y = x /\ j = i)
    BY <2>1, <1>1, <1>2, Zenon DEF HeldBlocks
  <2> QED BY <2>2, Zenon DEF HeldBlocks
<1>18. ASSUME NEW y \in Chunks PROVE ChunkInv(y)'
  <2>1. CASE y = x
    <3>1. PICK m \in Nat : m = Total[o] - 1 - n
      BY <1>7, SizeNat, Zenon
    <3>2. HasSize(HeldBlocks(x) \ {i}, m - 1)
      BY <3>1, <1>7, <1>8, SizeRemove, Zenon
    <3>3. m - 1 = Total[o] - 1 - (n + 1)
      <4>1. n \in Nat /\ Total[o] \in Nat
        BY <1>5, <1>7, SlabAssumption, Zenon
      <4> QED BY <3>1, <4>1
    <3>4. HasSize(HeldBlocks(x)', Total[o] - 1 - (n + 1))
      BY <3>2, <3>3, <1>17, Zenon
    <3>5. Range(r) \cap HeldBlocks(x)' = {} /\ Range(r) \cup HeldBlocks(x)' = 1 .. Total[o] - 1
      BY <1>7, <1>8, <1>10, <1>17, Zenon
    <3> QED BY <2>1, <3>4, <3>5, <1>1, <1>3, <1>5, <1>10, <1>11, <1>16, Zenon DEF ChunkInv
  <2>2. CASE y # x
    <3>1. ChunkInv(y) /\ (page_slab[y] # NULL => y \notin buddy')
      BY <1>11, Zenon DEF SlabInv, ChunkInv
    <3> QED BY <3>1, <2>2, <1>1, <1>11, <1>15, <1>17, ChunkKeeps, Zenon
  <2> QED BY <2>1, <2>2, Zenon
<1>19. Owners'
  BY <1>1, <1>11, Zenon DEF Owners, KfreeFindsOwner
<1>20. Confined(o)
  BY <1>1, <1>3, <1>5, <1>11, <1>15, Zenon DEF Confined
<1>21. \A p \in BlockOrders : p # o => ContainerInv(p)'
  BY <1>11, <1>13, <1>20, OthersKeep, Zenon
<1>22. ContainerInv(o)'
  <2>1. /\ Members(o) = Usable(o) /\ IsInjective(partial_list[o])
        /\ current[o] \notin Range(partial_list[o])
        /\ \A y \in Range(partial_list[o]) : node[y] = o /\ free_block_count[y] < Total[o] - 1
    BY <1>5, <1>13, Zenon DEF SlabInv, ContainerInv
  <2>2. Range(partial_list[o]) \subseteq Chunks
    BY <1>1, <1>5, MembersAre, Zenon
  <2>3. \A y \in Range(partial_list[o]) : node'[y] = o /\ (free_block_count'[y] < Total[o] - 1 \/ y = x)
    BY <2>1, <2>2, <1>11, <1>15, Zenon
  <2>4. Members(o)' = Members(o)
    BY <1>11, Zenon DEF Members
  <2>5. SlabsOf(o)' = SlabsOf(o)
    BY <1>1, <1>11, Zenon DEF SlabsOf
  <2>6. Usable(o)' = Usable(o) \cup {x} /\ (x \in Usable(o) <=> n # 0)
    <3>1. free_block_count'[x] > 0 /\ (free_block_count[x] > 0 <=> n # 0)
      BY <1>6, <1>7, <1>16
    <3>2. \A y \in SlabsOf(o) : y # x => free_block_count'[y] = free_block_count[y]
      BY <1>15, Zenon DEF SlabsOf
    <3> QED BY <2>5, <3>1, <3>2, <1>5, Zenon DEF Usable
  <2>7. Members(o)' = IF free_block_count'[x] = 1 THEN Usable(o)' \ {x} ELSE Usable(o)'
    <3>1. free_block_count'[x] = 1 <=> n = 0
      <4>1. n \in Nat
        BY <1>7, Zenon
      <4> QED BY <4>1, <1>16
    <3> QED BY <2>1, <2>4, <2>6, <3>1, Zenon
  <2> QED BY <2>1, <2>3, <2>6, <2>7, <1>11, <1>13, Zenon DEF ContainerInv
<1> QED BY <1>13, <1>14, <1>18, <1>19, <1>21, <1>22, Zenon DEF SlabInv

\* A whole chunk goes back to the buddy allocator, and none of it was a slab.
LEMMA FreePagesKeeps ==
  ASSUME SlabInv, NotTaken, NEW c \in CPUs, NEW a \in held, KFree(c, a), page_slab[a[1]] = NULL
  PROVE  SlabInv'
<1>1. /\ TypeOK /\ Locks /\ Owners /\ held' = held \ {a} /\ buddy' = buddy \cup {a[1]}
      /\ UNCHANGED <<containerVars, headerVars, callVars>> /\ page_slab' = page_slab
  BY Zenon DEF SlabInv, KFree, free_pages
<1>2. /\ current' = current /\ partial_list' = partial_list /\ sc_lock' = sc_lock
      /\ order' = order /\ free_blocks' = free_blocks /\ free_block_count' = free_block_count
      /\ node' = node /\ pc' = pc /\ sc' = sc /\ s' = s
  BY <1>1, Zenon DEF containerVars, headerVars, callVars
<1>3. PICK x : x = a[1]
  OBVIOUS
<1>4. x \in Chunks
  BY <1>1, <1>3, Zenon DEF TypeOK
<1>5. a[2] = 0 /\ a[3] = 0
  <2>1. a[1] # NULL
    BY <1>3, <1>4, SlabAssumption, Zenon
  <2> QED BY <2>1, <1>1, Zenon DEF Owners, KfreeFindsOwner
<1>6. ASSUME NEW b \in held', b[1] = x PROVE FALSE
  <2>1. b \in held /\ b # a
    BY <1>1, Zenon
  <2>2. b[2] = 0 /\ b[3] = 0
    <3>1. b[1] # NULL /\ page_slab[b[1]] = NULL
      BY <1>3, <1>4, <1>6, SlabAssumption, Zenon
    <3> QED BY <2>1, <3>1, <1>1, Zenon DEF Owners, KfreeFindsOwner
  <2>3. b = <<b[1], b[2], b[3]>> /\ a = <<a[1], a[2], a[3]>>
    BY <2>1, <1>1 DEF TypeOK
  <2> QED BY <2>1, <2>2, <2>3, <1>3, <1>5, <1>6, Zenon
<1>7. Owners'
  BY <1>1, <1>2, <1>3, <1>6, Zenon DEF Owners, KfreeFindsOwner
<1>8. TypeOK'
  BY <1>1, <1>2, <1>3, <1>4, Zenon DEF TypeOK
<1>9. Locks'
  BY <1>1, <1>2, Zenon DEF Locks
<1>10. ASSUME NEW y \in Chunks PROVE ChunkInv(y)'
  <2>1. CASE y = x
    BY <2>1, <1>1, <1>3, Zenon DEF ChunkInv
  <2>2. CASE y # x
    <3>1. HeldBlocks(y)' = HeldBlocks(y)
      BY <2>2, <1>1, <1>3, Zenon DEF HeldBlocks
    <3>2. ChunkInv(y) /\ (page_slab[y] # NULL => y \notin buddy')
      BY <2>2, <1>1, <1>3, Zenon DEF SlabInv, ChunkInv
    <3> QED BY <3>1, <3>2, <1>1, <1>2, ChunkKeeps, Zenon
  <2> QED BY <2>1, <2>2, Zenon
<1>11. Confined(0) /\ \A p \in BlockOrders : p # 0 /\ Calm(p)
  BY <1>1, <1>2, SlabAssumption, Zenon DEF Confined, Calm
<1>12. \A p \in BlockOrders : ContainerInv(p)'
  BY <1>2, <1>11, OthersKeep, Zenon
<1> QED BY <1>7, <1>8, <1>9, <1>10, <1>12, Zenon DEF SlabInv

\* get_pages takes a chunk that no container knows.
LEMMA GetPagesKeeps ==
  ASSUME SlabInv, NotTaken, NEW c \in CPUs, GetPages(c)
  PROVE  /\ SlabInv'
         /\ \E x \in buddy : held' = held \cup {<<x, 0, 0>>}
<1>1. PICK x \in buddy :
        /\ buddy' = buddy \ {x} /\ held' = held \cup {<<x, 0, 0>>}
        /\ free_block_count' = [free_block_count EXCEPT ![x] = 0]
        /\ free_blocks' = [free_blocks EXCEPT ![x] = <<>>]
        /\ node' = [node EXCEPT ![x] = NULL] /\ order' = [order EXCEPT ![x] = NULL]
  BY Zenon DEF GetPages
<1>2. /\ TypeOK /\ Locks /\ Owners /\ page_slab' = page_slab
      /\ current' = current /\ partial_list' = partial_list /\ sc_lock' = sc_lock
      /\ pc' = pc /\ sc' = sc /\ s' = s
  BY Zenon DEF SlabInv, GetPages, containerVars, callVars
<1>3. x \in Chunks /\ page_slab[x] = NULL /\ HeldBlocks(x) = {} /\ \A a \in held : a[1] # x
  BY FreeChunk, Zenon
<1>4. ASSUME NEW y \in Chunks, y # x
      PROVE  /\ order'[y] = order[y] /\ node'[y] = node[y]
             /\ free_block_count'[y] = free_block_count[y] /\ free_blocks'[y] = free_blocks[y]
  BY <1>1, <1>2, <1>3, <1>4, Zenon DEF TypeOK
<1>5. TypeOK'
  <2>1. free_blocks' \in [Chunks -> Seq(Nat \ {0})]
    BY <1>1, <1>2 DEF TypeOK
  <2>2. /\ order' \in [Chunks -> BlockOrders \cup {NULL}] /\ free_block_count' \in [Chunks -> Nat]
        /\ node' \in [Chunks -> BlockOrders \cup {NULL}] /\ buddy' \subseteq Chunks
    BY <1>1, <1>2, Zenon DEF TypeOK
  <2>3. held' \subseteq Chunks \X Nat \X (BlockOrders \cup {0})
    <3>1. <<x, 0, 0>> \in Chunks \X Nat \X (BlockOrders \cup {0})
      BY <1>3, Zenon
    <3> QED BY <3>1, <1>1, <1>2, Zenon DEF TypeOK
  <2> QED BY <1>2, <2>1, <2>2, <2>3, Zenon DEF TypeOK
<1>6. Locks'
  BY <1>2, Zenon DEF Locks
<1>7. Owners'
  <2>1. ASSUME NEW a \in held'
        PROVE  /\ a[1] \notin buddy' /\ (a[2] = 0 => a[3] = 0)
               /\ IF a[2] = 0 THEN page_slab'[a[1]] = NULL
                  ELSE page_slab'[a[1]] = a[1] /\ order'[a[1]] = a[3]
    <3>1. CASE a \in held
      <4>1. a[1] \in Chunks /\ a[1] # x
        BY <3>1, <1>2, <1>3, Zenon DEF TypeOK
      <4> QED BY <3>1, <4>1, <1>1, <1>2, <1>4, Zenon DEF Owners, KfreeFindsOwner
    <3>2. CASE a = <<x, 0, 0>>
      BY <3>2, <1>1, <1>2, <1>3, Zenon
    <3> QED BY <3>1, <3>2, <1>1, Zenon
  <2> QED BY <2>1, Zenon DEF Owners, KfreeFindsOwner
<1>8. ASSUME NEW y \in Chunks PROVE ChunkInv(y)'
  <2>1. CASE y = x
    BY <2>1, <1>2, <1>3, Zenon DEF ChunkInv
  <2>2. CASE y # x
    <3>1. HeldBlocks(y)' = HeldBlocks(y)
      BY <2>2, <1>1, HoldOf, Zenon
    <3>2. ChunkInv(y) /\ (page_slab[y] # NULL => y \notin buddy')
      BY <1>1, Zenon DEF SlabInv, ChunkInv
    <3> QED BY <2>2, <3>1, <3>2, <1>2, <1>4, ChunkKeeps, Zenon
  <2> QED BY <2>1, <2>2, Zenon
<1>9. Confined(0)
  <2>1. x # NULL
    BY <1>3, SlabAssumption, Zenon
  <2> QED BY <2>1, <1>1, <1>2, <1>3, <1>4, Zenon DEF Confined
<1>10. \A p \in BlockOrders : p # 0 /\ Calm(p)
  BY <1>2, SlabAssumption, Zenon DEF Calm
<1>11. \A p \in BlockOrders : ContainerInv(p)'
  BY <1>2, <1>9, <1>10, OthersKeep, Zenon
<1> QED BY <1>1, <1>5, <1>6, <1>7, <1>8, <1>11, Zenon DEF SlabInv

\* After a block has come back, its slab joins the partial list, stays where it
\* is, or goes back to the buddy allocator; no BUG_ON fires.
LEMMA FreePlaceKeeps ==
  ASSUME SlabInv, NotTaken, NEW c \in CPUs, FreePlace(c)
  PROVE  SlabInv' /\ held' = held
<1>1. TypeOK /\ Locks /\ Owners /\ pc[c] = "free" /\ c # NULL
  BY SlabAssumption, Zenon DEF SlabInv, FreePlace
<1>2. PICK o \in BlockOrders : o = sc[c] /\ sc_lock[o] = c
  BY <1>1, Zenon DEF Locks
<1>3. PICK x : x = s[c]
  OBVIOUS
<1>4. Busy(o) = "free" /\ Subject(o) = x /\ ContainerInv(o)
  BY <1>1, <1>2, <1>3, Zenon DEF Busy, Subject, SlabInv
<1>5. /\ IsInjective(partial_list[o]) /\ current[o] \notin Range(partial_list[o]) /\ x \in Usable(o)
      /\ \A y \in Range(partial_list[o]) : node[y] = o
      /\ \A y \in Range(partial_list[o]) : free_block_count[y] < Total[o] - 1 \/ y = x
      /\ Members(o) = IF free_block_count[x] = 1 THEN Usable(o) \ {x} ELSE Usable(o)
  BY <1>4, Zenon DEF ContainerInv
<1>6. x \in Chunks /\ x # NULL /\ page_slab[x] = x /\ order[x] = o /\ x \notin buddy /\ x \in SlabsOf(o)
  BY <1>5, SlabsApart, SlabAssumption DEF Usable
<1>7. /\ Range(partial_list[o]) \subseteq Chunks /\ NULL \notin Range(partial_list[o])
      /\ Members(o) = Range(partial_list[o]) \cup ({current[o]} \ {NULL})
  BY <1>1, MembersAre, Zenon
<1>8. PICK n : n = free_block_count[x]
  OBVIOUS
<1>9. n \in Nat /\ n = Len(free_blocks[x]) /\ ChunkInv(x) /\ Total[o] \in Nat /\ Total[o] >= 3
  BY <1>1, <1>6, <1>8, SlabAssumption, Zenon DEF SlabInv, ChunkInv, TypeOK
<1>10. CASE n = 1
  <2>1. current[o] # x /\ x \notin Range(partial_list[o])
    BY <1>5, <1>6, <1>7, <1>8, <1>10, Zenon
  <2>2. /\ partial_list' = [partial_list EXCEPT ![o] = Append(@, x)]
        /\ node' = [node EXCEPT ![x] = o] /\ Return(c) /\ current' = current
        /\ UNCHANGED <<order, free_blocks, free_block_count, page_slab, buddy, held>>
    BY <2>1, <1>2, <1>3, <1>8, <1>10, Zenon DEF FreePlace
  <2>3. /\ Locks' /\ sc_lock' \in [BlockOrders -> CPUs \cup {NULL}]
        /\ pc' \in [CPUs -> {"idle", "alloc", "replace", "free", "drop", "halt"}]
        /\ sc' \in [CPUs -> BlockOrders \cup {NULL}] /\ s' \in [CPUs -> Chunks \cup {NULL}]
        /\ Busy(o)' = "idle" /\ \A p \in BlockOrders : p # o => Calm(p)
    BY <2>2, <1>1, <1>2, ReturnLocks, Zenon
  <2>4. PICK q : q = Append(partial_list[o], x)
    BY Zenon
  <2>5. q \in Seq(Chunks) /\ IsInjective(q) /\ Range(q) = Range(partial_list[o]) \cup {x}
    <3>1. partial_list[o] \in Seq(Chunks)
      BY <1>1, Zenon DEF TypeOK
    <3>2. IsInjective(partial_list[o]) /\ x \in Chunks /\ x \notin Range(partial_list[o])
      BY <2>1, <1>5, <1>6, Zenon
    <3> QED BY <3>1, <3>2, <2>4, AppendOf
  <2>6. partial_list' = [partial_list EXCEPT ![o] = q]
    BY <2>2, <2>4, Zenon
  <2>7. /\ partial_list' \in [BlockOrders -> Seq(Chunks)] /\ partial_list'[o] = q
        /\ \A p \in BlockOrders : p # o => partial_list'[p] = partial_list[p]
    BY <2>5, <2>6, <1>1, Zenon DEF TypeOK
  <2>8. node' \in [Chunks -> BlockOrders \cup {NULL}] /\ node'[x] = o
        /\ \A y \in Chunks : y # x => node'[y] = node[y]
    BY <2>2, <1>1, <1>6, Zenon DEF TypeOK
  <2>9. TypeOK'
    BY <2>2, <2>3, <2>7, <2>8, <1>1, Zenon DEF TypeOK
  <2>10. Usable(o)' = Usable(o) /\ Owners' /\ \A y \in Chunks : ChunkInv(y)'
    BY <2>2, BlocksSame, Zenon
  <2>11. Confined(o)
    BY <2>2, <2>8, <1>6, Zenon DEF Confined
  <2>12. \A p \in BlockOrders : p # o => ContainerInv(p)'
    BY <2>2, <2>3, <2>7, <2>11, OthersKeep, Zenon
  <2>13. \A y \in Range(q) : node'[y] = o /\ free_block_count'[y] < Total[o] - 1
    <3>1. free_block_count[x] < Total[o] - 1
      BY <1>8, <1>9, <1>10
    <3> QED BY <3>1, <2>1, <2>2, <2>5, <2>8, <1>5, <1>7, Zenon
  <2>14. Members(o)' = Members(o) \cup {x}
    BY <2>2, <2>5, <2>7, <1>6, Zenon DEF Members
  <2>15. Members(o)' = Usable(o)'
    BY <2>10, <2>14, <1>5, <1>8, <1>10, Zenon
  <2>16. current'[o] \notin Range(q)
    BY <2>1, <2>2, <2>5, <1>5, Zenon
  <2>17. ContainerInv(o)'
    BY <2>3, <2>5, <2>7, <2>13, <2>15, <2>16, IdleContainer, Zenon
  <2> QED BY <2>2, <2>3, <2>9, <2>10, <2>12, <2>17, Zenon DEF SlabInv
<1>11. CASE n # 1 /\ n = Total[o] - 1
  <2>1. /\ page_slab' = [page_slab EXCEPT ![x] = NULL] /\ buddy' = buddy \cup {x} /\ Goto(c, "drop")
        /\ current' = current /\ partial_list' = partial_list /\ held' = held
        /\ order' = order /\ free_blocks' = free_blocks /\ free_block_count' = free_block_count
        /\ node' = node
    BY <1>2, <1>3, <1>8, <1>11, Zenon DEF FreePlace, put_slab_to_buddy, headerVars
  <2>2. /\ Locks' /\ sc_lock' \in [BlockOrders -> CPUs \cup {NULL}]
        /\ pc' \in [CPUs -> {"idle", "alloc", "replace", "free", "drop", "halt"}]
        /\ sc' \in [CPUs -> BlockOrders \cup {NULL}] /\ s' \in [CPUs -> Chunks \cup {NULL}]
        /\ Busy(o)' = "drop" /\ Subject(o)' = x
        /\ \A p \in BlockOrders : p # o => Calm(p)
    <3>1. PICK l : l = "drop"
      OBVIOUS
    <3>2. l \in {"alloc", "replace", "drop"} /\ Goto(c, l) /\ (l = "drop" => s[c] \in Chunks)
      BY <3>1, <2>1, <1>3, <1>6, Zenon
    <3> QED BY <3>1, <3>2, <1>1, <1>2, <1>3, GotoLocks, Zenon
  <2>3. page_slab' \in [Chunks -> Chunks \cup {NULL}] /\ page_slab'[x] = NULL
        /\ \A y \in Chunks : y # x => page_slab'[y] = page_slab[y]
    BY <2>1, <1>1, <1>6, Zenon DEF TypeOK
  <2>4. TypeOK'
    BY <2>1, <2>2, <2>3, <1>1, <1>6, Zenon DEF TypeOK
  <2>5. HeldBlocks(x) = {}
    <3>1. HasSize(HeldBlocks(x), Total[o] - 1 - n) /\ Total[o] - 1 - n = 0
      <4>1. HasSize(HeldBlocks(x), Total[o] - 1 - n)
        BY <1>6, <1>8, <1>9, SlabAssumption, Zenon DEF ChunkInv
      <4>2. Total[o] \in Nat /\ n \in Nat
        BY <1>9, Zenon
      <4> QED BY <4>1, <4>2, <1>11
    <3> QED BY <3>1, SizeZero, Zenon
  <2>6. \A a \in held : a[1] # x
    BY <2>5, Zenon DEF HeldBlocks
  <2>7. Owners'
    <3>1. ASSUME NEW a \in held
          PROVE  /\ a[1] \notin buddy' /\ (a[2] = 0 => a[3] = 0)
                 /\ IF a[2] = 0 THEN page_slab'[a[1]] = NULL
                    ELSE page_slab'[a[1]] = a[1] /\ order'[a[1]] = a[3]
      <4>1. a[1] \in Chunks /\ a[1] # x
        BY <2>6, <1>1, Zenon DEF TypeOK
      <4> QED BY <4>1, <2>1, <2>3, <1>1, Zenon DEF Owners, KfreeFindsOwner
    <3> QED BY <3>1, <2>1, Zenon DEF Owners, KfreeFindsOwner
  <2>8. ASSUME NEW y \in Chunks PROVE ChunkInv(y)'
    <3>1. CASE y = x
      BY <3>1, <2>3, Zenon DEF ChunkInv
    <3>2. CASE y # x
      <4>1. HeldBlocks(y)' = HeldBlocks(y)
        BY <2>1, Zenon DEF HeldBlocks
      <4>2. ChunkInv(y) /\ (page_slab[y] # NULL => y \notin buddy')
        BY <3>2, <2>1, Zenon DEF SlabInv, ChunkInv
      <4> QED BY <3>2, <4>1, <4>2, <2>1, <2>3, ChunkKeeps, Zenon
    <3> QED BY <3>1, <3>2, Zenon
  <2>9. Confined(o)
    BY <2>1, <2>3, <1>6, Zenon DEF Confined
  <2>10. \A p \in BlockOrders : p # o => ContainerInv(p)'
    BY <2>1, <2>2, <2>9, OthersKeep, Zenon
  <2>11. SlabsOf(o)' = SlabsOf(o) \ {x}
    BY <2>1, <2>3, <1>6, Zenon DEF SlabsOf
  <2>12. Usable(o)' = Usable(o) \ {x}
    BY <2>1, <2>11, Zenon DEF Usable
  <2>13. Members(o)' = Members(o)
    BY <2>1, Zenon DEF Members
  <2>14. Members(o)' = Usable(o)' \cup {x}
    BY <2>12, <2>13, <1>5, <1>8, <1>11, Zenon
  <2>15. x \in buddy'
    BY <2>1, Zenon
  <2>16. ContainerInv(o)'
    BY <2>1, <2>2, <2>14, <2>15, <1>5, Zenon DEF ContainerInv
  <2> QED BY <2>1, <2>2, <2>4, <2>7, <2>8, <2>10, <2>16, Zenon DEF SlabInv
<1>12. CASE n # 1 /\ n # Total[o] - 1
  <2>1. /\ Return(c) /\ partial_list' = partial_list /\ current' = current /\ node' = node
        /\ UNCHANGED <<order, free_blocks, free_block_count, page_slab, buddy, held>>
    BY <1>2, <1>3, <1>8, <1>12, Zenon DEF FreePlace, headerVars
  <2>2. /\ Locks' /\ sc_lock' \in [BlockOrders -> CPUs \cup {NULL}]
        /\ pc' \in [CPUs -> {"idle", "alloc", "replace", "free", "drop", "halt"}]
        /\ sc' \in [CPUs -> BlockOrders \cup {NULL}] /\ s' \in [CPUs -> Chunks \cup {NULL}]
        /\ Busy(o)' = "idle" /\ \A p \in BlockOrders : p # o => Calm(p)
    BY <2>1, <1>1, <1>2, ReturnLocks, Zenon
  <2>3. TypeOK'
    BY <2>1, <2>2, <1>1, Zenon DEF TypeOK
  <2>4. Confined(o) /\ Usable(o)' = Usable(o) /\ Owners' /\ \A y \in Chunks : ChunkInv(y)'
    BY <2>1, BlocksSame, Zenon
  <2>5. \A p \in BlockOrders : p # o => ContainerInv(p)'
    BY <2>1, <2>2, <2>4, OthersKeep, Zenon
  <2>6. Members(o)' = Usable(o)'
    BY <2>1, <2>4, <1>5, <1>8, <1>12, Zenon DEF Members
  <2>7. free_block_count[x] < Total[o] - 1
    <3>1. HasSize(HeldBlocks(x), Total[o] - 1 - n)
      BY <1>6, <1>8, <1>9, Zenon DEF ChunkInv
    <3>2. Total[o] - 1 - n \in Nat
      BY <3>1, SizeNat, Zenon
    <3> QED BY <3>2, <1>8, <1>9, <1>12
  <2>8. \A y \in Range(partial_list[o]) : node'[y] = o /\ free_block_count'[y] < Total[o] - 1
    BY <2>1, <2>7, <1>5, Zenon
  <2>9. ContainerInv(o)'
    BY <2>1, <2>2, <2>6, <2>8, <1>5, IdleContainer, Zenon
  <2> QED BY <2>1, <2>2, <2>3, <2>4, <2>5, <2>9, Zenon DEF SlabInv
<1> QED BY <1>10, <1>11, <1>12, Zenon

\* The container lets go of the slab that went back to the buddy allocator.
LEMMA FreeDropKeeps ==
  ASSUME SlabInv, NotTaken, NEW c \in CPUs, FreeDrop(c)
  PROVE  SlabInv'
<1>1. TypeOK /\ pc[c] = "drop" /\ Return(c) /\ node' = node
      /\ UNCHANGED <<order, free_blocks, free_block_count, page_slab, buddy, held>>
  BY Zenon DEF SlabInv, FreeDrop, headerVars
<1>2. PICK o, x : o = sc[c] /\ x = s[c]
  OBVIOUS
<1>3. /\ Locks' /\ sc_lock' \in [BlockOrders -> CPUs \cup {NULL}]
      /\ pc' \in [CPUs -> {"idle", "alloc", "replace", "free", "drop", "halt"}]
      /\ sc' \in [CPUs -> BlockOrders \cup {NULL}] /\ s' \in [CPUs -> Chunks \cup {NULL}]
      /\ o \in BlockOrders /\ Busy(o) = "drop" /\ Subject(o) = x /\ Busy(o)' = "idle"
      /\ \A p \in BlockOrders : p # o => Calm(p)
  BY <1>1, <1>2, ReturnLocks, Zenon
<1>4. /\ IsInjective(partial_list[o]) /\ current[o] \notin Range(partial_list[o]) /\ x \in buddy
      /\ \A y \in Range(partial_list[o]) : node[y] = o
      /\ \A y \in Range(partial_list[o]) : free_block_count[y] < Total[o] - 1 \/ y = x
      /\ Members(o) = Usable(o) \cup {x}
  BY <1>3, Zenon DEF SlabInv, ContainerInv
<1>5. x \in Chunks /\ x # NULL /\ x \notin Usable(o)
  BY <1>4, FreeChunk, SlabAssumption, Zenon DEF Usable, SlabsOf
<1>6. /\ Range(partial_list[o]) \subseteq Chunks /\ NULL \notin Range(partial_list[o])
      /\ Members(o) = Range(partial_list[o]) \cup ({current[o]} \ {NULL})
  BY <1>1, <1>3, MembersAre, Zenon
<1>7. Confined(o) /\ Usable(o)' = Usable(o) /\ Owners' /\ \A y \in Chunks : ChunkInv(y)'
  BY <1>1, BlocksSame, Zenon
<1>8. ASSUME /\ current' \in [BlockOrders -> Chunks \cup {NULL}]
             /\ partial_list' \in [BlockOrders -> Seq(Chunks)]
             /\ \A p \in BlockOrders :
                  p # o => partial_list'[p] = partial_list[p] /\ current'[p] = current[p],
             IsInjective(partial_list'[o]), current'[o] \notin Range(partial_list'[o]),
             Range(partial_list'[o]) \subseteq Range(partial_list[o]) \ {x},
             Members(o)' = Usable(o)
      PROVE  SlabInv'
  <2>1. TypeOK'
    BY <1>1, <1>3, <1>8, Zenon DEF TypeOK
  <2>2. \A p \in BlockOrders : p # o => ContainerInv(p)'
    BY <1>3, <1>7, <1>8, OthersKeep, Zenon
  <2>3. \A y \in Range(partial_list'[o]) : node'[y] = o /\ free_block_count'[y] < Total[o] - 1
    BY <1>1, <1>4, <1>8, Zenon
  <2>4. ContainerInv(o)'
    BY <1>3, <1>7, <1>8, <2>3, IdleContainer, Zenon
  <2> QED BY <1>3, <1>7, <2>1, <2>2, <2>4, Zenon DEF SlabInv
<1>9. CASE current[o] = x
  <2>1. Range(partial_list[o]) = Usable(o) /\ x \notin Range(partial_list[o])
    <3>1. Members(o) = Usable(o) \cup {x} /\ x \notin Range(partial_list[o])
      BY <1>4, <1>9, Zenon
    <3>2. Members(o) = Range(partial_list[o]) \cup {x}
      BY <1>5, <1>6, <1>9, Zenon
    <3> QED BY <3>1, <3>2, <1>5
  <2>2. CASE partial_list[o] # <<>>
    <3>1. TakePartial(o)
      BY <1>2, <1>9, <2>2, Zenon DEF FreeDrop
    <3>2. /\ partial_list' \in [BlockOrders -> Seq(Chunks)]
          /\ current' \in [BlockOrders -> Chunks \cup {NULL}]
          /\ current'[o] \in Range(partial_list[o])
          /\ IsInjective(partial_list'[o])
          /\ Range(partial_list'[o]) = Range(partial_list[o]) \ {current'[o]}
          /\ \A p \in BlockOrders :
               p # o => partial_list'[p] = partial_list[p] /\ current'[p] = current[p]
      BY <1>3, <2>2, <3>1, TakePartialOf, Zenon
    <3>3. Members(o)' = Usable(o)
      BY <1>6, <2>1, <3>2, Zenon DEF Members
    <3> QED BY <2>1, <3>2, <3>3, <1>8, Zenon
  <2>3. CASE partial_list[o] = <<>>
    <3>1. current' = [current EXCEPT ![o] = NULL] /\ partial_list' = partial_list
      BY <1>2, <1>9, <2>3, Zenon DEF FreeDrop
    <3>2. current' \in [BlockOrders -> Chunks \cup {NULL}] /\ current'[o] = NULL
          /\ \A p \in BlockOrders : p # o => current'[p] = current[p]
      BY <1>1, <1>3, <3>1, Zenon DEF TypeOK
    <3>3. partial_list' \in [BlockOrders -> Seq(Chunks)]
      BY <1>1, <3>1, Zenon DEF TypeOK
    <3>4. Members(o)' = Usable(o)
      BY <1>6, <2>1, <3>1, <3>2, Zenon DEF Members
    <3> QED BY <1>4, <1>6, <2>1, <3>1, <3>2, <3>3, <3>4, <1>8, Zenon
  <2> QED BY <2>2, <2>3, Zenon
<1>10. CASE current[o] # x
  <2>1. Unlink(x) /\ current' = current
    BY <1>2, <1>10, Zenon DEF FreeDrop
  <2>2. x \in Range(partial_list[o])
    BY <1>4, <1>6, <1>10, Zenon
  <2>3. /\ partial_list' \in [BlockOrders -> Seq(Chunks)]
        /\ IsInjective(partial_list'[o]) /\ Range(partial_list'[o]) = Range(partial_list[o]) \ {x}
        /\ \A p \in BlockOrders : p # o => partial_list'[p] = partial_list[p]
    BY <1>3, <2>1, <2>2, UnlinkOf, Zenon
  <2>4. Members(o)' = Members(o) \ {x}
    BY <1>10, <2>1, <2>3, Zenon DEF Members
  <2>5. Members(o)' = Usable(o)
    BY <1>4, <1>5, <2>4, Zenon
  <2>6. current' \in [BlockOrders -> Chunks \cup {NULL}]
    BY <1>1, <2>1, Zenon DEF TypeOK
  <2> QED BY <1>4, <2>1, <2>3, <2>5, <2>6, <1>8, Zenon
<1> QED BY <1>9, <1>10, Zenon

(***************************************************************************)
(* The theorems                                                            *)
(***************************************************************************)
\* The allocator starts, and goes on, with its invariant.
LEMMA SlabStart == Init => SlabInv
<1> SUFFICES ASSUME Init PROVE SlabInv
  OBVIOUS
<1>1. TypeOK
  BY DEF Init, TypeOK
<1>2. Locks
  BY Zenon DEF Init, Locks
<1>3. Owners
  BY Zenon DEF Init, Owners, KfreeFindsOwner
<1>4. \A x \in Chunks : ChunkInv(x)
  BY Zenon DEF Init, ChunkInv
<1>5. ASSUME NEW o \in BlockOrders PROVE ContainerInv(o)
  <2>1. Busy(o) = "idle" /\ partial_list[o] = <<>> /\ current[o] = NULL
    BY Zenon DEF Init, Busy
  <2>2. IsInjective(<<>>) /\ Range(<<>>) = {}
    BY DEF IsInjective, Range
  <2>3. Members(o) = {} /\ Usable(o) = {}
    BY <2>1, <2>2, SlabAssumption, Zenon DEF Members, Usable, SlabsOf, Init
  <2> QED BY <2>1, <2>2, <2>3, Zenon DEF ContainerInv
<1> QED BY <1>1, <1>2, <1>3, <1>4, <1>5, Zenon DEF SlabInv

\* Every step of a call, and of the callers, keeps the invariant, unless it takes a
\* chunk that a __slab_free on another CPU has given back and not yet unlinked.
LEMMA SlabKeeps ==
  ASSUME SlabInv, [Next]_vars, [NotTaken]_vars
  PROVE  SlabInv'
<1>1. CASE UNCHANGED vars
  <2>1. /\ UNCHANGED <<order, free_blocks, free_block_count, page_slab, buddy, held>> /\ node' = node
        /\ current' = current /\ partial_list' = partial_list /\ sc_lock' = sc_lock
        /\ pc' = pc /\ sc' = sc /\ s' = s
    BY <1>1, Zenon DEF vars, containerVars, headerVars, callVars
  <2>2. TypeOK' /\ Locks' /\ Owners'
    BY <2>1, BlocksSame, Zenon DEF SlabInv, TypeOK, Locks
  <2>3. \A x \in Chunks : ChunkInv(x)'
    BY <2>1, BlocksSame, Zenon
  <2>4. ASSUME NEW o \in BlockOrders PROVE ContainerInv(o)'
    <3>1. Usable(o)' = Usable(o) /\ SlabsOf(o)' = SlabsOf(o)
      BY <2>1, BlocksSame, Zenon
    <3>2. Members(o)' = Members(o) /\ Busy(o)' = Busy(o) /\ Subject(o)' = Subject(o)
      BY <2>1, Zenon DEF Members, Busy, Subject
    <3>3. ContainerInv(o)
      BY Zenon DEF SlabInv
    <3> QED BY <2>1, <3>1, <3>2, <3>3, Zenon DEF ContainerInv
  <2> QED BY <2>2, <2>3, <2>4, Zenon DEF SlabInv
<1>2. CASE Next /\ NotTaken
  <2>1. PICK c \in CPUs : \/ \E o \in BlockOrders : SlabAlloc(c, o)
                          \/ \E a \in held : KFree(c, a)
                          \/ GetPages(c)
                          \/ CallStep(c)
    BY <1>2, Zenon DEF Next
  <2>2. ASSUME NEW a \in held, KFree(c, a) PROVE SlabInv'
    BY <1>2, <2>2, SlabFreeKeeps, FreePagesKeeps, Zenon
  <2> QED BY <1>2, <2>1, <2>2, SlabAllocKeeps, GetPagesKeeps, AllocRefillKeeps, AllocFailKeeps,
             AllocTakeKeeps, AllocReplaceKeeps, FreePlaceKeeps, FreeDropKeeps, Zenon DEF CallStep
<1> QED BY <1>1, <1>2, Zenon

\* With any number of CPUs, the allocator keeps its invariant as long as no
\* chunk is handed out between put_slab_to_buddy and the list_del after it.
THEOREM SlabInvariant == Spec /\ [][NotTaken]_vars => []SlabInv
BY SlabStart, SlabKeeps, PTL DEF Spec

\* What the invariant says of the properties.
LEMMA SlabInvImplies ==
  ASSUME SlabInv PROVE TypeOK /\ BlocksAccounted /\ SlabsPlaced /\ KfreeFindsOwner /\ NoBug
<1>1. TypeOK /\ KfreeFindsOwner /\ Locks
  BY Zenon DEF SlabInv, Owners
<1>2. BlocksAccounted
  BY Zenon DEF SlabInv, ChunkInv, BlocksAccounted
<1>3. SlabsPlaced
  <2>1. ASSUME NEW o \in BlockOrders, sc_lock[o] = NULL
        PROVE  /\ IsInjective(partial_list[o])
               /\ current[o] \notin Range(partial_list[o])
               /\ Members(o) = Usable(o)
               /\ \A x \in Range(partial_list[o]) : free_block_count[x] < Total[o] - 1
    <3>1. Busy(o) = "idle"
      BY <2>1, Zenon DEF Busy
    <3> QED BY <3>1, Zenon DEF SlabInv, ContainerInv
  <2> QED BY <2>1, Zenon DEF SlabsPlaced, Members, Usable
<1>4. NoBug
  <2>1. ASSUME NEW c \in CPUs, pc[c] = "halt" PROVE FALSE
    <3>1. sc[c] \in BlockOrders /\ sc_lock[sc[c]] = c /\ c # NULL
      BY <2>1, <1>1, SlabAssumption, Zenon DEF Locks
    <3>2. Busy(sc[c]) = "halt"
      BY <2>1, <3>1, Zenon DEF Busy
    <3> QED BY <3>1, <3>2, Zenon DEF SlabInv, ContainerInv
  <2> QED BY <2>1, Zenon DEF NoBug
<1> QED BY <1>1, <1>2, <1>3, <1>4, Zenon

\* Every step of the allocator is one of KernelHeap, or changes no allocation.
LEMMA SlabRefines ==
  ASSUME SlabInv, [Next]_vars, [NotTaken]_vars
  PROVE  [KH!Next]_held
<1>1. CASE UNCHANGED vars
  BY <1>1, Zenon DEF vars
<1>2. CASE Next /\ NotTaken
  <2>1. PICK c \in CPUs : \/ \E o \in BlockOrders : SlabAlloc(c, o)
                          \/ \E a \in held : KFree(c, a)
                          \/ GetPages(c)
                          \/ CallStep(c)
    BY <1>2, Zenon DEF Next
  <2>2. CASE \E o \in BlockOrders : SlabAlloc(c, o)
    BY <2>2, Zenon DEF SlabAlloc
  <2>3. CASE \E a \in held : KFree(c, a)
    BY <2>3, Zenon DEF KFree, KH!Next, KH!Free
  <2>4. CASE GetPages(c)
    <3>1. PICK x \in buddy : held' = held \cup {<<x, 0, 0>>}
      BY <2>4, <1>2, GetPagesKeeps, Zenon
    <3>2. x \in Chunks /\ \A y \in held : y[1] # x
      BY FreeChunk, Zenon
    <3>3. PICK t : t = <<x, 0, 0>>
      BY Zenon
    <3>4. t \in KH!Allocations
      BY <3>2, <3>3 DEF KH!Allocations
    <3>5. KH!Alloc(t)
      BY <3>1, <3>2, <3>3, Zenon DEF KH!Alloc, KH!Overlap
    <3> QED BY <3>4, <3>5, Zenon DEF KH!Next
  <2>5. CASE AllocTake(c)
    <3>1. PICK x \in Chunks, o \in BlockOrders, i \in Nat :
            /\ i \in 1 .. Total[o] - 1 /\ i \notin HeldBlocks(x)
            /\ page_slab[x] = x /\ order[x] = o
            /\ held' = held \cup {<<x, i, o>>}
      BY <2>5, <1>2, AllocTakeKeeps, Zenon
    <3>2. PICK t : t = <<x, i, o>>
      BY Zenon
    <3>3. t \in KH!Allocations
      BY <3>1, <3>2 DEF KH!Allocations
    <3>4. ASSUME NEW y \in held PROVE ~KH!Overlap(t, y)
      <4>1. y[1] = x => y[2] # 0 /\ y[3] = o /\ y[2] # i
        BY <3>1, SlabAssumption, Zenon DEF SlabInv, Owners, KfreeFindsOwner, HeldBlocks
      <4> QED BY <4>1, <3>1, <3>2 DEF KH!Overlap
    <3>5. KH!Alloc(t)
      BY <3>1, <3>2, <3>4, Zenon DEF KH!Alloc
    <3> QED BY <3>3, <3>5, Zenon DEF KH!Next
  <2>6. CASE AllocRefill(c) \/ AllocFail(c) \/ AllocReplace(c) \/ FreeDrop(c)
    BY <2>6, Zenon DEF AllocRefill, AllocFail, AllocReplace, FreeDrop
  <2>7. CASE FreePlace(c)
    BY <2>7, <1>2, FreePlaceKeeps, Zenon
  <2> QED BY <2>1, <2>2, <2>3, <2>4, <2>5, <2>6, <2>7, Zenon DEF CallStep
<1> QED BY <1>1, <1>2, Zenon

\* One CPU, and no interrupt handler of this kernel allocates: nothing runs
\* between two steps of a call.
OneCpu == \A c, d \in CPUs : c = d

\* Then nobody can take the chunk that __slab_free is about to drop.
LEMMA NothingTaken ==
  ASSUME OneCpu, SlabInv, Next PROVE NotTaken
<1> SUFFICES ASSUME NEW c \in CPUs, pc[c] = "drop" PROVE s[c] \in buddy'
  BY Zenon DEF NotTaken
<1>1. PICK d \in CPUs : \/ \E o \in BlockOrders : SlabAlloc(d, o)
                        \/ \E a \in held : KFree(d, a)
                        \/ GetPages(d)
                        \/ CallStep(d)
  BY Zenon DEF Next
<1>2. pc[d] = "drop"
  BY Zenon DEF OneCpu
<1>3. FreeDrop(d)
  BY <1>1, <1>2, Zenon DEF SlabAlloc, KFree, GetPages, CallStep, AllocRefill, AllocFail, AllocTake,
                    AllocReplace, FreePlace
<1>4. buddy' = buddy
  BY <1>3, Zenon DEF FreeDrop
<1>5. sc[c] \in BlockOrders /\ sc_lock[sc[c]] = c /\ c # NULL
  BY SlabAssumption, Zenon DEF SlabInv, Locks
<1>6. Busy(sc[c]) = "drop" /\ Subject(sc[c]) = s[c]
  BY <1>5, Zenon DEF Busy, Subject
<1> QED BY <1>4, <1>5, <1>6, Zenon DEF SlabInv, ContainerInv

\* On one CPU the invariant holds without any condition.
THEOREM OneCpuInvariant == ASSUME OneCpu PROVE Spec => []SlabInv
<1>1. SlabInv /\ [Next]_vars => SlabInv'
  BY SlabKeeps, NothingTaken, Zenon
<1> QED BY <1>1, SlabStart, PTL DEF Spec

\* Every header field, list, lock and local of the allocator stays in its range.
THEOREM SlabTypeCorrect == ASSUME OneCpu PROVE Spec => []TypeOK
<1>1. SlabInv => TypeOK
  BY SlabInvImplies, Zenon
<1> QED BY <1>1, OneCpuInvariant, PTL

\* No block of any slab is lost, doubly free or doubly held, whatever the block
\* sizes and however many slabs there are.
THEOREM BlocksStayAccounted == ASSUME OneCpu PROVE Spec => []BlocksAccounted
<1>1. SlabInv => BlocksAccounted
  BY SlabInvImplies, Zenon
<1> QED BY <1>1, OneCpuInvariant, PTL

\* Between calls every slab with a free block is current or on partial_list,
\* exactly once, and nothing else is.
THEOREM SlabsStayPlaced == ASSUME OneCpu PROVE Spec => []SlabsPlaced
<1>1. SlabInv => SlabsPlaced
  BY SlabInvImplies, Zenon
<1> QED BY <1>1, OneCpuInvariant, PTL

\* kfree always sends an address to the allocator it came from.
THEOREM KfreeIsRight == ASSUME OneCpu PROVE Spec => []KfreeFindsOwner
<1>1. SlabInv => KfreeFindsOwner
  BY SlabInvImplies, Zenon
<1> QED BY <1>1, OneCpuInvariant, PTL

\* No BUG_ON of the slab allocator can fire.
THEOREM NoBugFires == ASSUME OneCpu PROVE Spec => []NoBug
<1>1. SlabInv => NoBug
  BY SlabInvImplies, Zenon
<1> QED BY <1>1, OneCpuInvariant, PTL

\* With any number of CPUs, if no chunk is taken while it is being dropped.
THEOREM SlabSafe ==
  Spec /\ [][NotTaken]_vars =>
    [](TypeOK /\ BlocksAccounted /\ SlabsPlaced /\ KfreeFindsOwner /\ NoBug)
<1>1. SlabInv => TypeOK /\ BlocksAccounted /\ SlabsPlaced /\ KfreeFindsOwner /\ NoBug
  BY SlabInvImplies, Zenon
<1> QED BY <1>1, SlabInvariant, PTL

\* kmalloc and kfree on slabs and whole chunks implement KernelHeap: the memory
\* of two live allocations never overlaps.
THEOREM KernelHeapImplemented == ASSUME OneCpu PROVE Spec => ImplementsKernelHeap
<1>1. Init => KH!Init
  BY Zenon DEF Init, KH!Init
<1>2. SlabInv /\ [Next]_vars => [KH!Next]_held
  BY SlabRefines, NothingTaken, Zenon
<1> QED BY <1>1, <1>2, OneCpuInvariant, PTL DEF Spec, ImplementsKernelHeap, KH!Spec

\* The same with any number of CPUs, under the condition of SlabInvariant.
THEOREM KernelHeapImplementedSmp == Spec /\ [][NotTaken]_vars => ImplementsKernelHeap
<1>1. Init => KH!Init
  BY Zenon DEF Init, KH!Init
<1>2. SlabInv /\ [Next]_vars /\ [NotTaken]_vars => [KH!Next]_held
  BY SlabRefines, Zenon
<1> QED BY <1>1, <1>2, SlabInvariant, PTL DEF Spec, ImplementsKernelHeap, KH!Spec
=============================================================================
