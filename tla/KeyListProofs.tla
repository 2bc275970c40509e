---------------------------- MODULE KeyListProofs ----------------------------
(***************************************************************************)
(* Proofs about KeyList: for any number of devices, transactions and       *)
(* requests, and lists of any bound.                                       *)
(***************************************************************************)
EXTENDS KeyList, NatInduction, FiniteSetTheorems, TLAPS

-----------------------------------------------------------------------------
(* Kept and Amounts are recursive functions on 0..n; each is what its      *)
(* equation says.                                                          *)

KeptNext(keys, d, f, i) ==
    IF i = 0 THEN <<>>
    ELSE IF keys[i] = d THEN f[i - 1] ELSE Append(f[i - 1], keys[i])

KeptIs(g, keys, d, n) == g = [i \in 0..n |-> KeptNext(keys, d, g, i)]

LEMMA KeptExists ==
    ASSUME NEW keys, NEW d, NEW m \in Nat
    PROVE  \E g : KeptIs(g, keys, d, m)
<1> DEFINE S == {n \in Nat : \E g : KeptIs(g, keys, d, n)}
<1>1. 0 \in S
  <2> DEFINE g == [i \in 0..0 |-> <<>>]
  <2>1. KeptIs(g, keys, d, 0)
    BY DEF KeptIs, KeptNext
  <2> QED BY <2>1
<1>2. ASSUME NEW n \in Nat, n \in S
      PROVE  n + 1 \in S
  <2>1. PICK g : KeptIs(g, keys, d, n)
    BY <1>2
  <2> DEFINE h == [i \in 0..(n + 1) |->
                     IF i = n + 1 THEN KeptNext(keys, d, g, i) ELSE g[i]]
  <2>2. \A i \in 0..(n + 1) : h[i] = KeptNext(keys, d, h, i)
    <3>1. SUFFICES ASSUME NEW i \in 0..(n + 1)
                   PROVE  h[i] = KeptNext(keys, d, h, i)
      OBVIOUS
    <3>2. CASE i = 0
      BY <2>1, <3>2 DEF KeptIs, KeptNext
    <3>3. CASE i # 0
      <4>1. i - 1 \in 0..n /\ i - 1 # n + 1 /\ i - 1 \in 0..(n + 1)
        BY <3>3
      <4>2. h[i - 1] = g[i - 1]
        BY <4>1
      <4>3. h[i] = KeptNext(keys, d, g, i)
        BY <2>1 DEF KeptIs
      <4> HIDE DEF h
      <4> QED BY <3>3, <4>2, <4>3 DEF KeptNext
    <3> QED BY <3>2, <3>3
  <2>3. KeptIs(h, keys, d, n + 1)
    BY <2>2 DEF KeptIs
  <2> HIDE DEF h
  <2> QED BY <2>3
<1> HIDE DEF S
<1>3. m \in S
  BY <1>1, <1>2, NatsFrom
<1> USE DEF S
<1> QED BY <1>3

LEMMA KeptEquation ==
    ASSUME NEW keys \in Seq(Device), NEW d
    PROVE  KeptIs(Kept(keys, d), keys, d, Len(keys))
<1>1. \E g : KeptIs(g, keys, d, Len(keys))
  <2>1. Len(keys) \in Nat
    OBVIOUS
  <2> QED BY <2>1, KeptExists
<1>2. Kept(keys, d) = CHOOSE g : KeptIs(g, keys, d, Len(keys))
  BY DEF Kept, KeptIs, KeptNext
<1> QED BY <1>1, <1>2

\* The loop of a delete keeps every key but d, in the list's order: nothing is
\* added, nothing doubled, nothing else is left out.
LEMMA KeptKeeps ==
    ASSUME NEW keys \in Seq(Device), NEW d
    PROVE  LET kept == Kept(keys, d)[Len(keys)]
           IN  /\ kept \in Seq(Device)
               /\ Len(kept) <= Len(keys)
               /\ ToSet(kept) = ToSet(keys) \ {d}
               /\ IsInjective(keys) => IsInjective(kept)
<1> DEFINE f == Kept(keys, d)
           First(i) == {keys[j] : j \in 1..i}
           Good(i) == /\ f[i] \in Seq(Device)
                      /\ Len(f[i]) <= i
                      /\ ToSet(f[i]) = First(i) \ {d}
                      /\ IsInjective(keys) => IsInjective(f[i])
           S == {i \in Nat : i <= Len(keys) => Good(i)}
<1>1. \A i \in 0..Len(keys) : f[i] = KeptNext(keys, d, f, i)
  <2>1. KeptIs(f, keys, d, Len(keys))
    BY KeptEquation
  <2> HIDE DEF f
  <2> QED BY <2>1 DEF KeptIs
<1> HIDE DEF f
<1>2. 0 \in S
  <2>1. f[0] = <<>>
    BY <1>1 DEF KeptNext
  <2>2. First(0) = {} /\ ToSet(<<>>) = {} /\ IsInjective(<<>>)
    BY DEF ToSet, IsInjective
  <2>3. <<>> \in Seq(Device) /\ Len(<<>>) <= 0
    OBVIOUS
  <2>4. Good(0)
    BY <2>1, <2>2, <2>3
  <2> QED BY <2>4
<1>3. ASSUME NEW n \in Nat, n \in S
      PROVE  n + 1 \in S
  <2>1. SUFFICES ASSUME n + 1 <= Len(keys)
                 PROVE  Good(n + 1)
    OBVIOUS
  <2>2. Good(n)
    BY <1>3, <2>1
  <2>3. n + 1 \in 1..Len(keys) /\ (n + 1) - 1 = n /\ n + 1 # 0
    BY <2>1
  <2>4. First(n + 1) = First(n) \union {keys[n + 1]} /\ keys[n + 1] \in Device
    <3>1. 1..(n + 1) = 1..n \union {n + 1}
      OBVIOUS
    <3> QED BY <2>3, <3>1
  <2>5. CASE keys[n + 1] = d
    <3>1. f[n + 1] = f[n]
      BY <1>1, <2>3, <2>5 DEF KeptNext
    <3> QED BY <2>2, <2>4, <2>5, <3>1
  <2>6. CASE keys[n + 1] # d
    <3> DEFINE k == keys[n + 1]
               s == f[n]
    <3>1. f[n + 1] = Append(s, k)
      <4>1. f[n + 1] = KeptNext(keys, d, f, n + 1)
        BY <1>1, <2>3
      <4>2. KeptNext(keys, d, f, n + 1) = Append(f[(n + 1) - 1], keys[n + 1])
        BY <2>3, <2>6, Zenon DEF KeptNext
      <4> QED BY <2>3, <4>1, <4>2, Zenon
    <3>2. s \in Seq(Device) /\ k \in Device /\ Len(s) \in Nat
      BY <2>2, <2>4
    <3>3. /\ Append(s, k) \in Seq(Device)
          /\ Len(Append(s, k)) = Len(s) + 1
          /\ DOMAIN Append(s, k) = 1..(Len(s) + 1)
          /\ \A j \in 1..Len(s) : Append(s, k)[j] = s[j]
          /\ Append(s, k)[Len(s) + 1] = k
          /\ DOMAIN s = 1..Len(s)
      BY <3>2
    <3>4. ToSet(Append(s, k)) = ToSet(s) \union {k}
      BY <3>2, <3>3 DEF ToSet
    <3>5. IsInjective(keys) => IsInjective(Append(s, k))
      <4>1. SUFFICES ASSUME IsInjective(keys)
                     PROVE  IsInjective(Append(s, k))
        OBVIOUS
      <4>2. k \notin ToSet(s)
        <5>1. k \notin First(n)
          <6>1. \A j \in 1..n : j \in DOMAIN keys /\ j # n + 1 /\ n + 1 \in DOMAIN keys
            BY <2>1, <2>3
          <6> QED BY <4>1, <6>1 DEF IsInjective
        <5> QED BY <2>2, <5>1
      <4>3. \A j \in 1..Len(s) : s[j] # k
        BY <3>3, <4>2 DEF ToSet
      <4>4. IsInjective(s)
        BY <2>2, <4>1
      <4> HIDE DEF s, k
      <4>5. ASSUME NEW a \in 1..(Len(s) + 1), NEW b \in 1..(Len(s) + 1),
                   Append(s, k)[a] = Append(s, k)[b]
            PROVE  a = b
        <5>1. CASE a = Len(s) + 1 /\ b # Len(s) + 1
          BY <3>2, <3>3, <4>3, <4>5, <5>1
        <5>2. CASE a # Len(s) + 1 /\ b = Len(s) + 1
          BY <3>2, <3>3, <4>3, <4>5, <5>2
        <5>3. CASE a # Len(s) + 1 /\ b # Len(s) + 1
          <6>1. a \in 1..Len(s) /\ b \in 1..Len(s)
            BY <3>2, <5>3
          <6> QED BY <3>3, <4>4, <4>5, <6>1 DEF IsInjective
        <5> QED BY <5>1, <5>2, <5>3
      <4> QED BY <3>3, <4>5 DEF IsInjective
    <3>6. First(n + 1) \ {d} = (First(n) \ {d}) \union {k}
      BY <2>4, <2>6
    <3>7. Len(s) <= n /\ ToSet(s) = First(n) \ {d}
      BY <2>2
    <3> HIDE DEF s, k, First
    <3> QED BY <3>1, <3>2, <3>3, <3>4, <3>5, <3>6, <3>7
  <2> QED BY <2>5, <2>6
<1>4. Len(keys) \in Nat /\ First(Len(keys)) = ToSet(keys)
  BY DEF ToSet
<1>5. Len(keys) \in S
  <2> HIDE DEF S
  <2> QED BY <1>2, <1>3, <1>4, NatsFrom
<1> QED BY <1>4, <1>5 DEF f

\* An edit that buildUpdateAuthorizeTx lets through keeps a list within its
\* bound and free of duplicates, and does to its devices what it says.
LEMMA EditedIsList ==
    ASSUME NEW keys \in Seq(Device), NEW op \in Operations, NEW d \in Device
    PROVE  Edited(keys, op, d) \in Seq(Device)
BY KeptKeeps DEF Edited, Operations

LEMMA EditedKeeps ==
    ASSUME NEW keys \in Seq(Device), NEW op \in Operations, NEW d \in Device,
           MayEdit(keys, op, d), Len(keys) <= MaxKeys, IsInjective(keys)
    PROVE  LET edited == Edited(keys, op, d)
           IN  /\ Len(edited) <= MaxKeys
               /\ IsInjective(edited)
               /\ ToSet(edited) = IF op = "delete" THEN ToSet(keys) \ {d}
                                                   ELSE ToSet(keys) \union {d}
<1>1. CASE op = "add"
  <2>1. Edited(keys, op, d) = Append(keys, d)
    BY <1>1, Zenon DEF Edited
  <2>2. /\ Len(Append(keys, d)) = Len(keys) + 1
        /\ DOMAIN Append(keys, d) = 1..(Len(keys) + 1)
        /\ \A j \in 1..Len(keys) : Append(keys, d)[j] = keys[j]
        /\ Append(keys, d)[Len(keys) + 1] = d
        /\ DOMAIN keys = 1..Len(keys) /\ Len(keys) \in Nat
    OBVIOUS
  <2>3. Len(keys) < MaxKeys /\ \A j \in 1..Len(keys) : keys[j] # d
    BY <1>1, <2>2 DEF MayEdit, ToSet
  <2>4. ToSet(Append(keys, d)) = ToSet(keys) \union {d}
    BY <2>2 DEF ToSet
  <2>5. ASSUME NEW a \in 1..(Len(keys) + 1), NEW b \in 1..(Len(keys) + 1),
               Append(keys, d)[a] = Append(keys, d)[b]
        PROVE  a = b
    <3>1. CASE a = Len(keys) + 1 /\ b # Len(keys) + 1
      BY <2>2, <2>3, <2>5, <3>1
    <3>2. CASE a # Len(keys) + 1 /\ b = Len(keys) + 1
      BY <2>2, <2>3, <2>5, <3>2
    <3>3. CASE a # Len(keys) + 1 /\ b # Len(keys) + 1
      <4>1. a \in 1..Len(keys) /\ b \in 1..Len(keys)
        BY <2>2, <3>3
      <4> QED BY <2>2, <2>5, <4>1 DEF IsInjective
    <3> QED BY <3>1, <3>2, <3>3
  <2>6. IsInjective(Append(keys, d))
    BY <2>2, <2>5 DEF IsInjective
  <2>7. Len(Append(keys, d)) <= MaxKeys
    BY <2>2, <2>3, KeyListAssumption
  <2> QED BY <1>1, <2>1, <2>4, <2>6, <2>7
<1>2. CASE op = "delete"
  <2>1. Edited(keys, op, d) = Kept(keys, d)[Len(keys)]
    BY <1>2 DEF Edited
  <2>2. LET kept == Kept(keys, d)[Len(keys)]
        IN  /\ kept \in Seq(Device)
            /\ Len(kept) <= Len(keys)
            /\ ToSet(kept) = ToSet(keys) \ {d}
            /\ IsInjective(keys) => IsInjective(kept)
    BY KeptKeeps
  <2> QED BY <1>2, <2>1, <2>2, KeyListAssumption
<1> QED BY <1>1, <1>2 DEF Operations

AmountsNext(edits, f, i) == IF i = 0 THEN {} ELSE Applied(f[i - 1], edits[i])

AmountsIs(g, edits, n) == g = [i \in 0..n |-> AmountsNext(edits, g, i)]

LEMMA AmountsExists ==
    ASSUME NEW edits, NEW m \in Nat
    PROVE  \E g : AmountsIs(g, edits, m)
<1> DEFINE S == {n \in Nat : \E g : AmountsIs(g, edits, n)}
<1>1. 0 \in S
  <2> DEFINE g == [i \in 0..0 |-> {}]
  <2>1. AmountsIs(g, edits, 0)
    BY DEF AmountsIs, AmountsNext
  <2> QED BY <2>1
<1>2. ASSUME NEW n \in Nat, n \in S
      PROVE  n + 1 \in S
  <2>1. PICK g : AmountsIs(g, edits, n)
    BY <1>2
  <2> DEFINE h == [i \in 0..(n + 1) |->
                     IF i = n + 1 THEN AmountsNext(edits, g, i) ELSE g[i]]
  <2>2. \A i \in 0..(n + 1) : h[i] = AmountsNext(edits, h, i)
    <3>1. SUFFICES ASSUME NEW i \in 0..(n + 1)
                   PROVE  h[i] = AmountsNext(edits, h, i)
      OBVIOUS
    <3>2. CASE i = 0
      BY <2>1, <3>2 DEF AmountsIs, AmountsNext
    <3>3. CASE i # 0
      <4>1. i - 1 \in 0..n /\ i - 1 # n + 1 /\ i - 1 \in 0..(n + 1)
        BY <3>3
      <4>2. h[i - 1] = g[i - 1]
        BY <4>1
      <4>3. h[i] = AmountsNext(edits, g, i)
        BY <2>1 DEF AmountsIs
      <4> HIDE DEF h
      <4> QED BY <3>3, <4>2, <4>3 DEF AmountsNext
    <3> QED BY <3>2, <3>3
  <2>3. AmountsIs(h, edits, n + 1)
    BY <2>2 DEF AmountsIs
  <2> HIDE DEF h
  <2> QED BY <2>3
<1> HIDE DEF S
<1>3. m \in S
  BY <1>1, <1>2, NatsFrom
<1> USE DEF S
<1> QED BY <1>3

LEMMA AmountsEquation ==
    ASSUME NEW edits, NEW n \in Nat
    PROVE  \E g : AmountsIs(g, edits, n) /\ Amounts(edits, n) = g[n]
<1>1. \E g : AmountsIs(g, edits, n)
  BY AmountsExists
<1> DEFINE applied == CHOOSE g : AmountsIs(g, edits, n)
<1>2. Amounts(edits, n) = applied[n]
  BY DEF Amounts, AmountsIs, AmountsNext
<1>3. AmountsIs(applied, edits, n)
  BY <1>1
<1> QED BY <1>2, <1>3

\* The devices some edits amount to, and one edit more.
LEMMA AmountsOfNone ==
    ASSUME NEW edits
    PROVE  Amounts(edits, 0) = {}
<1>1. PICK g : AmountsIs(g, edits, 0) /\ Amounts(edits, 0) = g[0]
  BY AmountsEquation
<1> QED BY <1>1 DEF AmountsIs, AmountsNext

\* The edits up to one amount to the same whatever comes after it.
LEMMA AmountsAgree ==
    ASSUME NEW edits, NEW more, NEW g, NEW h, NEW n \in Nat,
           \A i \in 1..n : more[i] = edits[i],
           \A i \in 0..n : g[i] = AmountsNext(edits, g, i),
           \A i \in 0..n : h[i] = AmountsNext(more, h, i)
    PROVE  h[n] = g[n]
<1> DEFINE S == {i \in Nat : i <= n => h[i] = g[i]}
<1>1. 0 \in S
  BY DEF AmountsNext
<1>2. ASSUME NEW i \in Nat, i \in S
      PROVE  i + 1 \in S
  <2>1. SUFFICES ASSUME i + 1 <= n
                 PROVE  h[i + 1] = g[i + 1]
    OBVIOUS
  <2>2. /\ i + 1 \in 0..n /\ i + 1 \in 1..n
        /\ (i + 1) - 1 = i /\ i + 1 # 0 /\ h[i] = g[i]
    BY <1>2, <2>1
  <2>3. h[i + 1] = AmountsNext(more, h, i + 1) /\ g[i + 1] = AmountsNext(edits, g, i + 1)
    BY <2>2
  <2> QED BY <2>2, <2>3 DEF AmountsNext
<1>3. n \in S
  <2> HIDE DEF S
  <2> QED BY <1>1, <1>2, NatsFrom
<1> QED BY <1>3

LEMMA AmountsOfSame ==
    ASSUME NEW edits, NEW more, NEW n \in Nat,
           \A i \in 1..n : more[i] = edits[i]
    PROVE  Amounts(more, n) = Amounts(edits, n)
<1>1. PICK g : AmountsIs(g, edits, n) /\ Amounts(edits, n) = g[n]
  BY AmountsEquation
<1>2. PICK h : AmountsIs(h, more, n) /\ Amounts(more, n) = h[n]
  BY AmountsEquation
<1>3. /\ \A i \in 0..n : g[i] = AmountsNext(edits, g, i)
      /\ \A i \in 0..n : h[i] = AmountsNext(more, h, i)
  BY <1>1, <1>2 DEF AmountsIs
<1>4. h[n] = g[n]
  BY <1>3, AmountsAgree
<1> QED BY <1>1, <1>2, <1>4

LEMMA AmountsOfOneMore ==
    ASSUME NEW edits, NEW more, NEW n \in Nat,
           \A i \in 1..n : more[i] = edits[i]
    PROVE  Amounts(more, n + 1) = Applied(Amounts(edits, n), more[n + 1])
<1>1. PICK g : AmountsIs(g, edits, n) /\ Amounts(edits, n) = g[n]
  BY AmountsEquation
<1>2. PICK h : AmountsIs(h, more, n + 1) /\ Amounts(more, n + 1) = h[n + 1]
  BY AmountsEquation
<1>3. /\ \A i \in 0..n : g[i] = AmountsNext(edits, g, i)
      /\ \A i \in 0..n : h[i] = AmountsNext(more, h, i)
  <2>1. \A i \in 0..n : i \in 0..(n + 1)
    OBVIOUS
  <2> QED BY <1>1, <1>2, <2>1 DEF AmountsIs
<1>4. h[n] = g[n]
  BY <1>3, AmountsAgree
<1>5. n + 1 \in 0..(n + 1) /\ (n + 1) - 1 = n /\ n + 1 # 0
  OBVIOUS
<1>6. h[n + 1] = AmountsNext(more, h, n + 1)
  BY <1>2, <1>5 DEF AmountsIs
<1> QED BY <1>1, <1>2, <1>4, <1>5, <1>6 DEF AmountsNext

-----------------------------------------------------------------------------
(* Type correctness.  What the node, the row or the cache knows of a       *)
(* transaction was built before: that is the strengthening.                *)

KnownAreBuilt ==
    /\ \A t \in Tx : node[t] # "none" => t \in Built
    /\ ToSet(order) \subseteq Built
    /\ \A t \in Tx : t \in cached \/ sends[t] > 0 =>
          t \in Built /\ cell[t].op \in Operations
    /\ \A t \in Built : cell[t].op \in Operations => cell[t].from \in Built

TypeInv == KeyListTypeOK /\ KnownAreBuilt

LEMMA BuiltCells ==
    ASSUME KeyListTypeOK
    PROVE  Built = {t \in Tx : cell[t] \in Cells}
<1>1. Unbuilt \notin Cells
  BY DEF Unbuilt, Cells, Operations
<1>2. \A t \in Tx : cell[t] \in Cells \union {Unbuilt}
  BY DEF KeyListTypeOK
<1> HIDE DEF Cells, Unbuilt
<1> QED BY <1>1, <1>2 DEF Built

LEMMA TypeInit ==
    ASSUME KeyListInit
    PROVE  TypeInv
<1> USE DEF KeyListInit, TxInit
<1>1. TxTypeOK
  <2>1. 0 \in 0..MaxSends /\ 0 \in 0..Cardinality(Tx)
    BY TxAssumption, FS_CardinalityType
  <2> QED BY <2>1 DEF TxTypeOK, NodeStates, TimerIdle
<1>2. Built = {} /\ ToSet(order) = {}
  BY DEF Built, ToSet
<1>3. cell \in [Tx -> Cells \union {Unbuilt}]
  OBVIOUS
<1>4. order \in Seq(Tx) /\ indexed \in 0..Len(order)
  OBVIOUS
<1>5. req \in [Request -> [pc : {"idle", "lock", "create", "unlock", "abort", "build"},
                           op : Operations, device : Device, out : Tx \union {NoTx}]]
  BY KeyListAssumption DEF Idle, Operations
<1>6. \A r \in Request : req[r].pc = "idle"
  BY DEF Idle
<1>7. KeyListTypeOK
  BY <1>1, <1>2, <1>3, <1>4, <1>5, <1>6 DEF KeyListTypeOK, RequestTypeOK
<1> QED BY <1>2, <1>7 DEF TypeInv, KnownAreBuilt

\* How cells change: one is built, or one gets its signer.
LEMMA NewCell ==
    ASSUME KeyListTypeOK, NEW t \in Tx \ Built, NEW c \in Cells,
           cell' = [cell EXCEPT ![t] = c]
    PROVE  /\ cell' \in [Tx -> Cells \union {Unbuilt}]
           /\ Built' = Built \union {t} /\ t \in Tx /\ t \notin Built
           /\ cell'[t] = c /\ \A u \in Built : cell'[u] = cell[u]
           /\ \A u \in Tx : u # t => cell'[u] = cell[u]
<1>1. Unbuilt \notin Cells
  BY DEF Unbuilt, Cells, Operations
<1>2. cell \in [Tx -> Cells \union {Unbuilt}]
  BY DEF KeyListTypeOK
<1> HIDE DEF Cells, Unbuilt
<1>3. cell'[t] = c /\ \A u \in Tx : u # t => cell'[u] = cell[u]
  BY <1>2
<1> QED BY <1>1, <1>2, <1>3 DEF Built

LEMMA SignedCell ==
    ASSUME KeyListTypeOK, NEW t \in Built, NEW d \in Device \union {NotAsked},
           cell' = [cell EXCEPT ![t].signer = d]
    PROVE  /\ cell' \in [Tx -> Cells \union {Unbuilt}]
           /\ Built' = Built /\ cell'[t].signer = d
           /\ \A u \in Tx : u # t => cell'[u] = cell[u]
           /\ \A u \in Built : /\ cell'[u].keys = cell[u].keys
                               /\ cell'[u].from = cell[u].from
                               /\ cell'[u].device = cell[u].device
                               /\ cell'[u].op = cell[u].op
<1>1. Unbuilt \notin Cells
  BY DEF Unbuilt, Cells, Operations
<1>2. cell \in [Tx -> Cells \union {Unbuilt}] /\ cell[t] \in Cells /\ t \in Tx
  BY BuiltCells DEF KeyListTypeOK
<1>3. cell' = [cell EXCEPT ![t] = [cell[t] EXCEPT !.signer = d]]
  OBVIOUS
<1>4. [cell[t] EXCEPT !.signer = d] \in Cells
  BY <1>2 DEF Cells
<1>5. /\ [cell[t] EXCEPT !.signer = d].keys = cell[t].keys
      /\ [cell[t] EXCEPT !.signer = d].from = cell[t].from
      /\ [cell[t] EXCEPT !.signer = d].device = cell[t].device
      /\ [cell[t] EXCEPT !.signer = d].op = cell[t].op
      /\ [cell[t] EXCEPT !.signer = d].signer = d
  BY <1>2 DEF Cells
<1> DEFINE c == [cell[t] EXCEPT !.signer = d]
<1> HIDE DEF Cells, Unbuilt, c
<1>6. cell' = [cell EXCEPT ![t] = c]
  BY <1>3 DEF c
<1>7. cell'[t] = c /\ \A u \in Tx : u # t => cell'[u] = cell[u]
  BY <1>2, <1>6
<1>8. c \in Cells
  BY <1>4 DEF c
<1>9. cell' \in [Tx -> Cells \union {Unbuilt}]
  BY <1>2, <1>6, <1>8
<1>10. Built' = Built
  BY <1>1, <1>2, <1>7, <1>8 DEF Built
<1> QED BY <1>5, <1>7, <1>9, <1>10 DEF c, Built

LEMMA TypeStep ==
    ASSUME TypeInv, [KeyListNext]_keyVars
    PROVE  TypeInv'
<1> USE DEF TypeInv
<1>1. TxTypeOK /\ KeyListTypeOK /\ RequestTypeOK
  BY DEF KeyListTypeOK
<1>2. ASSUME NEW r \in Request, RequestStep(r)
      PROVE  TypeInv'
  <2>1. TxTypeOK' /\ UNCHANGED <<order, indexed, sends>>
    BY <1>1, <1>2 DEF RequestStep, DoAuthorize, LockWithRedis, SendCreate, Unlock,
       BuildUpdate, TxTypeOK, NodeStates, txVars, nodeVars, tableVars, readerVars
  <2>2. ASSUME NEW op \in Operations, NEW d \in Device, DoAuthorize(r, op, d)
        PROVE  TypeInv'
    <3>1. DbOutpoint # NoTx => DbOutpoint \in Built /\ DbOutpoint \in Tx
      BY DEF DbOutpoint, KnownAreBuilt, ToSet, KeyListTypeOK, Built
    <3>2. UNCHANGED <<node, cell, cached, locked, Built>>
      BY <2>2 DEF DoAuthorize, txVars, nodeVars, Built
    <3>3. RequestTypeOK'
      BY <1>1, <2>2, <3>1, <3>2 DEF DoAuthorize, RequestTypeOK
    <3> QED BY <2>1, <3>2, <3>3 DEF KeyListTypeOK, KnownAreBuilt
  <2>3. CASE LockWithRedis(r) \/ Unlock(r)
    <3>1. UNCHANGED <<node, cell, cached, Built>> /\ locked' \in BOOLEAN
      BY <2>3 DEF LockWithRedis, Unlock, txVars, nodeVars, Built, KeyListTypeOK
    <3>2. RequestTypeOK'
      <4>1. \/ Finish(r)
            \/ \E pc \in {"create", "build"} :
                 Goto(r, pc) /\ (pc = "build" => req[r].pc = "unlock")
        BY <2>3 DEF LockWithRedis, Unlock
      <4>2. CASE Finish(r)
        BY <1>1, <3>1, <4>2, KeyListAssumption DEF Finish, Idle, RequestTypeOK, Operations
      <4>3. ASSUME NEW pc \in {"create", "build"}, Goto(r, pc),
                   pc = "build" => req[r].pc = "unlock"
            PROVE  RequestTypeOK'
        BY <1>1, <3>1, <4>3 DEF Goto, RequestTypeOK
      <4> QED BY <4>1, <4>2, <4>3
    <3> QED BY <2>1, <3>1, <3>2 DEF KeyListTypeOK, KnownAreBuilt
  <2>4. CASE SendCreate(r)
    <3>1. UNCHANGED <<cached, locked>>
      BY <2>4 DEF SendCreate
    <3>2. CASE UNCHANGED <<cell, node>> /\ Goto(r, "abort")
      <4>1. Built' = Built
        BY <3>2 DEF Built
      <4>2. RequestTypeOK'
        BY <1>1, <3>2, <4>1 DEF Goto, RequestTypeOK
      <4> QED BY <2>1, <3>1, <3>2, <4>1, <4>2 DEF KeyListTypeOK, KnownAreBuilt
    <3> DEFINE c == [keys |-> <<Master>>, from |-> NoTx, device |-> Master,
                     op |-> "create", signer |-> NotAsked]
    <3>3. ASSUME NEW t \in Tx \ Built,
                 cell' = [cell EXCEPT ![t] = c],
                 node' = [node EXCEPT ![t] = "pool"],
                 req' = [req EXCEPT ![r].pc = "unlock", ![r].out = t]
          PROVE  TypeInv'
      <4>1. c \in Cells /\ c.op \notin Operations
        BY KeyListAssumption DEF Cells, Operations
      <4> HIDE DEF c
      <4>2. /\ cell' \in [Tx -> Cells \union {Unbuilt}]
            /\ Built' = Built \union {t} /\ t \in Tx /\ t \notin Built
            /\ cell'[t] = c /\ \A u \in Built : cell'[u] = cell[u]
        BY <1>1, <3>3, <4>1, NewCell
      <4>3. RequestTypeOK'
        <5>1. req' = [req EXCEPT ![r] = [req[r] EXCEPT !.pc = "unlock", !.out = t]]
          BY <1>1, <3>3 DEF RequestTypeOK
        <5> DEFINE q == [req[r] EXCEPT !.pc = "unlock", !.out = t]
        <5>2. /\ q.pc = "unlock" /\ q.out = t
              /\ q \in [pc : {"unlock"}, op : Operations, device : Device, out : Tx]
          BY <1>1, <4>2 DEF RequestTypeOK
        <5> HIDE DEF q
        <5>3. req' = [req EXCEPT ![r] = q]
          BY <5>1 DEF q
        <5> QED BY <1>1, <4>2, <5>2, <5>3 DEF RequestTypeOK
      <4>4. KnownAreBuilt'
        BY <1>1, <2>1, <3>1, <3>3, <4>1, <4>2 DEF KnownAreBuilt, TxTypeOK
      <4> QED BY <2>1, <3>1, <4>2, <4>3, <4>4 DEF KeyListTypeOK
    <3> QED BY <2>4, <3>2, <3>3 DEF SendCreate
  <2>5. CASE BuildUpdate(r)
    <3> DEFINE from == req[r].out
               c == [keys |-> Edited(cell[from].keys, req[r].op, req[r].device),
                     from |-> from, device |-> req[r].device, op |-> req[r].op,
                     signer |-> NotAsked]
    <3>1. /\ UNCHANGED <<node, locked>> /\ Finish(r) /\ req[r].pc = "build"
          /\ \/ UNCHANGED <<cell, cached>>
             \/ \E t \in Tx \ Built : /\ cell' = [cell EXCEPT ![t] = c]
                                      /\ cached' = cached \union {t}
      BY <2>5 DEF BuildUpdate, txVars, nodeVars
    <3>2. /\ from \in Built /\ from \in Tx /\ cell[from] \in Cells
          /\ req[r].op \in Operations /\ req[r].device \in Device
      BY <1>1, <3>1, BuiltCells DEF RequestTypeOK
    <3>3. RequestTypeOK' \/ ~(Built \subseteq Built')
      BY <1>1, <3>1, KeyListAssumption DEF Finish, Idle, RequestTypeOK, Operations
    <3>4. CASE UNCHANGED <<cell, cached>>
      <4>1. Built' = Built
        BY <3>4 DEF Built
      <4> QED BY <2>1, <3>1, <3>3, <3>4, <4>1 DEF KeyListTypeOK, KnownAreBuilt
    <3>5. ASSUME NEW t \in Tx \ Built,
                 cell' = [cell EXCEPT ![t] = c], cached' = cached \union {t}
          PROVE  TypeInv'
      <4>1. cell[from].keys \in Seq(Device)
        BY <3>2 DEF Cells
      <4>2. Edited(cell[from].keys, req[r].op, req[r].device) \in Seq(Device)
        BY <3>2, <4>1, EditedIsList
      <4>3. c \in Cells /\ c.op \in Operations /\ c.from = from
        BY <3>2, <4>2, KeyListAssumption DEF Cells
      <4> HIDE DEF c, from
      <4>4. /\ cell' \in [Tx -> Cells \union {Unbuilt}]
            /\ Built' = Built \union {t} /\ t \in Tx /\ t \notin Built
            /\ cell'[t] = c /\ \A u \in Built : cell'[u] = cell[u]
        BY <1>1, <3>5, <4>3, NewCell
      <4>5. KnownAreBuilt'
        BY <1>1, <2>1, <3>1, <3>2, <3>5, <4>3, <4>4 DEF KnownAreBuilt, TxTypeOK
      <4> QED BY <2>1, <3>1, <3>3, <3>5, <4>4, <4>5 DEF KeyListTypeOK
    <3> QED BY <3>1, <3>4, <3>5
  <2> QED BY <1>2, <2>2, <2>3, <2>4, <2>5 DEF RequestStep
<1>3. ASSUME NEW t \in Tx, NEW d \in Device \union {NotAsked},
            DoTransactionSend(t, d)
      PROVE  TypeInv'
  <2>1. TxTypeOK'
    BY <1>1, <1>3, TxAssumption DEF DoTransactionSend, Submit, TxTypeOK, NodeStates,
       tableVars, readerVars
  <2>2. UNCHANGED <<order, indexed, cached, locked, req>> /\ t \in cached
    BY <1>3 DEF DoTransactionSend
  <2>3. t \in Built /\ cell' = [cell EXCEPT ![t].signer = d]
    BY <1>3 DEF DoTransactionSend, KeyListTypeOK
  <2>4. /\ cell' \in [Tx -> Cells \union {Unbuilt}]
        /\ Built' = Built
        /\ \A u \in Built : cell'[u].op = cell[u].op /\ cell'[u].from = cell[u].from
    BY <1>1, <2>3, SignedCell
  <2>5. /\ \A u \in Tx : u # t => node'[u] = node[u] /\ sends'[u] = sends[u]
    BY <1>1, <1>3 DEF DoTransactionSend, Submit, TxTypeOK
  <2>6. KnownAreBuilt'
    BY <2>2, <2>3, <2>4, <2>5 DEF KnownAreBuilt
  <2>7. RequestTypeOK'
    BY <1>1, <2>2, <2>4 DEF RequestTypeOK
  <2> QED BY <2>1, <2>2, <2>4, <2>6, <2>7 DEF KeyListTypeOK
<1>4. ASSUME NEW t \in Tx, CommitCell(t)
      PROVE  TypeInv'
  <2>1. TxTypeOK'
    BY <1>1, <1>4 DEF CommitCell, ChainMoves, TxTypeOK, tableVars, readerVars
  <2>2. UNCHANGED <<cell, indexed, cached, locked, req, sends, Built>>
    BY <1>4 DEF CommitCell, ChainMoves, Built
  <2>3. /\ node[t] = "pool" /\ order' = Append(order, t)
        /\ \A u \in Tx : node'[u] # "none" => u = t \/ node[u] # "none"
    BY <1>1, <1>4 DEF CommitCell, TxTypeOK
  <2>4. order' \in Seq(Tx) /\ indexed \in 0..Len(order') /\ ToSet(order') = ToSet(order) \union {t}
    BY <2>3 DEF KeyListTypeOK, ToSet
  <2>5. KnownAreBuilt'
    BY <2>2, <2>3, <2>4 DEF KnownAreBuilt
  <2>6. RequestTypeOK'
    BY <1>1, <2>2 DEF RequestTypeOK
  <2> QED BY <2>1, <2>2, <2>4, <2>5, <2>6 DEF KeyListTypeOK
<1>5. ASSUME NEW t \in Tx, RecordSend(t) \/ DropCell(t) \/ CacheExpires(t)
      PROVE  TypeInv'
  <2>1. TxTypeOK'
    BY <1>1, <1>5 DEF RecordSend, CreatePending, RecordLost, DropCell, CacheExpires,
       ChainMoves, TxTypeOK, txVars, nodeVars, tableVars, readerVars
  <2>2. UNCHANGED <<cell, order, indexed, locked, req, sends, Built>> /\ cached' \subseteq cached
    BY <1>5 DEF RecordSend, CreatePending, RecordLost, DropCell, CacheExpires,
       ChainMoves, txVars, nodeVars, tableVars, readerVars, listVars, Built
  <2>3. \A u \in Tx : node'[u] # "none" => node[u] # "none"
    BY <1>1, <1>5 DEF RecordSend, CreatePending, RecordLost, DropCell, CacheExpires,
       TxTypeOK, txVars, nodeVars
  <2>4. RequestTypeOK'
    BY <1>1, <2>2 DEF RequestTypeOK
  <2> QED BY <2>1, <2>2, <2>3, <2>4 DEF KeyListTypeOK, KnownAreBuilt
<1>6. CASE Index \/ LockExpires \/ ApiCrash \/ UNCHANGED keyVars
  <2>1. TxTypeOK'
    BY <1>1, <1>6 DEF Index, LockExpires, ApiCrash, keyVars,
       TxTypeOK, txVars, nodeVars, tableVars, readerVars
  <2>2. UNCHANGED <<node, cell, order, cached, sends, Built>> /\ locked' \in BOOLEAN
    BY <1>6 DEF Index, LockExpires, ApiCrash, keyVars, listVars,
       txVars, nodeVars, Built, KeyListTypeOK
  <2>3. indexed' \in 0..Len(order)
    BY <1>6 DEF Index, LockExpires, ApiCrash, keyVars, listVars, KeyListTypeOK
  <2>4. RequestTypeOK'
    BY <1>1, <1>6, <2>2, KeyListAssumption DEF Index, LockExpires, ApiCrash, keyVars,
       listVars, RequestTypeOK, Idle, Operations
  <2> QED BY <2>1, <2>2, <2>3, <2>4 DEF KeyListTypeOK, KnownAreBuilt
<1> QED BY <1>2, <1>3, <1>4, <1>5, <1>6 DEF KeyListNext, CellStep

\* Every request, cell and row has its type; a request that goes on to build
\* an update (doAuthorize) goes by a cell that exists.
THEOREM KeyListTypeCorrect == KeyListSpec => []KeyListTypeOK
<1>1. KeyListInit => TypeInv
  BY TypeInit
<1>2. TypeInv /\ [KeyListNext]_keyVars => TypeInv'
  BY TypeStep
<1>3. TypeInv => KeyListTypeOK
  BY DEF TypeInv
<1> QED BY <1>1, <1>2, <1>3, PTL DEF KeyListSpec

LEMMA TypeHolds == KeyListSpec => []TypeInv
<1>1. KeyListInit => TypeInv
  BY TypeInit
<1>2. TypeInv /\ [KeyListNext]_keyVars => TypeInv'
  BY TypeStep
<1> QED BY <1>1, <1>2, PTL DEF KeyListSpec

-----------------------------------------------------------------------------
(* What a step does to the cells and to the node.                          *)

Creation == [keys |-> <<Master>>, from |-> NoTx, device |-> Master,
             op |-> "create", signer |-> NotAsked]
Update(from, op, d) == [keys |-> Edited(cell[from].keys, op, d), from |-> from,
                        device |-> d, op |-> op, signer |-> NotAsked]

Made(t) ==
    /\ cell' = [cell EXCEPT ![t] = Creation]
    /\ node' = [node EXCEPT ![t] = "pool"]
    /\ UNCHANGED <<sends, order, indexed>>

Updated(t) ==
    /\ \E from \in Built, op \in Operations, d \in Device :
          /\ MayEdit(cell[from].keys, op, d)
          /\ cell' = [cell EXCEPT ![t] = Update(from, op, d)]
    /\ UNCHANGED <<node, sends, order, indexed>>

LEMMA StepKinds ==
    ASSUME TypeInv, [KeyListNext]_keyVars
    PROVE  \/ \E t \in Tx \ Built : Made(t) \/ Updated(t)
           \/ \E t \in cached, d \in Device \union {NotAsked} : DoTransactionSend(t, d)
           \/ \E t \in Tx : CommitCell(t) \/ DropCell(t)
           \/ UNCHANGED <<cell, node, sends, order>>
<1>1. CASE UNCHANGED keyVars
  BY <1>1 DEF keyVars, txVars, nodeVars, listVars
<1>2. ASSUME NEW r \in Request, RequestStep(r)
      PROVE  \/ \E t \in Tx \ Built : Made(t) \/ Updated(t)
             \/ UNCHANGED <<cell, node, sends, order>>
  <2>1. CASE SendCreate(r)
    BY <2>1 DEF SendCreate, Made, Creation
  <2>2. CASE BuildUpdate(r)
    <3>1. req[r].pc = "build"
      BY <2>2 DEF BuildUpdate
    <3>2. req[r].out \in Built /\ req[r].op \in Operations /\ req[r].device \in Device
      BY <3>1 DEF TypeInv, KeyListTypeOK, RequestTypeOK
    <3>3. /\ UNCHANGED <<node, sends, order, indexed>>
          /\ \/ UNCHANGED cell
             \/ /\ MayEdit(cell[req[r].out].keys, req[r].op, req[r].device)
                /\ \E t \in Tx \ Built :
                     cell' = [cell EXCEPT ![t] =
                                Update(req[r].out, req[r].op, req[r].device)]
      BY <2>2 DEF BuildUpdate, Update, txVars, nodeVars
    <3> QED BY <3>2, <3>3 DEF Updated
  <2>3. ASSUME NEW op \in Operations, NEW d \in Device, DoAuthorize(r, op, d)
        PROVE  UNCHANGED <<cell, node, sends, order>>
    BY <2>3 DEF DoAuthorize, txVars, nodeVars
  <2>4. CASE LockWithRedis(r) \/ Unlock(r)
    BY <2>4 DEF LockWithRedis, Unlock, txVars, nodeVars
  <2> QED BY <1>2, <2>1, <2>2, <2>3, <2>4 DEF RequestStep
<1>3. ASSUME NEW t \in Tx, RecordSend(t) \/ CacheExpires(t)
      PROVE  UNCHANGED <<cell, node, sends, order>>
  BY <1>3 DEF RecordSend, CreatePending, RecordLost, CacheExpires, listVars, txVars, nodeVars
<1>4. ASSUME NEW t \in Tx, NEW d \in Device \union {NotAsked},
            DoTransactionSend(t, d)
      PROVE  t \in cached
  BY <1>4 DEF DoTransactionSend
<1>5. CASE Index \/ LockExpires \/ ApiCrash
  BY <1>5 DEF Index, LockExpires, ApiCrash, txVars, nodeVars
<1> QED BY <1>1, <1>2, <1>3, <1>4, <1>5 DEF KeyListNext, CellStep

LEMMA CreationIsCell == Creation \in Cells
BY KeyListAssumption DEF Creation, Cells, Operations

LEMMA UpdateIsCell ==
    ASSUME TypeInv, NEW from \in Built, NEW op \in Operations, NEW d \in Device
    PROVE  /\ Update(from, op, d) \in Cells
           /\ cell[from].keys \in Seq(Device)
           /\ Update(from, op, d).keys = Edited(cell[from].keys, op, d)
           /\ Update(from, op, d).from = from
           /\ Update(from, op, d).op = op /\ Update(from, op, d).device = d
<1>1. cell[from].keys \in Seq(Device) /\ from \in Tx
  BY BuiltCells DEF TypeInv, Cells
<1>2. Edited(cell[from].keys, op, d) \in Seq(Device)
  BY <1>1, EditedIsList
<1> QED BY <1>1, <1>2, KeyListAssumption DEF Update, Cells

-----------------------------------------------------------------------------
(* Lists stay lists.                                                       *)

LEMMA WellFormedStep ==
    ASSUME TypeInv, KeysWellFormed, [KeyListNext]_keyVars
    PROVE  KeysWellFormed'
<1>1. KeyListTypeOK
  BY DEF TypeInv
<1>2. ASSUME NEW t \in Tx \ Built, NEW c \in Cells, cell' = [cell EXCEPT ![t] = c],
             Len(c.keys) <= MaxKeys, IsInjective(c.keys)
      PROVE  KeysWellFormed'
  <2>1. /\ Built' = Built \union {t} /\ cell'[t] = c
        /\ \A u \in Built : cell'[u] = cell[u]
    BY <1>1, <1>2, NewCell
  <2> QED BY <1>2, <2>1 DEF KeysWellFormed
<1>3. ASSUME NEW t \in Tx \ Built, Made(t)
      PROVE  KeysWellFormed'
  <2>1. Len(Creation.keys) <= MaxKeys /\ IsInjective(Creation.keys)
    BY KeyListAssumption DEF Creation, IsInjective
  <2> QED BY <1>2, <1>3, <2>1, CreationIsCell DEF Made
<1>4. ASSUME NEW t \in Tx \ Built, Updated(t)
      PROVE  KeysWellFormed'
  <2>1. PICK from \in Built, op \in Operations, d \in Device :
          /\ MayEdit(cell[from].keys, op, d)
          /\ cell' = [cell EXCEPT ![t] = Update(from, op, d)]
    BY <1>4 DEF Updated
  <2>2. /\ Len(Edited(cell[from].keys, op, d)) <= MaxKeys
        /\ IsInjective(Edited(cell[from].keys, op, d))
    BY <2>1, UpdateIsCell, EditedKeeps DEF KeysWellFormed
  <2>3. /\ Update(from, op, d) \in Cells
        /\ Update(from, op, d).keys = Edited(cell[from].keys, op, d)
    BY UpdateIsCell
  <2> QED BY <1>2, <2>1, <2>2, <2>3
<1>5. ASSUME NEW t \in cached, NEW d \in Device \union {NotAsked},
            DoTransactionSend(t, d)
      PROVE  KeysWellFormed'
  <2>1. t \in Built /\ cell' = [cell EXCEPT ![t].signer = d]
    BY <1>1, <1>5 DEF DoTransactionSend, KeyListTypeOK
  <2> QED BY <1>1, <2>1, SignedCell DEF KeysWellFormed
<1>6. CASE UNCHANGED cell
  BY <1>6 DEF KeysWellFormed, Built
<1> QED BY <1>3, <1>4, <1>5, <1>6, StepKinds DEF CommitCell, DropCell, listVars

\* However requests interleave, and however stale the list an update was built
\* from (buildUpdateAuthorizeTx), no list outgrows its bound or names a device
\* twice.
THEOREM ListsWellFormed == KeyListSpec => []KeysWellFormed
<1>1. KeyListInit => KeysWellFormed
  BY DEF KeyListInit, KeysWellFormed, Built
<1>2. TypeInv /\ KeysWellFormed /\ [KeyListNext]_keyVars => KeysWellFormed'
  BY WellFormedStep
<1> QED BY <1>1, <1>2, TypeHolds, PTL DEF KeyListSpec

-----------------------------------------------------------------------------
(* Signers: a cell once built keeps its keys, so the list a signer was      *)
(* found on is still the one the transaction spends.                        *)

SignerOnSpent ==
    \A t \in Built : cell[t].signer # NotAsked =>
        cell[t].op \in Operations /\ cell[t].signer \in Devices(cell[t].from)

LEMMA SignerStep ==
    ASSUME TypeInv, SignerOnSpent, [KeyListNext]_keyVars
    PROVE  SignerOnSpent'
<1>1. KeyListTypeOK /\ TxTypeOK /\ KnownAreBuilt
  BY DEF TypeInv, KeyListTypeOK
<1>2. \A t \in Built : cell[t].signer # NotAsked =>
         /\ cell[t].op \in Operations /\ cell[t].from \in Built
         /\ cell[t].signer \in Devices(cell[t].from)
  BY <1>1 DEF SignerOnSpent, KnownAreBuilt
<1>3. ASSUME NEW t \in Tx \ Built, NEW c \in Cells, cell' = [cell EXCEPT ![t] = c],
             c.signer = NotAsked
      PROVE  SignerOnSpent'
  <2>1. /\ Built' = Built \union {t} /\ cell'[t] = c
        /\ \A u \in Built : cell'[u] = cell[u]
    BY <1>1, <1>3, NewCell
  <2> QED BY <1>2, <1>3, <2>1 DEF SignerOnSpent, Devices
<1>4. ASSUME NEW t \in Tx \ Built, Made(t) \/ Updated(t)
      PROVE  SignerOnSpent'
  <2>1. Creation.signer = NotAsked
    BY DEF Creation
  <2>2. \A from, op, d : Update(from, op, d).signer = NotAsked
    BY DEF Update
  <2> QED BY <1>3, <1>4, <2>1, <2>2, CreationIsCell, UpdateIsCell DEF Made, Updated
<1>5. ASSUME NEW t \in cached, NEW d \in Device \union {NotAsked},
             DoTransactionSend(t, d)
      PROVE  SignerOnSpent'
  <2>1. t \in Built /\ t \in Tx /\ cell' = [cell EXCEPT ![t].signer = d]
    BY <1>1, <1>5 DEF DoTransactionSend, KeyListTypeOK, Built
  <2>2. /\ cell[t].op \in Operations /\ cell[t].from \in Built
        /\ d # NotAsked => d \in Devices(cell[t].from)
    BY <1>1, <1>5, <2>1 DEF DoTransactionSend, MaySign, KnownAreBuilt
  <2>3. /\ Built' = Built /\ cell'[t].signer = d
        /\ \A u \in Tx : u # t => cell'[u] = cell[u]
        /\ \A u \in Built : /\ cell'[u].keys = cell[u].keys
                            /\ cell'[u].from = cell[u].from
                            /\ cell'[u].op = cell[u].op
    BY <1>1, <2>1, SignedCell
  <2>4. ASSUME NEW u \in Built, cell'[u].signer # NotAsked
        PROVE  (cell[u].op \in Operations /\ cell[u].signer \in Devices(cell[u].from))'
    <3>1. u \in Tx
      BY DEF Built
    <3>2. cell[u].op \in Operations /\ cell[u].from \in Built
          /\ cell'[u].signer \in Devices(cell[u].from)
      BY <1>2, <2>2, <2>3, <2>4, <3>1
    <3> QED BY <2>3, <3>2 DEF Devices
  <2> QED BY <2>3, <2>4 DEF SignerOnSpent
<1>6. CASE UNCHANGED cell
  BY <1>6 DEF SignerOnSpent, Devices, Built
<1> QED BY <1>4, <1>5, <1>6, StepKinds DEF CommitCell, DropCell, listVars

LEMMA SignersHold == KeyListSpec => []SignerOnSpent
<1>1. KeyListInit => SignerOnSpent
  BY DEF KeyListInit, SignerOnSpent, Built
<1>2. TypeInv /\ SignerOnSpent /\ [KeyListNext]_keyVars => SignerOnSpent'
  BY SignerStep
<1> QED BY <1>1, <1>2, TypeHolds, PTL DEF KeyListSpec

-----------------------------------------------------------------------------
(* No edit is lost: each update spends the cell its list was made from, a   *)
(* cell is spent once, so the committed updates of one list form a chain.   *)

\* What a cell holds is what its operation makes of the cell it spends.
CellsFollow ==
    \A t \in Built :
        \/ cell[t].op = "create" /\ cell[t].from = NoTx /\ cell[t].device = Master
              /\ Devices(t) = {Master}
        \/ cell[t].op \in Operations
              /\ Devices(t) = Applied(Devices(cell[t].from), cell[t])

\* The node takes a transaction only while the cell it spends is there and
\* unspent, and drops none that another one spends.
SpentOnce ==
    /\ \A t \in Built : IsKnown(t) /\ cell[t].op \in Operations => IsKnown(cell[t].from)
    /\ \A t, u \in Built :
          IsKnown(t) /\ IsKnown(u) /\ cell[t].op \in Operations /\ cell[t].from = cell[u].from
              => t = u

Before(i) == {order[j] : j \in 1..(i - 1)}

OrderRight ==
    /\ \A t \in Tx : node[t] = "committed" <=> t \in ToSet(order)
    /\ \A i, j \in DOMAIN order : order[i] = order[j] => i = j
    /\ \A i \in DOMAIN order : cell[order[i]].op \in Operations => cell[order[i]].from \in Before(i)

OneList == \A i \in 2..Len(order) : cell[order[i]].op \in Operations

OneChain ==
    OneList /\ order # <<>> =>
        /\ \A i \in 2..Len(order) : cell[order[i]].from = order[i - 1]
        /\ \A i \in 1..Len(order) : Devices(order[i]) = AuthorizedAfter(i)

EditsInv == CellsFollow /\ SpentOnce /\ OrderRight /\ OneChain

LEMMA EditsInit ==
    ASSUME KeyListInit
    PROVE  EditsInv
<1>1. Built = {} /\ order = <<>> /\ ToSet(order) = {} /\ DOMAIN order = {}
  BY DEF KeyListInit, Built, ToSet
<1>2. \A t \in Tx : node[t] # "committed"
  BY DEF KeyListInit, TxInit
<1> QED BY <1>1, <1>2 DEF EditsInv, CellsFollow, SpentOnce, OrderRight, OneChain

LEMMA CellsFollowStep ==
    ASSUME TypeInv, KeysWellFormed, CellsFollow, [KeyListNext]_keyVars
    PROVE  CellsFollow'
<1>1. KeyListTypeOK /\ TxTypeOK /\ KnownAreBuilt
  BY DEF TypeInv, KeyListTypeOK
<1>2. \A t \in Built : cell[t].op \in Operations => cell[t].from \in Built
  BY <1>1 DEF KnownAreBuilt
<1>3. ASSUME NEW t \in Tx \ Built, Made(t)
      PROVE  CellsFollow'
  <2>1. /\ Built' = Built \union {t} /\ cell'[t] = Creation
        /\ \A u \in Built : cell'[u] = cell[u]
    BY <1>1, <1>3, NewCell, CreationIsCell DEF Made
  <2>2. /\ Creation.op = "create" /\ Creation.from = NoTx /\ Creation.device = Master
        /\ ToSet(Creation.keys) = {Master}
    BY DEF Creation, ToSet
  <2> QED BY <1>2, <2>1, <2>2 DEF CellsFollow, Devices
<1>4. ASSUME NEW t \in Tx \ Built, Updated(t)
      PROVE  CellsFollow'
  <2>1. PICK from \in Built, op \in Operations, d \in Device :
          /\ MayEdit(cell[from].keys, op, d)
          /\ cell' = [cell EXCEPT ![t] = Update(from, op, d)]
    BY <1>4 DEF Updated
  <2> DEFINE c == Update(from, op, d)
  <2>2. /\ c \in Cells /\ c.keys = Edited(cell[from].keys, op, d)
        /\ c.from = from /\ c.op = op /\ c.device = d
        /\ cell[from].keys \in Seq(Device)
    BY UpdateIsCell
  <2>3. ToSet(c.keys) = Applied(Devices(from), c)
    <3> DEFINE keys == cell[from].keys
    <3>1. /\ keys \in Seq(Device) /\ Len(keys) <= MaxKeys /\ IsInjective(keys)
          /\ MayEdit(keys, op, d)
      BY <2>1, <2>2 DEF KeysWellFormed
    <3> HIDE DEF keys
    <3>2. ToSet(Edited(keys, op, d)) = IF op = "delete" THEN ToSet(keys) \ {d}
                                                      ELSE ToSet(keys) \union {d}
      BY <3>1, EditedKeeps
    <3> QED BY <2>2, <3>2, Zenon DEF Applied, Devices, keys
  <2> HIDE DEF c
  <2>4. /\ Built' = Built \union {t} /\ cell'[t] = c
        /\ \A u \in Built : cell'[u] = cell[u]
    BY <1>1, <2>1, <2>2, NewCell DEF c
  <2> QED BY <1>2, <2>2, <2>3, <2>4 DEF CellsFollow, Devices
<1>5. ASSUME NEW t \in cached, NEW d \in Device \union {NotAsked},
            DoTransactionSend(t, d)
      PROVE  CellsFollow'
  <2>1. t \in Built /\ cell' = [cell EXCEPT ![t].signer = d]
    BY <1>1, <1>5 DEF DoTransactionSend, KeyListTypeOK
  <2>2. /\ Built' = Built
        /\ \A u \in Built : /\ cell'[u].keys = cell[u].keys
                            /\ cell'[u].from = cell[u].from
                            /\ cell'[u].device = cell[u].device
                            /\ cell'[u].op = cell[u].op
    BY <1>1, <2>1, SignedCell
  <2>3. \A u \in Built : \A S : Applied(S, cell'[u]) = Applied(S, cell[u])
    BY <2>2 DEF Applied
  <2> HIDE DEF Applied
  <2>4. \A u \in Built : cell[u].op \in Operations =>
           ToSet(cell'[cell'[u].from].keys) = ToSet(cell[cell[u].from].keys)
    BY <1>2, <2>2
  <2> QED BY <2>2, <2>3, <2>4 DEF CellsFollow, Devices
<1>6. CASE UNCHANGED cell
  BY <1>6 DEF CellsFollow, Devices, Built
<1> QED BY <1>3, <1>4, <1>5, <1>6, StepKinds DEF CommitCell, DropCell, listVars

LEMMA SpentOnceStep ==
    ASSUME TypeInv, CellsFollow, SpentOnce, [KeyListNext]_keyVars
    PROVE  SpentOnce'
<1>1. KeyListTypeOK /\ TxTypeOK /\ KnownAreBuilt
  BY DEF TypeInv, KeyListTypeOK
<1>2. /\ \A t \in Built : cell[t].op \in Operations => cell[t].from \in Built
      /\ \A t \in Tx : IsKnown(t) => t \in Built
      /\ Built \subseteq Tx /\ NoTx \notin Tx
  BY <1>1, KeyListAssumption DEF KnownAreBuilt, IsKnown, Built
<1>3. ASSUME NEW t \in Tx \ Built, Made(t)
      PROVE  SpentOnce'
  <2>1. /\ Built' = Built \union {t} /\ cell'[t] = Creation
        /\ \A u \in Built : cell'[u] = cell[u]
    BY <1>1, <1>3, NewCell, CreationIsCell DEF Made
  <2>2. Creation.op \notin Operations /\ Creation.from = NoTx
    BY DEF Creation, Operations
  <2>3. \A u \in Built : IsKnown(u)' = IsKnown(u)
    BY <1>1, <1>3 DEF Made, IsKnown, TxTypeOK, Built
  <2>4. \A u \in Built : cell[u].op \in Operations => cell[u].from \in Built /\ cell[u].from # NoTx
    BY <1>2
  <2> HIDE DEF IsKnown
  <2> QED BY <2>1, <2>2, <2>3, <2>4 DEF SpentOnce
<1>4. ASSUME NEW t \in Tx \ Built, Updated(t)
      PROVE  SpentOnce'
  <2>1. PICK from \in Built, op \in Operations, d \in Device :
          cell' = [cell EXCEPT ![t] = Update(from, op, d)]
    BY <1>4 DEF Updated
  <2>2. /\ Built' = Built \union {t}
        /\ \A u \in Built : cell'[u] = cell[u]
    BY <1>1, <2>1, NewCell, UpdateIsCell
  <2>3. \A u \in Tx : IsKnown(u)' = IsKnown(u)
    BY <1>4 DEF Updated, IsKnown
  <2> HIDE DEF IsKnown
  <2>4. ~IsKnown(t)'
    BY <1>2, <2>3
  <2> QED BY <1>2, <2>2, <2>3, <2>4 DEF SpentOnce
<1>5. ASSUME NEW t \in cached, NEW d \in Device \union {NotAsked},
            DoTransactionSend(t, d)
      PROVE  SpentOnce'
  <2>1. t \in Built /\ cell' = [cell EXCEPT ![t].signer = d]
    BY <1>1, <1>5 DEF DoTransactionSend, KeyListTypeOK
  <2>2. /\ Built' = Built
        /\ \A u \in Built : cell'[u].from = cell[u].from /\ cell'[u].op = cell[u].op
    BY <1>1, <2>1, SignedCell
  <2>3. /\ \A u \in Tx : u # t => IsKnown(u)' = IsKnown(u)
        /\ ~IsKnown(t)
        /\ IsKnown(cell[t].from) /\ ~\E u \in Built : cell[u].from = cell[t].from /\ IsKnown(u)
    BY <1>1, <1>5 DEF DoTransactionSend, Submit, IsKnown, IsLive, TxTypeOK
  <2> HIDE DEF IsKnown
  <2>4. \A u \in Built : u # t /\ IsKnown(u)' /\ cell[u].op \in Operations =>
           IsKnown(cell[u].from) /\ cell[u].from \in Built
    BY <1>2, <2>3 DEF SpentOnce
  <2>5. \A u \in Built : IsKnown(u)' /\ cell[u].op \in Operations => IsKnown(cell[u].from)'
    BY <1>1, <1>2, <2>1, <2>3, <2>4 DEF KnownAreBuilt
  <2> QED BY <1>2, <2>2, <2>3, <2>5 DEF SpentOnce
<1>6. ASSUME NEW t \in Tx, CommitCell(t)
      PROVE  SpentOnce'
  <2>1. \A u \in Tx : IsKnown(u)' = IsKnown(u)
    BY <1>1, <1>6 DEF CommitCell, IsKnown, TxTypeOK
  <2>2. UNCHANGED cell /\ Built' = Built
    BY <1>6 DEF CommitCell, Built
  <2> HIDE DEF IsKnown
  <2> QED BY <1>2, <2>1, <2>2 DEF SpentOnce
<1>7. ASSUME NEW t \in Tx, DropCell(t)
      PROVE  SpentOnce'
  <2>1. /\ \A u \in Tx : u # t => IsKnown(u)' = IsKnown(u)
        /\ ~IsKnown(t)' /\ ~\E u \in Built : cell[u].from = t /\ IsKnown(u)
    BY <1>1, <1>7 DEF DropCell, IsKnown, IsLive, TxTypeOK
  <2>2. UNCHANGED cell /\ Built' = Built
    BY <1>7 DEF DropCell, Built, listVars
  <2> HIDE DEF IsKnown
  <2> QED BY <1>2, <2>1, <2>2 DEF SpentOnce
<1>8. CASE UNCHANGED <<cell, node>>
  BY <1>8 DEF SpentOnce, IsKnown, Built
<1> QED BY <1>3, <1>4, <1>5, <1>6, <1>7, <1>8, StepKinds

\* What is on the chain stays as it is: its cells, and the order.
LEMMA OrderStays ==
    ASSUME TypeInv, OrderRight, [KeyListNext]_keyVars, ~\E t \in Tx : CommitCell(t)
    PROVE  /\ order' = order
           /\ \A t \in Tx : node'[t] = "committed" <=> node[t] = "committed"
           /\ \A i \in DOMAIN order : cell'[order[i]] = cell[order[i]]
<1>1. KeyListTypeOK /\ TxTypeOK /\ KnownAreBuilt
  BY DEF TypeInv, KeyListTypeOK
<1>2. \A i \in DOMAIN order : /\ order[i] \in Built /\ order[i] \in Tx
                              /\ node[order[i]] = "committed"
  BY <1>1 DEF KnownAreBuilt, OrderRight, ToSet, Built
<1>3. ASSUME NEW t \in Tx \ Built, Made(t)
      PROVE  /\ order' = order
             /\ \A u \in Tx : node'[u] = "committed" <=> node[u] = "committed"
             /\ \A i \in DOMAIN order : cell'[order[i]] = cell[order[i]]
  <2>1. \A u \in Built : cell'[u] = cell[u]
    BY <1>1, <1>3, NewCell, CreationIsCell DEF Made
  <2> QED BY <1>1, <1>2, <1>3, <2>1 DEF Made, TxTypeOK, KnownAreBuilt
<1>4. ASSUME NEW t \in Tx \ Built, Updated(t)
      PROVE  /\ order' = order
             /\ \A u \in Tx : node'[u] = "committed" <=> node[u] = "committed"
             /\ \A i \in DOMAIN order : cell'[order[i]] = cell[order[i]]
  <2>1. \A u \in Built : cell'[u] = cell[u]
    BY <1>1, <1>4, NewCell, UpdateIsCell DEF Updated
  <2> QED BY <1>2, <1>4, <2>1 DEF Updated
<1>5. ASSUME NEW t \in cached, NEW d \in Device \union {NotAsked},
            DoTransactionSend(t, d)
      PROVE  /\ order' = order
             /\ \A u \in Tx : node'[u] = "committed" <=> node[u] = "committed"
             /\ \A i \in DOMAIN order : cell'[order[i]] = cell[order[i]]
  <2>1. t \in Built /\ cell' = [cell EXCEPT ![t].signer = d]
    BY <1>1, <1>5 DEF DoTransactionSend, KeyListTypeOK
  <2>2. \A u \in Tx : u # t => cell'[u] = cell[u]
    BY <1>1, <2>1, SignedCell
  <2>3. node[t] # "committed" /\ node' = [node EXCEPT ![t] = "pool"] /\ order' = order
    BY <1>5 DEF DoTransactionSend, Submit
  <2> QED BY <1>1, <1>2, <2>1, <2>2, <2>3 DEF TxTypeOK
<1>6. ASSUME NEW t \in Tx, DropCell(t)
      PROVE  /\ order' = order /\ cell' = cell
             /\ \A u \in Tx : node'[u] = "committed" <=> node[u] = "committed"
  BY <1>1, <1>6 DEF DropCell, TxTypeOK, listVars
<1> QED BY <1>3, <1>4, <1>5, <1>6, StepKinds

\* The transaction that is committed is new on the chain and comes last.
LEMMA OrderGrows ==
    ASSUME TypeInv, OrderRight, NEW t \in Tx, CommitCell(t)
    PROVE  /\ cell' = cell /\ t \in Built /\ node[t] = "pool"
           /\ Len(order) \in Nat /\ DOMAIN order = 1..Len(order)
           /\ Len(order') = Len(order) + 1 /\ DOMAIN order' = 1..(Len(order) + 1)
           /\ order'[Len(order) + 1] = t
           /\ \A i \in 1..Len(order) : order'[i] = order[i] /\ order'[i] # t
           /\ ToSet(order) = {order[i] : i \in 1..Len(order)}
           /\ ToSet(order') = ToSet(order) \union {t}
           /\ cell[t].op \in Operations => cell[t].from \in ToSet(order)
<1>1. KeyListTypeOK /\ TxTypeOK /\ KnownAreBuilt
  BY DEF TypeInv, KeyListTypeOK
<1>2. order \in Seq(Tx) /\ order' = Append(order, t)
  BY <1>1 DEF KeyListTypeOK, CommitCell
<1>3. /\ Len(order) \in Nat /\ DOMAIN order = 1..Len(order)
      /\ Len(order') = Len(order) + 1 /\ DOMAIN order' = 1..(Len(order) + 1)
      /\ order'[Len(order) + 1] = t
      /\ \A i \in 1..Len(order) : order'[i] = order[i]
  BY <1>2
<1>4. cell' = cell /\ t \in Built /\ node[t] = "pool"
  BY <1>1 DEF CommitCell, KnownAreBuilt
<1>5. \A i \in 1..Len(order) : order[i] # t
  BY <1>3, <1>4 DEF OrderRight, ToSet
<1>6. ToSet(order) = {order[i] : i \in 1..Len(order)} /\ ToSet(order') = ToSet(order) \union {t}
  BY <1>3 DEF ToSet
<1>7. cell[t].op \in Operations => cell[t].from \in ToSet(order)
  BY <1>1, <1>4, KeyListAssumption DEF CommitCell, KnownAreBuilt, Built
<1> QED BY <1>3, <1>4, <1>5, <1>6, <1>7

LEMMA OrderRightStep ==
    ASSUME TypeInv, OrderRight, [KeyListNext]_keyVars
    PROVE  OrderRight'
<1>1. KeyListTypeOK /\ TxTypeOK
  BY DEF TypeInv, KeyListTypeOK
<1>2. ASSUME NEW t \in Tx, CommitCell(t)
      PROVE  OrderRight'
  <2> DEFINE n == Len(order)
  <2>1. /\ cell' = cell /\ n \in Nat
        /\ DOMAIN order = 1..n /\ DOMAIN order' = 1..(n + 1)
        /\ order'[n + 1] = t
        /\ \A i \in 1..n : order'[i] = order[i] /\ order'[i] # t
        /\ ToSet(order) = {order[i] : i \in 1..n}
        /\ ToSet(order') = ToSet(order) \union {t}
        /\ cell[t].op \in Operations => cell[t].from \in ToSet(order)
    BY <1>2, OrderGrows
  <2> HIDE DEF n
  <2>2. \A u \in Tx : node'[u] = "committed" <=> u \in ToSet(order')
    BY <1>1, <1>2, <2>1 DEF OrderRight, CommitCell, TxTypeOK
  <2>3. \A i, j \in 1..(n + 1) : order'[i] = order'[j] => i = j
    <3>1. \A i \in 1..(n + 1) : i = n + 1 \/ i \in 1..n
      BY <2>1
    <3> QED BY <2>1, <3>1 DEF OrderRight
  <2>4. ASSUME NEW i \in 1..(n + 1), cell[order'[i]].op \in Operations
        PROVE  cell[order'[i]].from \in {order'[j] : j \in 1..(i - 1)}
    <3>1. CASE i = n + 1
      <4>1. i - 1 = n
        BY <2>1, <3>1
      <4> QED BY <2>1, <2>4, <3>1, <4>1
    <3>2. CASE i \in 1..n
      <4>1. \A j \in 1..(i - 1) : j \in 1..n
        BY <2>1, <3>2
      <4>2. cell[order[i]].from \in {order[j] : j \in 1..(i - 1)}
        BY <2>1, <2>4, <3>2 DEF OrderRight, Before
      <4> QED BY <2>1, <3>2, <4>1, <4>2
    <3> QED BY <2>1, <3>1, <3>2
  <2> QED BY <2>1, <2>2, <2>3, <2>4 DEF OrderRight, Before
<1>3. CASE ~\E t \in Tx : CommitCell(t)
  <2>1. /\ order' = order
        /\ \A t \in Tx : node'[t] = "committed" <=> node[t] = "committed"
        /\ \A i \in DOMAIN order : cell'[order[i]] = cell[order[i]]
    BY <1>3, OrderStays
  <2> QED BY <2>1 DEF OrderRight, Before
<1> QED BY <1>2, <1>3

LEMMA OneChainStep ==
    ASSUME TypeInv, KeysWellFormed, EditsInv, [KeyListNext]_keyVars
    PROVE  OneChain'
<1>1. KeyListTypeOK /\ TxTypeOK /\ KnownAreBuilt /\ CellsFollow /\ SpentOnce
      /\ OrderRight /\ OneChain
  BY DEF TypeInv, KeyListTypeOK, EditsInv
<1> DEFINE n == Len(order)
           edits == [i \in DOMAIN order |-> cell[order[i]]]
<1>2. n \in Nat /\ DOMAIN order = 1..n
  BY <1>1 DEF KeyListTypeOK
<1>3. ASSUME NEW t \in Tx, CommitCell(t), OneList'
      PROVE  /\ \A i \in 2..Len(order') : cell'[order'[i]].from = order'[i - 1]
             /\ \A i \in 1..Len(order') : Devices(order[i])' = AuthorizedAfter(i)'
  <2>1. /\ cell' = cell /\ t \in Built /\ node[t] = "pool"
        /\ Len(order') = n + 1 /\ DOMAIN order' = 1..(n + 1)
        /\ order'[n + 1] = t
        /\ \A i \in 1..n : order'[i] = order[i]
        /\ ToSet(order) = {order[i] : i \in 1..n}
        /\ cell[t].op \in Operations => cell[t].from \in ToSet(order)
    BY <1>1, <1>3, OrderGrows
  <2> DEFINE more == [i \in DOMAIN order' |-> cell'[order'[i]]]
  <2>2. more[n + 1] = cell[t] /\ \A i \in 1..n : more[i] = edits[i]
    BY <1>2, <2>1
  <2>3. \A i : AuthorizedAfter(i)' = Amounts(more, i) /\ AuthorizedAfter(i) = Amounts(edits, i)
    BY DEF AuthorizedAfter
  <2> HIDE DEF edits, more, n
  <2>4. Amounts(more, n + 1) = Applied(AuthorizedAfter(n), cell[t])
    BY <1>2, <2>2, <2>3, AmountsOfOneMore
  <2>5. /\ \A i : i = n + 1 => Devices(order[i])' = Devices(t)
        /\ \A i \in 1..n : Devices(order[i])' = Devices(order[i])
    BY <2>1 DEF Devices
  <2>8. ASSUME NEW i \in 1..n
        PROVE  AuthorizedAfter(i)' = AuthorizedAfter(i)
    <3>1. i \in Nat /\ \A j \in 1..i : more[j] = edits[j]
      BY <1>2, <2>2
    <3>2. Amounts(more, i) = Amounts(edits, i)
      BY <3>1, AmountsOfSame
    <3> QED BY <2>3, <3>2
  <2>6. CASE n = 0
    <3>1. cell[t].op \notin Operations
      BY <2>1, <2>6
    <3>2. cell[t].op = "create" /\ cell[t].device = Master /\ Devices(t) = {Master}
      BY <1>1, <2>1, <3>1 DEF CellsFollow
    <3>3. AuthorizedAfter(n) = {}
      BY <2>3, <2>6, AmountsOfNone
    <3>4. Applied({}, cell[t]) = {Master}
      BY <3>2 DEF Applied
    <3>5. ASSUME NEW i \in 1..(n + 1)
          PROVE  Devices(order[i])' = AuthorizedAfter(i)'
      <4>1. i = n + 1
        BY <2>6
      <4> QED BY <2>3, <2>4, <2>5, <3>2, <3>3, <3>4, <4>1
    <3> QED BY <2>1, <2>6, <3>5
  <2>7. CASE n # 0
    <3>1. /\ \A i \in 2..n : cell[order[i]].op \in Operations
          /\ cell[t].op \in Operations
      <4>1. \A i \in 2..(n + 1) : cell[order'[i]].op \in Operations
        BY <1>3, <2>1 DEF OneList
      <4>2. n + 1 \in 2..(n + 1) /\ \A i \in 2..n : i \in 2..(n + 1) /\ i \in 1..n
        BY <1>2, <2>7
      <4> QED BY <2>1, <4>1, <4>2
    <3>2. /\ \A i \in 2..n : cell[order[i]].from = order[i - 1]
          /\ \A i \in 1..n : Devices(order[i]) = AuthorizedAfter(i)
      <4>1. OneList /\ order # <<>>
        BY <1>2, <2>7, <3>1 DEF OneList, n
      <4> QED BY <1>1, <4>1 DEF OneChain, n
    <3>3. cell[t].from = order[n]
      <4>1. PICK j \in 1..n : cell[t].from = order[j]
        BY <2>1, <3>1
      <4>2. SUFFICES ASSUME j # n
                     PROVE  FALSE
        BY <4>1
      <4>3. j + 1 \in 2..n /\ j + 1 \in 1..n /\ (j + 1) - 1 = j
        BY <1>2, <4>2
      <4> DEFINE u == order[j + 1]
      <4>4. cell[u].op \in Operations /\ cell[u].from = order[j]
        BY <3>1, <3>2, <4>3
      <4>5. u \in Built /\ u \in Tx /\ node[u] = "committed"
        BY <1>1, <2>1, <4>3 DEF KnownAreBuilt, OrderRight, Built
      <4> HIDE DEF u
      <4>6. u = t
        BY <1>1, <2>1, <3>1, <4>1, <4>4, <4>5 DEF SpentOnce, IsKnown
      <4> QED BY <2>1, <4>5, <4>6
    <3>4. \A i \in 2..(n + 1) : cell'[order'[i]].from = order'[i - 1]
      <4>1. ASSUME NEW i \in 2..(n + 1)
            PROVE  cell[order'[i]].from = order'[i - 1]
        <5>1. CASE i = n + 1
          <6>1. i - 1 = n /\ n \in 1..n
            BY <1>2, <2>7, <5>1
          <6> QED BY <2>1, <3>3, <5>1, <6>1
        <5>2. CASE i # n + 1
          <6>1. i \in 2..n /\ i \in 1..n /\ i - 1 \in 1..n
            BY <1>2, <5>2
          <6> QED BY <2>1, <3>2, <6>1
        <5> QED BY <5>1, <5>2
      <4> QED BY <2>1, <4>1
    <3>5. Devices(t) = Applied(Devices(cell[t].from), cell[t])
      BY <1>1, <2>1, <3>1 DEF CellsFollow, Operations
    <3>6. Devices(t) = Amounts(more, n + 1)
      <4>1. n \in 1..n
        BY <1>2, <2>7
      <4> QED BY <2>4, <3>2, <3>3, <3>5, <4>1
    <3>7. ASSUME NEW i \in 1..(n + 1)
          PROVE  Devices(order[i])' = AuthorizedAfter(i)'
      <4>1. CASE i = n + 1
        BY <2>3, <2>5, <3>6, <4>1
      <4>2. CASE i # n + 1
        <5>1. i \in 1..n
          BY <1>2, <4>2
        <5> QED BY <2>5, <2>8, <3>2, <5>1
      <4> QED BY <4>1, <4>2
    <3> QED BY <2>1, <3>4, <3>7
  <2> QED BY <2>6, <2>7
<1>4. CASE \E t \in Tx : CommitCell(t)
  BY <1>3, <1>4 DEF OneChain
<1>5. CASE ~\E t \in Tx : CommitCell(t)
  <2>1. /\ order' = order
        /\ \A i \in DOMAIN order : cell'[order[i]] = cell[order[i]]
    BY <1>1, <1>5, OrderStays
  <2>2. \A i : AuthorizedAfter(i)' = AuthorizedAfter(i)
    BY <2>1 DEF AuthorizedAfter
  <2>3. \A i \in 1..n : Devices(order[i])' = Devices(order[i])
    BY <1>2, <2>1 DEF Devices
  <2>4. \A i \in 2..n : i \in DOMAIN order
    BY <1>2
  <2>5. OneList' = OneList
    BY <2>1, <2>4 DEF OneList
  <2> QED BY <1>1, <2>1, <2>2, <2>3, <2>4, <2>5 DEF OneChain
<1> QED BY <1>4, <1>5

LEMMA EditsStep ==
    ASSUME TypeInv, KeysWellFormed, EditsInv, [KeyListNext]_keyVars
    PROVE  EditsInv'
BY CellsFollowStep, SpentOnceStep, OrderRightStep, OneChainStep DEF EditsInv

\* With one creation on the chain every later transaction is an update.
LEMMA OneCreation ==
    ASSUME TypeInv, EditsInv, Cardinality(Creations) = 1
    PROVE  order # <<>> /\ OneList
<1>1. order \in Seq(Tx) /\ ToSet(order) \subseteq Built /\ CellsFollow /\ OrderRight
  BY DEF TypeInv, KeyListTypeOK, KnownAreBuilt, EditsInv
<1>2. Len(order) \in Nat /\ DOMAIN order = 1..Len(order)
  BY <1>1
<1>3. PICK c : Creations = {c}
  <2>1. Creations \subseteq Tx
    BY <1>1, <1>2 DEF Creations, ToSet
  <2>2. IsFiniteSet(Creations)
    BY <2>1, TxAssumption, FS_Subset
  <2> QED BY <2>2, FS_Singleton
<1>4. \A i \in 1..Len(order) : cell[order[i]].op = "create" \/ cell[order[i]].op \in Operations
  BY <1>1, <1>2 DEF CellsFollow, ToSet
<1>5. order # <<>>
  BY <1>2, <1>3 DEF Creations, ToSet
<1>6. 1 \in 1..Len(order) /\ cell[order[1]].op = "create"
  <2>1. 1 \in 1..Len(order) /\ Before(1) = {}
    BY <1>1, <1>2, <1>5 DEF Before
  <2> QED BY <1>1, <1>2, <1>4, <2>1 DEF OrderRight
<1>7. ASSUME NEW i \in 2..Len(order), cell[order[i]].op \notin Operations
      PROVE  FALSE
  <2>1. i \in 1..Len(order) /\ i # 1
    BY <1>2
  <2>2. order[i] \in Creations /\ order[1] \in Creations
    BY <1>2, <1>4, <1>6, <1>7, <2>1 DEF Creations, ToSet
  <2> QED BY <1>1, <1>2, <1>3, <1>6, <2>1, <2>2 DEF OrderRight
<1> QED BY <1>5, <1>7 DEF OneList

LEMMA EditsInvGivesNoEditLost ==
    ASSUME TypeInv, EditsInv
    PROVE  NoEditLost
<1>1. SUFFICES ASSUME Cardinality(Creations) = 1
      PROVE  /\ \A d \in Device \ {Master} : VerifyWebauthnSign(d) <=> d \in Authorized
             /\ indexed = Len(order) =>
                   Devices(DbOutpoint) = Authorized /\ AuthorizeInfo = Authorized \ {Master}
  BY DEF NoEditLost
<1>2. /\ order \in Seq(Tx) /\ ToSet(order) \subseteq Built /\ order # <<>> /\ OneList
      /\ CellsFollow /\ OrderRight /\ OneChain
  BY <1>1, OneCreation DEF TypeInv, KeyListTypeOK, KnownAreBuilt, EditsInv
<1> DEFINE n == Len(order)
<1>3. n \in Nat /\ n # 0 /\ n \in 1..n /\ DOMAIN order = 1..n /\ \A i \in 1..n : order[i] \in Tx
  BY <1>2
<1>4. \A i \in 2..n : cell[order[i]].from = order[i - 1]
  BY <1>2 DEF OneChain
<1>5. Devices(order[n]) = Authorized
  BY <1>2, <1>3 DEF OneChain, Authorized
<1>6. ToSet(order) = {order[i] : i \in 1..n}
  BY <1>3 DEF ToSet
<1>7. cell[order[1]].from = NoTx
  <2>1. Before(1) = {} /\ 1 \in 1..n
    BY <1>3 DEF Before
  <2>2. cell[order[1]].op \notin Operations
    BY <1>2, <1>3, <2>1 DEF OrderRight
  <2> QED BY <1>2, <1>6, <2>1, <2>2 DEF CellsFollow
<1> HIDE DEF n
<1>8. LiveCells = {order[n]}
  <2>1. ASSUME NEW i \in 1..n, i # n
        PROVE  \E u \in ToSet(order) : cell[u].from = order[i]
    <3>1. i + 1 \in 2..n /\ i + 1 \in 1..n /\ (i + 1) - 1 = i
      BY <1>3, <2>1
    <3> QED BY <1>4, <1>6, <3>1
  <2>2. ASSUME NEW i \in 1..n
        PROVE  cell[order[i]].from # order[n]
    <3>1. CASE i = 1
      BY <1>3, <1>7, <3>1, KeyListAssumption
    <3>2. CASE i # 1
      <4>1. i \in 2..n /\ i - 1 \in 1..n /\ i - 1 # n
        BY <1>3, <3>2
      <4> QED BY <1>2, <1>3, <1>4, <4>1 DEF OrderRight
    <3> QED BY <3>1, <3>2
  <2> QED BY <1>3, <1>6, <2>1, <2>2 DEF LiveCells
<1>9. indexed = n => DbOutpoint = order[n] /\ DbOutpoint # NoTx
  BY <1>3, KeyListAssumption DEF DbOutpoint
<1>10. \A d \in Device \ {Master} : VerifyWebauthnSign(d) <=> d \in Authorized
  BY <1>5, <1>8 DEF VerifyWebauthnSign
<1>11. indexed = n => Devices(DbOutpoint) = Authorized /\ AuthorizeInfo = Authorized \ {Master}
  BY <1>5, <1>9 DEF AuthorizeInfo
<1> QED BY <1>10, <1>11 DEF n

LEMMA EditsHold == KeyListSpec => []EditsInv
<1>1. KeyListInit => EditsInv
  BY EditsInit
<1>2. TypeInv /\ KeysWellFormed /\ EditsInv /\ [KeyListNext]_keyVars => EditsInv'
  BY EditsStep
<1> QED BY <1>1, <1>2, TypeHolds, ListsWellFormed, PTL DEF KeyListSpec

\* No edit is lost and none undone, however the requests interleave, however
\* stale the list an update was built from and however far das-database is
\* behind: a list that was made once ends with the devices that the committed
\* edits, one after the other, amount to.
THEOREM EditsAddUp == KeyListSpec => []NoEditLost
<1>1. TypeInv /\ EditsInv => NoEditLost
  BY EditsInvGivesNoEditLost
<1> QED BY <1>1, TypeHolds, EditsHold, PTL

LEMMA ChainGivesSigners ==
    ASSUME TypeInv, EditsInv, SignerOnSpent
    PROVE  SignersAuthorized
<1>1. SUFFICES ASSUME Cardinality(Creations) = 1, NEW i \in DOMAIN order,
                      cell[order[i]].signer # NotAsked
               PROVE  cell[order[i]].signer \in AuthorizedAfter(i - 1)
  BY DEF SignersAuthorized
<1>2. order # <<>> /\ OneList /\ OneChain /\ OrderRight
  BY <1>1, OneCreation DEF EditsInv
<1>3. order \in Seq(Tx) /\ ToSet(order) \subseteq Built
  BY DEF TypeInv, KeyListTypeOK, KnownAreBuilt
<1>4. order[i] \in Built /\ i \in 1..Len(order) /\ Len(order) \in Nat
  BY <1>3 DEF ToSet
<1>5. cell[order[i]].op \in Operations
      /\ cell[order[i]].signer \in Devices(cell[order[i]].from)
  BY <1>1, <1>4 DEF SignerOnSpent
<1>6. i \in 2..Len(order) /\ i - 1 \in 1..Len(order)
  <2>1. Before(1) = {}
    BY DEF Before
  <2>2. i # 1
    BY <1>2, <1>5, <2>1 DEF OrderRight
  <2> QED BY <1>4, <2>2
<1>7. cell[order[i]].from = order[i - 1]
      /\ Devices(order[i - 1]) = AuthorizedAfter(i - 1)
  BY <1>2, <1>6 DEF OneChain
<1> QED BY <1>5, <1>7

\* The signers doTransactionSend looked up for the updates on the chain were
\* on the list then, not only on one that was once shown: what a removed device
\* signs, and what a device signs before it is added, does not get through,
\* however the requests interleave and however old the cached update is.
THEOREM RemovedStayOut == KeyListSpec => []SignersAuthorized
<1>1. TypeInv /\ EditsInv /\ SignerOnSpent => SignersAuthorized
  BY ChainGivesSigners
<1> QED BY <1>1, TypeHolds, EditsHold, SignersHold, PTL

-----------------------------------------------------------------------------
(* The lock: while making a cell takes less than the lock's four minutes,  *)
(* the key is there as long as anybody works under it.                     *)

LockInv ==
    /\ \A r, s \in Creating : r = s
    /\ Creating # {} => locked

LEMMA LockStep ==
    ASSUME ~SlowCreate, TypeInv, LockInv, [KeyListNext]_keyVars
    PROVE  LockInv'
<1>1. RequestTypeOK
  BY DEF TypeInv, KeyListTypeOK
<1>2. ASSUME NEW r \in Request, RequestStep(r)
      PROVE  LockInv'
  <2>1. \A q \in Request : q # r => req'[q] = req[q]
    BY <1>1, <1>2 DEF RequestStep, DoAuthorize, LockWithRedis, SendCreate, Unlock,
       BuildUpdate, Goto, Finish, RequestTypeOK
  <2>2. CASE LockWithRedis(r)
    <3>1. r \notin Creating
      BY <2>2 DEF LockWithRedis, Creating
    <3>2. CASE ~locked /\ locked' = TRUE /\ Goto(r, "create")
      <4>1. Creating = {} /\ locked'
        BY <3>2 DEF LockInv
      <4>2. Creating' \subseteq {r}
        BY <2>1, <4>1 DEF Creating
      <4> QED BY <4>1, <4>2 DEF LockInv
    <3>3. CASE UNCHANGED locked /\ Finish(r)
      <4>1. req'[r].pc = "idle"
        BY <1>1, <3>3 DEF Finish, Idle, RequestTypeOK
      <4>2. Creating' \subseteq Creating
        BY <2>1, <4>1 DEF Creating
      <4> QED BY <3>3, <4>2 DEF LockInv
    <3> QED BY <2>2, <3>2, <3>3 DEF LockWithRedis
  <2>3. CASE SendCreate(r)
    <3>1. r \in Creating /\ locked' = locked
      BY <2>3 DEF SendCreate, Creating
    <3>2. Creating' \subseteq Creating
      BY <2>1, <3>1 DEF Creating
    <3> QED BY <3>1, <3>2 DEF LockInv
  <2>4. CASE Unlock(r)
    <3>1. r \in Creating
      BY <2>4 DEF Unlock, Creating
    <3>2. req'[r].pc \in {"build", "idle"}
      BY <1>1, <2>4 DEF Unlock, Goto, Finish, Idle, RequestTypeOK
    <3>3. Creating' = {}
      BY <2>1, <3>1, <3>2 DEF LockInv, Creating
    <3> QED BY <3>3 DEF LockInv
  <2>5. ASSUME NEW op \in Operations, NEW d \in Device, DoAuthorize(r, op, d)
        PROVE  LockInv'
    <3>1. req'[r].pc \in {"build", "lock"} /\ locked' = locked
      BY <1>1, <2>5 DEF DoAuthorize, RequestTypeOK
    <3>2. Creating' \subseteq Creating
      BY <2>1, <3>1 DEF Creating
    <3> QED BY <3>1, <3>2 DEF LockInv
  <2>6. CASE BuildUpdate(r)
    <3>1. req'[r].pc = "idle" /\ locked' = locked
      BY <1>1, <2>6 DEF BuildUpdate, Finish, Idle, RequestTypeOK
    <3>2. Creating' \subseteq Creating
      BY <2>1, <3>1 DEF Creating
    <3> QED BY <3>1, <3>2 DEF LockInv
  <2> QED BY <1>2, <2>2, <2>3, <2>4, <2>5, <2>6 DEF RequestStep
<1>3. ASSUME NEW t \in Tx, CellStep(t)
      PROVE  LockInv'
  <2>1. UNCHANGED <<req, locked>>
    BY <1>3 DEF CellStep, DoTransactionSend, RecordSend, CommitCell, DropCell,
       CacheExpires, listVars
  <2> QED BY <2>1 DEF LockInv, Creating
<1>4. CASE Index \/ UNCHANGED keyVars
  <2>1. UNCHANGED <<req, locked>>
    BY <1>4 DEF Index, keyVars, listVars
  <2> QED BY <2>1 DEF LockInv, Creating
<1>5. CASE LockExpires
  <2>1. Creating = {} /\ req' = req
    BY <1>5 DEF LockExpires
  <2>2. Creating' = {}
    BY <2>1 DEF Creating
  <2> QED BY <2>2 DEF LockInv
<1>6. CASE ApiCrash
  <2>1. Creating' = {}
    BY <1>6 DEF ApiCrash, Creating, Idle
  <2> QED BY <2>1 DEF LockInv
<1> QED BY <1>2, <1>3, <1>4, <1>5, <1>6 DEF KeyListNext

\* At most one request at a time makes a cell (LockWithRedis, SETNX), if that
\* is done before the key expires; the requests may die at any point.
THEOREM OneMakesACell ==
    ASSUME ~SlowCreate
    PROVE  KeyListSpec => []CreateExclusive
<1>1. KeyListInit => LockInv
  <2>1. ASSUME KeyListInit
        PROVE  Creating = {}
    BY <2>1 DEF KeyListInit, Creating, Idle
  <2> QED BY <2>1 DEF LockInv
<1>2. TypeInv /\ LockInv /\ [KeyListNext]_keyVars => LockInv'
  BY LockStep
<1>3. LockInv => CreateExclusive
  <2>1. ASSUME LockInv
        PROVE  Cardinality(Creating) <= 1
    <3>1. CASE Creating = {}
      BY <3>1, FS_EmptySet
    <3>2. ASSUME NEW r \in Creating
          PROVE  Cardinality(Creating) = 1
      <4>1. Creating = {r}
        BY <2>1 DEF LockInv
      <4> QED BY <4>1, FS_Singleton
    <3> QED BY <3>1, <3>2
  <2> QED BY <2>1 DEF CreateExclusive
<1> QED BY <1>1, <1>2, <1>3, TypeHolds, PTL DEF KeyListSpec

-----------------------------------------------------------------------------
(* The requests send and record updates as TxPending says.                 *)

Seen == [t \in Tx |-> IF sends[t] = 0 THEN "none" ELSE node[t]]

LEMMA SeenTypes ==
    ASSUME TxTypeOK
    PROVE  Seen \in [Tx -> NodeStates]
BY DEF TxTypeOK, Seen, NodeStates

LEMMA RecordedInit ==
    ASSUME KeyListInit
    PROVE  Recorded!TxInit
BY DEF KeyListInit, TxInit, Recorded!TxInit, TimerIdle, Recorded!TimerIdle

\* A step that leaves what TxPending sees alone is a stutter there.
LEMMA SeenStays ==
    ASSUME Seen' = Seen, UNCHANGED <<sends, tableVars, readerVars, recording, timer>>
    PROVE  UNCHANGED Recorded!txVars
BY DEF Seen, Recorded!txVars, Recorded!nodeVars, Recorded!tableVars,
       Recorded!readerVars, tableVars, readerVars

\* doTransactionSend up to the answer of the node.
LEMMA SendIsSubmit ==
    ASSUME TypeInv, NEW t \in Tx, NEW d \in Device \union {NotAsked},
            DoTransactionSend(t, d)
    PROVE  Recorded!Submit(t)
<1>1. Submit(t) /\ TxTypeOK
  BY DEF DoTransactionSend, TypeInv, KeyListTypeOK
<1>2. sends[t] \in Nat /\ sends'[t] # 0
  BY <1>1 DEF Submit, TxTypeOK
<1>3. Seen' = [Seen EXCEPT ![t] = "pool"]
  BY <1>1, <1>2 DEF Submit, TxTypeOK, Seen
<1>4. Seen[t] \in {"none", "dropped"}
  BY <1>1 DEF Submit, Seen
<1> QED BY <1>1, <1>3, <1>4 DEF Submit, Seen, Recorded!Submit, Recorded!tableVars,
        Recorded!readerVars, tableVars, readerVars

\* The row, or its loss.
LEMMA RecordIsRecord ==
    ASSUME NEW t \in Tx, RecordSend(t)
    PROVE  Recorded!CreatePending(t) \/ Recorded!RecordLost(t)
BY DEF RecordSend, CreatePending, RecordLost, Recorded!CreatePending,
       Recorded!RecordLost, nodeVars, tableVars, readerVars,
       Recorded!nodeVars, Recorded!tableVars, Recorded!readerVars

\* A commit or a drop moves an update; a creation's is none of TxPending's.
LEMMA MoveIsChainMove ==
    ASSUME TypeInv, NEW t \in Tx, CommitCell(t) \/ DropCell(t)
    PROVE  Recorded!ChainMoves \/ UNCHANGED Recorded!txVars
<1>1. /\ TxTypeOK /\ node[t] = "pool" /\ ChainMoves
      /\ \/ node' = [node EXCEPT ![t] = "committed"]
         \/ node' = [node EXCEPT ![t] = "dropped"]
  BY DEF CommitCell, DropCell, TypeInv, KeyListTypeOK
<1>2. UNCHANGED <<sends, tableVars, readerVars, recording, timer>>
  BY <1>1 DEF ChainMoves
<1>3. CASE sends[t] = 0
  <2>1. Seen' = Seen
    BY <1>1, <1>2, <1>3 DEF TxTypeOK, Seen
  <2> QED BY <1>2, <2>1, SeenStays
<1>4. CASE sends[t] # 0
  <2>1. Seen' \in [Tx -> NodeStates]
    BY <1>1, <1>2 DEF TxTypeOK, Seen, NodeStates
  <2>2. \A u \in Tx : Seen'[u] = Seen[u] \/ LegalMove(Seen[u], Seen'[u])
    BY <1>1, <1>2 DEF TxTypeOK, Seen, LegalMove
  <2> QED BY <1>2, <2>1, <2>2 DEF Seen, LegalMove, NodeStates, Recorded!ChainMoves,
          Recorded!LegalMove, Recorded!NodeStates, Recorded!tableVars, Recorded!readerVars,
          tableVars, readerVars
<1> QED BY <1>3, <1>4

LEMMA RecordedStep ==
    ASSUME TypeInv, [KeyListNext]_keyVars
    PROVE  [Recorded!TxNext]_(Recorded!txVars)
<1>1. ASSUME NEW r \in Request, RequestStep(r)
      PROVE  UNCHANGED Recorded!txVars
  <2>1. CASE SendCreate(r)
    <3>1. UNCHANGED <<sends, tableVars, readerVars, recording, timer>>
      BY <2>1 DEF SendCreate
    <3>2. UNCHANGED node \/ \E t \in Tx \ Built : node' = [node EXCEPT ![t] = "pool"]
      BY <2>1 DEF SendCreate
    <3>3. \A t \in Tx \ Built : sends[t] = 0
      BY DEF TypeInv, KeyListTypeOK, TxTypeOK, KnownAreBuilt
    <3>4. Seen' = Seen
      BY <3>1, <3>2, <3>3 DEF TypeInv, KeyListTypeOK, TxTypeOK, Seen
    <3> QED BY <3>1, <3>4, SeenStays
  <2>2. CASE ~SendCreate(r)
    <3>1. UNCHANGED txVars
      BY <1>1, <2>2 DEF RequestStep, DoAuthorize, LockWithRedis, Unlock, BuildUpdate
    <3> QED BY <3>1, SeenStays DEF txVars, nodeVars, Seen
  <2> QED BY <2>1, <2>2
<1>2. ASSUME NEW t \in Tx, CellStep(t)
      PROVE  Recorded!TxStep(t) \/ Recorded!ChainMoves \/ UNCHANGED Recorded!txVars
  <2>1. CASE \E d \in Device \union {NotAsked} : DoTransactionSend(t, d)
    BY <2>1, SendIsSubmit DEF Recorded!TxStep
  <2>2. CASE RecordSend(t)
    BY <2>2, RecordIsRecord DEF Recorded!TxStep
  <2>3. CASE CommitCell(t) \/ DropCell(t)
    BY <2>3, MoveIsChainMove
  <2>4. CASE CacheExpires(t)
    BY <2>4, SeenStays DEF CacheExpires, txVars, nodeVars, Seen
  <2> QED BY <1>2, <2>1, <2>2, <2>3, <2>4 DEF CellStep
<1>3. CASE Index \/ LockExpires
  BY <1>3, SeenStays DEF Index, LockExpires, txVars, nodeVars, Seen
<1>4. CASE ApiCrash
  <2>1. UNCHANGED <<nodeVars, tableVars, readerVars, timer>> /\ recording' = {}
    BY <1>4 DEF ApiCrash
  <2>2. CASE recording = {}
    BY <2>1, <2>2, SeenStays DEF nodeVars, Seen
  <2>3. CASE recording # {}
    BY <2>1, <2>3 DEF Recorded!TxNext, Recorded!ApiDies, nodeVars, tableVars, readerVars,
       Recorded!nodeVars, Recorded!tableVars, Recorded!readerVars
  <2> QED BY <2>2, <2>3
<1>5. CASE UNCHANGED keyVars
  BY <1>5, SeenStays DEF keyVars, txVars, nodeVars, Seen
<1> QED BY <1>1, <1>2, <1>3, <1>4, <1>5 DEF KeyListNext, Recorded!TxNext

\* What TxPending says, and TxPendingProofs proves, of a transaction's row holds
\* of the updates that /webauthn/authorize builds and /transaction/send sends, with
\* any number of them sent, refused, dropped and sent again at a time.
THEOREM RefinesTxPending == KeyListSpec => SendsAsTxPending
<1>1. KeyListInit => Recorded!TxInit
  BY RecordedInit
<1>2. TypeInv /\ [KeyListNext]_keyVars => [Recorded!TxNext]_(Recorded!txVars)
  BY RecordedStep
<1> QED BY <1>1, <1>2, TypeHolds, PTL DEF KeyListSpec, SendsAsTxPending, Recorded!TxSafeSpec

=============================================================================
