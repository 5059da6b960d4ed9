------------------------ MODULE BatchTransfer_proofs ------------------------
(***************************************************************************)
(* Proofs about BatchTransfer, for any batch of files, any sizes of chunk, *)
(* block and message and any threshold: types, flow control, the one send  *)
(* loop, and that the transfer implements FileDelivery.                    *)
(***************************************************************************)
EXTENDS BatchTransfer, FiniteSetTheorems, SequenceTheorems, TLAPS

-----------------------------------------------------------------------------
(* Arithmetic of blocks and chunks.                                        *)

LEMMA TimesMonotonic ==
    ASSUME NEW a \in Int, NEW b \in Int, NEW c \in Nat, a <= b
    PROVE  a * c <= b * c
<1>1. (b - a) * c \in Nat
  <2>1. b - a \in Nat
    OBVIOUS
  <2> QED BY <2>1
<1>2. b * c = a * c + (b - a) * c
  OBVIOUS
<1> QED BY <1>1, <1>2

LEMMA Division ==
    ASSUME NEW x \in Nat, NEW c \in Nat \ {0}
    PROVE  /\ x \div c \in Nat
           /\ (x \div c) * c <= x
           /\ x < (x \div c) * c + c
OBVIOUS

(* The number of chunks a block of L bytes makes.                          *)
LEMMA ChunkCount ==
    ASSUME NEW L \in Nat \ {0}, NEW C \in Nat \ {0}
    PROVE  /\ (L + C - 1) \div C \in Nat \ {0}
           /\ ((L + C - 1) \div C) * C >= L
           /\ \A n \in Nat : n < (L + C - 1) \div C => n * C < L
<1> DEFINE x == L + C - 1
           q == x \div C
<1>1. q \in Nat /\ q * C <= x /\ x < q * C + C
  <2>1. x \in Nat
    OBVIOUS
  <2> QED BY <2>1, Division
<1> HIDE DEF q
<1>2. q # 0 /\ q * C >= L
  BY <1>1
<1>3. ASSUME NEW n \in Nat, n < q PROVE n * C < L
  <2>1. (n + 1) * C <= q * C
    BY <1>1, <1>3, TimesMonotonic
  <2>2. (n + 1) * C = n * C + C
    OBVIOUS
  <2> QED BY <1>1, <2>1, <2>2
<1> QED BY <1>1, <1>2, <1>3 DEF q

(* How many of B chunks go out before a buffer of A bytes is above the     *)
(* threshold T: a first stretch of them, and the last one found the buffer *)
(* not above it.                                                           *)
LEMMA ChunksUnderThreshold ==
    ASSUME NEW A \in Nat, NEW T \in Nat, NEW C \in Nat \ {0}, NEW B \in Nat
    PROVE  \E n \in 0..B :
              /\ Cardinality({k \in 0..(B - 1) : A + k * C <= T}) = n
              /\ n > 0 => A + (n - 1) * C <= T
              /\ A <= T /\ B > 0 => n > 0
<1> DEFINE S == {k \in 0..(B - 1) : A + k * C <= T}
<1>1. CASE A > T
  <2>1. \A k \in 0..(B - 1) : k * C \in Nat
    OBVIOUS
  <2>2. S = {}
    BY <1>1, <2>1
  <2>3. Cardinality(S) = 0
    BY <2>2, FS_EmptySet
  <2> QED BY <1>1, <2>3
<1>2. CASE A <= T
  <2> DEFINE q == (T - A) \div C
             n == Least(q + 1, B)
  <2>1. q \in Nat /\ q * C <= T - A /\ T - A < q * C + C
    <3>1. T - A \in Nat
      BY <1>2
    <3> QED BY <3>1, Division
  <2> HIDE DEF q
  <2>2. n \in 0..B /\ (B > 0 => n > 0) /\ n <= q + 1 /\ (n = q + 1 \/ n = B)
    BY <2>1 DEF Least
  <2> HIDE DEF n
  <2>3. ASSUME NEW k \in 0..(B - 1) PROVE A + k * C <= T <=> k \in 0..(n - 1)
    <3>1. CASE k <= q
      <4>1. k * C <= q * C /\ k * C \in Nat
        BY <2>1, <3>1, TimesMonotonic
      <4> QED BY <2>1, <2>2, <3>1, <4>1
    <3>2. CASE k > q
      <4>1. (q + 1) * C <= k * C
        BY <2>1, <3>2, TimesMonotonic
      <4>2. (q + 1) * C = q * C + C
        BY <2>1
      <4> QED BY <2>1, <2>2, <3>2, <4>1, <4>2
    <3> QED BY <2>1, <3>1, <3>2
  <2>4. S = 0..(n - 1)
    BY <2>2, <2>3
  <2>5. Cardinality(S) = n
    <3>1. n - 1 \in Int /\ n \in Nat
      BY <2>2
    <3>2. Cardinality(0..(n - 1)) = IF 0 > n - 1 THEN 0 ELSE (n - 1) - 0 + 1
      BY <3>1, FS_Interval
    <3> HIDE DEF S
    <3> QED BY <2>4, <3>1, <3>2
  <2>6. n > 0 => A + (n - 1) * C <= T
    <3> SUFFICES ASSUME n > 0 PROVE A + (n - 1) * C <= T
      OBVIOUS
    <3>1. (n - 1) * C <= q * C
      BY <2>1, <2>2, TimesMonotonic
    <3>2. (n - 1) * C \in Nat
      BY <2>2
    <3> QED BY <1>2, <2>1, <3>1, <3>2
  <2> QED BY <2>2, <2>5, <2>6
<1> QED BY <1>1, <1>2


-----------------------------------------------------------------------------
(* What may be on its way, in which order, and how long it is.             *)

Announcement(files) == [type |-> "batch-start", files |-> files, len |-> MetaSize]

Message ==
    [type : {"batch-start"}, files : {Batch, <<>>}, len : {MetaSize}]
    \cup [type : {"file-start", "data", "file-end", "batch-complete",
                  "transfer-cancelled"},
          file : Files \cup {NoFile}, from : Nat, len : Nat]

(* A place in the script of a batch: before it is announced, after its     *)
(* first k files, in file k with p bytes of it behind, after the           *)
(* announcement of an empty batch, and after its end or its breaking off.  *)
Place == [phase : {"start", "gap", "file", "empty", "done", "over"}, k : Nat, p : Nat]

At(phase, k, p) == [phase |-> phase, k |-> k, p |-> p]

(* Message m leads from place a to place b; l is whether the sending user  *)
(* has left, on which the batch may end early.                             *)
Leads(l, a, m, b) ==
    \/ /\ a = At("start", 0, 0) /\ m = Announcement(Batch)
       /\ b = At("gap", 0, 0)
    \/ /\ a = At("start", 0, 0) /\ m = Announcement(<<>>) /\ l
       /\ b = At("empty", 0, 0)
    \/ /\ a.phase = "gap" /\ a.k < Len(FileSize)
       /\ m = Meta("file-start", a.k + 1)
       /\ b = At("file", a.k + 1, 0)
    \/ /\ a.phase = "file" /\ a.k \in Files
       /\ \E n \in Nat \ {0} : /\ a.p + n <= FileSize[a.k]
                               /\ m = Data(a.k, a.p, n)
                               /\ b = At("file", a.k, a.p + n)
    \/ /\ a.phase = "file" /\ a.k \in Files /\ a.p = FileSize[a.k]
       /\ m = Meta("file-end", NoFile)
       /\ b = At("gap", a.k, 0)
    \/ /\ \/ a.phase = "gap" /\ (a.k = Len(FileSize) \/ l)
          \/ a.phase = "empty"
       /\ m = Meta("batch-complete", NoFile)
       /\ b = At("done", 0, 0)
    \/ /\ m \in {Meta("transfer-cancelled", NoFile), Closed}
       /\ b = At("over", 0, 0)

(* The messages of q lead, one after another, from place a to place b.     *)
Chain(l, a, q, b) ==
    \E r \in [0..Len(q) -> Place] :
        /\ r[0] = a /\ r[Len(q)] = b
        /\ \A i \in 1..Len(q) : Leads(l, r[i - 1], q[i], r[i])

(* The lengths of the messages of q add up to t.                           *)
Sum(q, t) ==
    \E s \in [0..Len(q) -> Nat] :
        /\ s[0] = t /\ s[Len(q)] = 0
        /\ \A i \in 1..Len(q) : s[i - 1] = s[i] + q[i].len

LEMMA ChainEmpty ==
    ASSUME NEW l, NEW a \in Place PROVE Chain(l, a, <<>>, a)
<1> DEFINE r == [i \in 0..0 |-> a]
<1>1. r \in [0..Len(<<>>) -> Place] /\ r[0] = a /\ r[Len(<<>>)] = a
  OBVIOUS
<1>2. \A i \in 1..Len(<<>>) : Leads(l, r[i - 1], <<>>[i], r[i])
  OBVIOUS
<1> QED BY <1>1, <1>2 DEF Chain

LEMMA ChainOne ==
    ASSUME NEW l, NEW a \in Place, NEW b \in Place, NEW m, Leads(l, a, m, b)
    PROVE  Chain(l, a, <<m>>, b)
<1> DEFINE r == [i \in 0..1 |-> IF i = 0 THEN a ELSE b]
<1>1. r \in [0..Len(<<m>>) -> Place] /\ r[0] = a /\ r[Len(<<m>>)] = b
  OBVIOUS
<1>2. \A i \in 1..Len(<<m>>) : Leads(l, r[i - 1], <<m>>[i], r[i])
  <2>1. r[0] = a /\ r[1] = b /\ <<m>>[1] = m /\ Len(<<m>>) = 1
    OBVIOUS
  <2> HIDE DEF r
  <2> QED BY <2>1
<1> HIDE DEF r
<1> QED BY <1>1, <1>2 DEF Chain

LEMMA ChainConcat ==
    ASSUME NEW l, NEW S, NEW q1 \in Seq(S), NEW q2 \in Seq(S),
           NEW a, NEW b, NEW c, Chain(l, a, q1, b), Chain(l, b, q2, c)
    PROVE  Chain(l, a, q1 \o q2, c)
<1>1. PICK r1 \in [0..Len(q1) -> Place] :
          /\ r1[0] = a /\ r1[Len(q1)] = b
          /\ \A i \in 1..Len(q1) : Leads(l, r1[i - 1], q1[i], r1[i])
  BY DEF Chain
<1>2. PICK r2 \in [0..Len(q2) -> Place] :
          /\ r2[0] = b /\ r2[Len(q2)] = c
          /\ \A i \in 1..Len(q2) : Leads(l, r2[i - 1], q2[i], r2[i])
  BY DEF Chain
<1> DEFINE q == q1 \o q2
           r == [i \in 0..Len(q) |-> IF i <= Len(q1) THEN r1[i] ELSE r2[i - Len(q1)]]
<1>3. /\ Len(q1) \in Nat /\ Len(q2) \in Nat /\ Len(q) = Len(q1) + Len(q2)
      /\ \A i \in 1..Len(q) : q[i] = IF i <= Len(q1) THEN q1[i] ELSE q2[i - Len(q1)]
  BY ConcatProperties
<1> HIDE DEF q
<1>4. r \in [0..Len(q) -> Place] /\ r[0] = a /\ r[Len(q)] = c
  BY <1>1, <1>2, <1>3
<1>5. ASSUME NEW i \in 1..Len(q) PROVE Leads(l, r[i - 1], q[i], r[i])
  <2>1. CASE i <= Len(q1)
    <3>1. r[i - 1] = r1[i - 1] /\ r[i] = r1[i] /\ q[i] = q1[i] /\ i \in 1..Len(q1)
      BY <1>3, <2>1
    <3> QED BY <1>1, <3>1
  <2>2. CASE i > Len(q1)
    <3> DEFINE j == i - Len(q1)
    <3>1. j \in 1..Len(q2) /\ q[i] = q2[j] /\ r[i] = r2[j]
      BY <1>3, <2>2
    <3>2. r[i - 1] = r2[j - 1]
      <4>1. CASE i - 1 = Len(q1)
        <5>1. r[i - 1] = b /\ j - 1 = 0
          BY <1>1, <1>3, <4>1
        <5> QED BY <1>2, <5>1
      <4>2. CASE i - 1 # Len(q1)
        <5>1. i - 1 \in 0..Len(q) /\ i - 1 > Len(q1) /\ (i - 1) - Len(q1) = j - 1
          BY <1>3, <2>2, <4>2
        <5> QED BY <1>3, <5>1
      <4> QED BY <4>1, <4>2
    <3> HIDE DEF j, r
    <3>3. Leads(l, r2[j - 1], q2[j], r2[j])
      BY <1>2, <3>1
    <3> QED BY <3>1, <3>2, <3>3
  <2> QED BY <1>3, <2>1, <2>2
<1> HIDE DEF r
<1>6. Chain(l, a, q, c)
  BY <1>4, <1>5 DEF Chain
<1> QED BY <1>6 DEF q

LEMMA ChainTail ==
    ASSUME NEW l, NEW S, NEW q \in Seq(S), q # <<>>, NEW a, NEW b, Chain(l, a, q, b)
    PROVE  \E c \in Place : Leads(l, a, Head(q), c) /\ Chain(l, c, Tail(q), b)
<1>1. PICK r \in [0..Len(q) -> Place] :
          /\ r[0] = a /\ r[Len(q)] = b
          /\ \A i \in 1..Len(q) : Leads(l, r[i - 1], q[i], r[i])
  BY DEF Chain
<1>2. /\ Len(q) \in Nat \ {0} /\ Head(q) = q[1] /\ Len(Tail(q)) = Len(q) - 1
      /\ \A i \in 1..Len(Tail(q)) : Tail(q)[i] = q[i + 1]
  BY HeadTailProperties
<1> DEFINE t == Tail(q)
           u == [i \in 0..Len(t) |-> r[i + 1]]
<1> HIDE DEF t
<1>3. u \in [0..Len(t) -> Place] /\ u[0] = r[1] /\ u[Len(t)] = b
  BY <1>1, <1>2 DEF t
<1>4. ASSUME NEW i \in 1..Len(t) PROVE Leads(l, u[i - 1], t[i], u[i])
  <2>1. u[i - 1] = r[i] /\ u[i] = r[i + 1] /\ t[i] = q[i + 1] /\ i + 1 \in 1..Len(q)
    BY <1>2 DEF t
  <2>2. Leads(l, r[(i + 1) - 1], q[i + 1], r[i + 1])
    BY <1>1, <2>1
  <2> QED BY <2>1, <2>2
<1> HIDE DEF u
<1>5. Chain(l, r[1], t, b)
  BY <1>3, <1>4 DEF Chain
<1>6. Leads(l, a, Head(q), r[1]) /\ r[1] \in Place
  BY <1>1, <1>2
<1> QED BY <1>5, <1>6 DEF t

LEMMA ChainPrefix ==
    ASSUME NEW l, NEW S, NEW q \in Seq(S), NEW a, NEW b, Chain(l, a, q, b),
           NEW n \in 0..Len(q)
    PROVE  \E c \in Place : Chain(l, a, SubSeq(q, 1, n), c)
<1>1. PICK r \in [0..Len(q) -> Place] :
          /\ r[0] = a /\ r[Len(q)] = b
          /\ \A i \in 1..Len(q) : Leads(l, r[i - 1], q[i], r[i])
  BY DEF Chain
<1> DEFINE t == SubSeq(q, 1, n)
           u == [i \in 0..n |-> r[i]]
<1>2. Len(t) = n /\ \A i \in 1..n : t[i] = q[i]
  OBVIOUS
<1> HIDE DEF t
<1>3. u \in [0..Len(t) -> Place] /\ u[0] = a /\ u[Len(t)] = r[n] /\ r[n] \in Place
  BY <1>1, <1>2
<1>4. ASSUME NEW i \in 1..Len(t) PROVE Leads(l, u[i - 1], t[i], u[i])
  <2>1. u[i - 1] = r[i - 1] /\ u[i] = r[i] /\ t[i] = q[i] /\ i \in 1..Len(q)
    BY <1>2
  <2> QED BY <1>1, <2>1
<1> HIDE DEF u
<1>5. Chain(l, a, t, r[n])
  BY <1>3, <1>4 DEF Chain
<1> QED BY <1>3, <1>5 DEF t

(* Once the user has left, what could come before still can.               *)
LEMMA ChainAfterLeaving ==
    ASSUME NEW l, NEW a, NEW q, NEW b, Chain(l, a, q, b)
    PROVE  Chain(TRUE, a, q, b)
<1>1. \A x, m, y : Leads(l, x, m, y) => Leads(TRUE, x, m, y)
  BY DEF Leads
<1> QED BY <1>1 DEF Chain

LEMMA MessageLen == \A m \in Message : m.len \in Nat
BY TransferAssumption DEF Message

LEMMA SumEmpty == Sum(<<>>, 0)
<1> DEFINE s == [i \in 0..0 |-> 0]
<1>1. s \in [0..Len(<<>>) -> Nat] /\ s[0] = 0 /\ s[Len(<<>>)] = 0
  OBVIOUS
<1>2. \A i \in 1..Len(<<>>) : s[i - 1] = s[i] + <<>>[i].len
  OBVIOUS
<1> QED BY <1>1, <1>2 DEF Sum

LEMMA SumOne ==
    ASSUME NEW m, m.len \in Nat PROVE Sum(<<m>>, m.len)
<1> DEFINE s == [i \in 0..1 |-> IF i = 0 THEN m.len ELSE 0]
<1>1. s \in [0..Len(<<m>>) -> Nat] /\ s[0] = m.len /\ s[Len(<<m>>)] = 0
  OBVIOUS
<1>2. \A i \in 1..Len(<<m>>) : s[i - 1] = s[i] + <<m>>[i].len
  <2>1. s[0] = m.len /\ s[1] = 0 /\ <<m>>[1] = m /\ Len(<<m>>) = 1
    OBVIOUS
  <2> HIDE DEF s
  <2> QED BY <2>1
<1> HIDE DEF s
<1> QED BY <1>1, <1>2 DEF Sum

LEMMA SumConcat ==
    ASSUME NEW q1 \in Seq(Message), NEW q2 \in Seq(Message),
           NEW t, NEW u, Sum(q1, t), Sum(q2, u)
    PROVE  Sum(q1 \o q2, t + u)
<1>1. PICK s1 \in [0..Len(q1) -> Nat] :
          /\ s1[0] = t /\ s1[Len(q1)] = 0
          /\ \A i \in 1..Len(q1) : s1[i - 1] = s1[i] + q1[i].len
  BY DEF Sum
<1>2. PICK s2 \in [0..Len(q2) -> Nat] :
          /\ s2[0] = u /\ s2[Len(q2)] = 0
          /\ \A i \in 1..Len(q2) : s2[i - 1] = s2[i] + q2[i].len
  BY DEF Sum
<1> DEFINE q == q1 \o q2
           s == [i \in 0..Len(q) |-> IF i <= Len(q1) THEN s1[i] + u ELSE s2[i - Len(q1)]]
<1>3. /\ Len(q1) \in Nat /\ Len(q2) \in Nat /\ Len(q) = Len(q1) + Len(q2)
      /\ \A i \in 1..Len(q) : q[i] = IF i <= Len(q1) THEN q1[i] ELSE q2[i - Len(q1)]
  BY ConcatProperties
<1> HIDE DEF q
<1>4. t \in Nat /\ u \in Nat
  BY <1>1, <1>2, <1>3
<1>5. s \in [0..Len(q) -> Nat] /\ s[0] = t + u /\ s[Len(q)] = 0
  <2>1. \A i \in 0..Len(q1) : s1[i] \in Nat
    BY <1>1
  <2>2. \A i \in 0..Len(q2) : s2[i] \in Nat
    BY <1>2
  <2>3. s \in [0..Len(q) -> Nat]
    BY <1>3, <1>4, <2>1, <2>2
  <2>4. s[0] = t + u
    BY <1>1, <1>3
  <2>5. s[Len(q)] = 0
    <3>1. CASE Len(q2) = 0
      BY <1>1, <1>2, <1>3, <1>4, <3>1
    <3>2. CASE Len(q2) # 0
      BY <1>2, <1>3, <3>2
    <3> QED BY <3>1, <3>2
  <2> QED BY <2>3, <2>4, <2>5
<1>6. ASSUME NEW i \in 1..Len(q) PROVE s[i - 1] = s[i] + q[i].len
  <2>1. CASE i <= Len(q1)
    <3>1. s[i - 1] = s1[i - 1] + u /\ s[i] = s1[i] + u /\ q[i] = q1[i] /\ i \in 1..Len(q1)
      BY <1>3, <2>1
    <3> HIDE DEF s
    <3>2. s1[i - 1] = s1[i] + q1[i].len /\ s1[i] \in Nat
      BY <1>1, <3>1, SMTT(30)
    <3>3. q1[i] \in Message
      BY <3>1
    <3>4. q1[i].len \in Nat
      BY <3>3, MessageLen
    <3> QED BY <1>4, <3>1, <3>2, <3>4
  <2>2. CASE i > Len(q1)
    <3> DEFINE j == i - Len(q1)
    <3>1. j \in 1..Len(q2) /\ q[i] = q2[j] /\ s[i] = s2[j]
      BY <1>3, <2>2
    <3>2. s[i - 1] = s2[j - 1]
      <4>1. CASE i - 1 = Len(q1)
        <5>1. s[i - 1] = u /\ j - 1 = 0
          BY <1>1, <1>3, <1>4, <4>1
        <5> QED BY <1>2, <5>1
      <4>2. CASE i - 1 # Len(q1)
        <5>1. i - 1 \in 0..Len(q) /\ i - 1 > Len(q1) /\ (i - 1) - Len(q1) = j - 1
          BY <1>3, <2>2, <4>2
        <5> QED BY <1>3, <5>1
      <4> QED BY <4>1, <4>2
    <3> HIDE DEF j, s
    <3> QED BY <1>2, <3>1, <3>2
  <2> QED BY <1>3, <2>1, <2>2
<1> HIDE DEF s
<1>7. Sum(q, t + u)
  BY <1>5, <1>6 DEF Sum
<1> QED BY <1>7 DEF q

LEMMA SumTail ==
    ASSUME NEW q \in Seq(Message), q # <<>>, NEW t, Sum(q, t)
    PROVE  Head(q).len \in Nat /\ t \in Nat /\ t - Head(q).len \in Nat
           /\ Sum(Tail(q), t - Head(q).len)
<1>1. PICK s \in [0..Len(q) -> Nat] :
          /\ s[0] = t /\ s[Len(q)] = 0
          /\ \A i \in 1..Len(q) : s[i - 1] = s[i] + q[i].len
  BY DEF Sum
<1>2. /\ Len(q) \in Nat \ {0} /\ Head(q) = q[1] /\ Len(Tail(q)) = Len(q) - 1
      /\ \A i \in 1..Len(Tail(q)) : Tail(q)[i] = q[i + 1]
      /\ q[1] \in Message
  BY HeadTailProperties
<1> DEFINE v == Tail(q)
           u == [i \in 0..Len(v) |-> s[i + 1]]
<1> HIDE DEF v
<1>3. u \in [0..Len(v) -> Nat] /\ u[0] = s[1] /\ u[Len(v)] = 0
  BY <1>1, <1>2 DEF v
<1>4. ASSUME NEW i \in 1..Len(v) PROVE u[i - 1] = u[i] + v[i].len
  <2>1. u[i - 1] = s[i] /\ u[i] = s[i + 1] /\ v[i] = q[i + 1] /\ i + 1 \in 1..Len(q)
    BY <1>2 DEF v
  <2>2. s[(i + 1) - 1] = s[i + 1] + q[i + 1].len
    BY <1>1, <2>1
  <2> QED BY <2>1, <2>2
<1> HIDE DEF u
<1>5. Sum(v, s[1])
  BY <1>3, <1>4 DEF Sum
<1>6. q[1].len \in Nat /\ t = s[1] + q[1].len /\ s[1] \in Nat
  <2>1. 1 \in 1..Len(q) /\ 1 - 1 = 0
    BY <1>2
  <2> QED BY <1>1, <1>2, <2>1, MessageLen
<1>7. t - q[1].len = s[1]
  BY <1>6
<1> QED BY <1>2, <1>5, <1>6, <1>7 DEF v

-----------------------------------------------------------------------------
(* The chunks the send loop cuts from a block.                             *)

(* The first n chunks of the block of L bytes at place o of file f.        *)
Cut(f, o, L, n) ==
    [k \in 1..n |-> Data(f, o + (k - 1) * CHUNK_SIZE,
                         Least(CHUNK_SIZE, L - (k - 1) * CHUNK_SIZE))]

(* Chunk k of a block starts where chunk k - 1 ends.                       *)
LEMMA ChunkBounds ==
    ASSUME NEW L \in Nat \ {0}, NEW n \in Nat, NEW k \in 1..n,
           n > 0 => (n - 1) * CHUNK_SIZE < L
    PROVE  /\ (k - 1) * CHUNK_SIZE \in Nat /\ k * CHUNK_SIZE \in Nat
           /\ Least((k - 1) * CHUNK_SIZE, L) = (k - 1) * CHUNK_SIZE
           /\ Least(CHUNK_SIZE, L - (k - 1) * CHUNK_SIZE) \in Nat \ {0}
           /\ (k - 1) * CHUNK_SIZE + Least(CHUNK_SIZE, L - (k - 1) * CHUNK_SIZE)
                = Least(k * CHUNK_SIZE, L)
           /\ Least(k * CHUNK_SIZE, L) <= Least(n * CHUNK_SIZE, L)
<1> DEFINE C == CHUNK_SIZE
<1>1. C \in Nat \ {0}
  BY TransferAssumption
<1> HIDE DEF C
<1>2. (k - 1) * C <= (n - 1) * C /\ k * C <= n * C
  BY <1>1, TimesMonotonic
<1>3. k * C = (k - 1) * C + C /\ (k - 1) * C \in Nat /\ n * C \in Nat /\ (n - 1) * C \in Nat
  BY <1>1
<1>4. (k - 1) * C < L
  BY <1>2, <1>3 DEF C
<1> QED BY <1>1, <1>2, <1>3, <1>4 DEF Least, C

LEMMA CutIsSeq ==
    ASSUME NEW f \in Files, NEW o \in Nat, NEW L \in Nat \ {0}, NEW n \in Nat,
           n > 0 => (n - 1) * CHUNK_SIZE < L
    PROVE  Cut(f, o, L, n) \in Seq(Message) /\ Len(Cut(f, o, L, n)) = n
<1>1. ASSUME NEW k \in 1..n
      PROVE  Data(f, o + (k - 1) * CHUNK_SIZE,
                  Least(CHUNK_SIZE, L - (k - 1) * CHUNK_SIZE)) \in Message
  <2>1. o + (k - 1) * CHUNK_SIZE \in Nat
        /\ Least(CHUNK_SIZE, L - (k - 1) * CHUNK_SIZE) \in Nat
    <3>1. /\ (k - 1) * CHUNK_SIZE \in Nat
          /\ Least(CHUNK_SIZE, L - (k - 1) * CHUNK_SIZE) \in Nat \ {0}
      BY ChunkBounds
    <3> QED BY <3>1
  <2> QED BY <2>1 DEF Message, Data
<1> QED BY <1>1 DEF Cut

LEMMA CutLeads ==
    ASSUME NEW l, NEW f \in Files, NEW o \in Nat, NEW L \in Nat \ {0}, NEW n \in Nat,
           n > 0 => (n - 1) * CHUNK_SIZE < L, o + L <= FileSize[f]
    PROVE  Chain(l, At("file", f, o), Cut(f, o, L, n),
                 At("file", f, o + Least(n * CHUNK_SIZE, L)))
<1> DEFINE q == Cut(f, o, L, n)
           r == [k \in 0..n |-> At("file", f, o + Least(k * CHUNK_SIZE, L))]
<1>1. Len(q) = n /\ \A k \in 1..n : q[k] = Data(f, o + (k - 1) * CHUNK_SIZE,
                                  Least(CHUNK_SIZE, L - (k - 1) * CHUNK_SIZE))
  BY CutIsSeq DEF Cut
<1>2. FileSize[f] \in Nat
  BY TransferAssumption DEF Files
<1>3. \A k \in 0..n : Least(k * CHUNK_SIZE, L) \in Nat
  BY TransferAssumption DEF Least
<1>4. r \in [0..Len(q) -> Place] /\ r[Len(q)] = At("file", f, o + Least(n * CHUNK_SIZE, L))
  <2>1. \A k \in 0..n : o + Least(k * CHUNK_SIZE, L) \in Nat
    BY <1>3
  <2>2. \A k \in 0..n : At("file", f, o + Least(k * CHUNK_SIZE, L)) \in Place
    BY <2>1 DEF At, Place, Files
  <2> QED BY <1>1, <2>2
<1>5. r[0] = At("file", f, o)
  <2>1. Least(0 * CHUNK_SIZE, L) = 0
    BY TransferAssumption DEF Least
  <2> QED BY <2>1
<1>6. ASSUME NEW k \in 1..Len(q) PROVE Leads(l, r[k - 1], q[k], r[k])
  <2> DEFINE p == o + (k - 1) * CHUNK_SIZE
             c == Least(CHUNK_SIZE, L - (k - 1) * CHUNK_SIZE)
  <2>1. k \in 1..n
    BY <1>1
  <2>2. /\ p \in Nat /\ c \in Nat \ {0} /\ p = o + Least((k - 1) * CHUNK_SIZE, L)
        /\ p + c = o + Least(k * CHUNK_SIZE, L) /\ Least(k * CHUNK_SIZE, L) <= L
    <3>1. k * CHUNK_SIZE \in Nat
      BY <2>1, ChunkBounds
    <3>2. Least(k * CHUNK_SIZE, L) <= L /\ Least(k * CHUNK_SIZE, L) \in Nat
      BY <3>1 DEF Least
    <3> HIDE DEF p, c
    <3>3. (k - 1) * CHUNK_SIZE \in Nat
          /\ Least((k - 1) * CHUNK_SIZE, L) = (k - 1) * CHUNK_SIZE
          /\ c \in Nat \ {0}
          /\ (k - 1) * CHUNK_SIZE + c = Least(k * CHUNK_SIZE, L)
      BY <2>1, ChunkBounds DEF c
    <3>4. p = o + (k - 1) * CHUNK_SIZE
      BY DEF p
    <3> QED BY <3>2, <3>3, <3>4, SMTT(30)
  <2>3. r[k - 1] = At("file", f, p) /\ r[k] = At("file", f, p + c)
    <3>1. k - 1 \in 0..n /\ k \in 0..n
      BY <2>1
    <3> HIDE DEF p, c
    <3> QED BY <2>2, <3>1
  <2>4. q[k] = Data(f, p, c)
    BY <1>1
  <2> HIDE DEF p, c, r, q
  <2>5. p + c <= FileSize[f]
    <3>1. Least(k * CHUNK_SIZE, L) \in Nat
      BY <1>3, <2>1
    <3>2. o + Least(k * CHUNK_SIZE, L) <= FileSize[f]
      BY <1>2, <2>2, <3>1
    <3> QED BY <2>2, <3>2
  <2>6. At("file", f, p).phase = "file" /\ At("file", f, p).k = f /\ At("file", f, p).p = p
    BY DEF At
  <2> QED BY <2>2, <2>3, <2>4, <2>5, <2>6 DEF Leads
<1> HIDE DEF r, q
<1>7. Chain(l, At("file", f, o), q, At("file", f, o + Least(n * CHUNK_SIZE, L)))
  BY <1>4, <1>5, <1>6 DEF Chain
<1> QED BY <1>7 DEF q

LEMMA CutSum ==
    ASSUME NEW f \in Files, NEW o \in Nat, NEW L \in Nat \ {0}, NEW n \in Nat,
           n > 0 => (n - 1) * CHUNK_SIZE < L
    PROVE  Sum(Cut(f, o, L, n), Least(n * CHUNK_SIZE, L))
<1> DEFINE q == Cut(f, o, L, n)
           e(k) == Least(k * CHUNK_SIZE, L)
           s == [k \in 0..n |-> e(n) - e(k)]
<1>1. Len(q) = n /\ \A k \in 1..n : q[k] = Data(f, o + (k - 1) * CHUNK_SIZE,
                                  Least(CHUNK_SIZE, L - (k - 1) * CHUNK_SIZE))
  BY CutIsSeq DEF Cut
<1>2. \A k \in 0..n : e(k) \in Nat
  BY TransferAssumption DEF Least
<1>3. e(0) = 0
  BY TransferAssumption DEF Least
<1>4. \A k \in 1..n : e(k) <= e(n)
  BY ChunkBounds
<1>5. ASSUME NEW k \in 1..n PROVE e(k) = e(k - 1) + q[k].len
  <2>1. q[k].len = Least(CHUNK_SIZE, L - (k - 1) * CHUNK_SIZE)
    BY <1>1 DEF Data
  <2> HIDE DEF q
  <2> QED BY <2>1, ChunkBounds
<1> HIDE DEF q, e
<1>6. s \in [0..Len(q) -> Nat] /\ s[0] = e(n) /\ s[Len(q)] = 0
  <2>1. ASSUME NEW k \in 0..n PROVE e(n) - e(k) \in Nat
    <3>1. CASE k = 0
      BY <1>2, <1>3, <3>1
    <3>2. CASE k \in 1..n
      BY <1>2, <1>4, <3>2
    <3> QED BY <3>1, <3>2
  <2> QED BY <1>1, <1>2, <1>3, <2>1
<1>7. \A k \in 1..Len(q) : s[k - 1] = s[k] + q[k].len
  <2> SUFFICES ASSUME NEW k \in 1..n PROVE s[k - 1] = s[k] + q[k].len
    BY <1>1
  <2>1. k - 1 \in 0..n /\ k \in 0..n
    OBVIOUS
  <2>2. s[k - 1] = e(n) - e(k - 1) /\ s[k] = e(n) - e(k)
    BY <2>1
  <2>3. e(k - 1) \in Nat /\ e(k) \in Nat /\ e(n) \in Nat /\ e(k) = e(k - 1) + q[k].len
    BY <1>2, <1>5, <2>1
  <2>4. q[k].len \in Nat
    <3>1. q \in Seq(Message)
      BY CutIsSeq DEF q
    <3>2. q[k] \in Message
      BY <1>1, <3>1
    <3> QED BY <3>2, MessageLen
  <2> HIDE DEF s
  <2> QED BY <2>2, <2>3, <2>4
<1> HIDE DEF s
<1>8. Sum(q, e(n))
  BY <1>6, <1>7 DEF Sum
<1> QED BY <1>8 DEF q, e

LEMMA SumAppend ==
    ASSUME NEW q \in Seq(Message), NEW m \in Message, NEW t, Sum(q, t)
    PROVE  Append(q, m) \in Seq(Message) /\ Sum(Append(q, m), t + m.len)
<1>1. Append(q, m) = q \o <<m>> /\ <<m>> \in Seq(Message)
  BY AppendIsConcat
<1>2. Sum(<<m>>, m.len)
  BY SumOne, MessageLen
<1>3. Sum(q \o <<m>>, t + m.len)
  BY <1>1, <1>2, SumConcat
<1>4. Append(q, m) \in Seq(Message)
  OBVIOUS
<1> QED BY <1>1, <1>3, <1>4

LEMMA ChainAppend ==
    ASSUME NEW l, NEW S, NEW q \in Seq(S), NEW m \in S, NEW a, NEW b \in Place,
           NEW c \in Place, Chain(l, a, q, b), Leads(l, b, m, c)
    PROVE  Chain(l, a, Append(q, m), c)
<1>1. Append(q, m) = q \o <<m>> /\ <<m>> \in Seq(S)
  BY AppendIsConcat
<1>2. Chain(l, b, <<m>>, c)
  BY ChainOne
<1> QED BY <1>1, <1>2, ChainConcat

-----------------------------------------------------------------------------
(* The inductive invariant.                                                *)

TabTypes ==
    /\ started \in BOOLEAN /\ timer \in BOOLEAN
    /\ left \in BOOLEAN /\ aborted \in BOOLEAN /\ cut \in BOOLEAN
    /\ shown \in [Tabs -> {"none", "transfer", "complete"}]
    /\ transferSuccessful \in [Tabs -> BOOLEAN]
    /\ channel \in [Tabs -> {"open", "closed"}]
    /\ link \in {"up", "down"}
    /\ outcome \in [Tabs -> {"none", "complete", "cancelled"}]

(* The FileSender of the file at the head of the queue: its loop awaits    *)
(* the block at its offset, is paused, or has ended, with the channel or    *)
(* because the block could not be read.                                    *)
Sending ==
    /\ fileSender \in [file : Files, offset : Nat, paused : BOOLEAN, reads : Seq(Nat)]
    /\ fileSender.file = sendFileIndex + 1
    /\ fileSender.offset < FileSize[fileSender.file]
    /\ fileSender.reads \in {<<>>, <<fileSender.offset>>}
    /\ fileSender.paused => fileSender.reads = <<>>

Queue ==
    /\ selectedFiles \in {Batch, <<>>}
    /\ sendFileIndex \in 0..Len(FileSize)
    /\ ~started => hashing = NoFile /\ fileSender = NoSender
                   /\ bufferedAmount = 0 /\ outcome["sender"] # "complete"
    /\ \/ hashing = NoFile
       \/ hashing = sendFileIndex + 1 /\ hashing \in Files /\ fileSender = NoSender
    /\ fileSender = NoSender \/ Sending
    /\ outcome["sender"] = "complete" =>
           hashing = NoFile /\ fileSender = NoSender
    /\ channel["sender"] = "open" =>
           selectedFiles = Batch \/ left \/ outcome["sender"] = "complete"

(* The send buffer is accounted for, and while the next file is prepared   *)
(* there is room for one more message.                                     *)
Flow ==
    /\ out \in Seq(Message)
    /\ bufferedAmount \in Nat
    /\ Sum(out, bufferedAmount)
    /\ BufferBounded
    /\ hashing # NoFile =>
           bufferedAmount <= BUFFER_THRESHOLD + CHUNK_SIZE + MetaSize

Received ==
    /\ batchMetadata \in {NoBatch, Batch, <<>>}
    /\ receivedFiles \in Seq([name : Files, blob : Seq(Pieces)])
    /\ \/ fileReceiver = NoReceiver
       \/ /\ fileReceiver.file \in Files
          /\ fileReceiver.receivedBytes \in 0..FileSize[fileReceiver.file]
          /\ fileReceiver.chunks \in Seq(Pieces)
    /\ \A i \in 1..Len(receivedFiles) :
           /\ receivedFiles[i].name = i
           /\ Whole(i, receivedFiles[i].blob)
    /\ shown["receiver"] = "transfer" => channel["receiver"] = "open"
    /\ channel["receiver"] = "open" =>
           outcome["receiver"] = "none" /\ ~transferSuccessful["receiver"]

(* The pieces of file f up to byte p, end to end.                          *)
PiecesTo(f, p, chunks) ==
    /\ chunks \in Seq(Pieces)
    /\ \A i \in 1..Len(chunks) : chunks[i].file = f
    /\ IF p = 0 THEN chunks = <<>>
       ELSE /\ chunks # <<>>
            /\ chunks[1].from = 0
            /\ chunks[Len(chunks)].from + chunks[Len(chunks)].len = p
    /\ \A i \in 1..(Len(chunks) - 1) :
           chunks[i + 1].from = chunks[i].from + chunks[i].len

(* The place in the script up to which the receiving tab has come.         *)
ReceiverAt(r) ==
    \/ /\ r = At("start", 0, 0)
       /\ batchMetadata = NoBatch /\ receivedFiles = <<>>
    \/ /\ r = At("empty", 0, 0)
       /\ batchMetadata = <<>> /\ receivedFiles = <<>>
    \/ \E k \in 0..Len(FileSize) :
          /\ r = At("gap", k, 0)
          /\ batchMetadata = Batch /\ Len(receivedFiles) = k
    \/ \E k \in Files, p \in Nat, chunks \in Seq(Pieces) :
          /\ r = At("file", k, p) /\ p < FileSize[k]
          /\ batchMetadata = Batch /\ Len(receivedFiles) = k - 1
          /\ fileReceiver = [file |-> k, receivedBytes |-> p, chunks |-> chunks]
          /\ PiecesTo(k, p, chunks)
    \/ \E k \in Files :
          /\ r = At("file", k, FileSize[k])
          /\ batchMetadata = Batch /\ Len(receivedFiles) = k

(* The place the sending tab will go on from.                              *)
SenderAt(t) ==
    IF ~started THEN t = At("start", 0, 0)
    ELSE IF hashing # NoFile THEN t = At("gap", sendFileIndex, 0)
    ELSE IF fileSender # NoSender
         THEN t = At("file", fileSender.file, fileSender.offset)
    ELSE t = At("done", 0, 0)

Live == link = "up" /\ channel["sender"] = "open"

(* What is in flight leads on from the receiving tab's place, and what is  *)
(* still in the send buffer leads from there to the sending tab's place.   *)
InTransit ==
    /\ net \in Seq(Message \cup {Closed})
    /\ channel["receiver"] = "open" =>
          \E r \in Place, e \in Place :
             /\ ReceiverAt(r)
             /\ Chain(left, r, net, e)
             /\ Live => \E t \in Place : SenderAt(t) /\ Chain(left, e, out, t)

Inv == TabTypes /\ Queue /\ Flow /\ Received /\ InTransit

-----------------------------------------------------------------------------
(* Consequences of the invariant.                                          *)

LEMMA SizeType == \A f \in Files : FileSize[f] \in Nat \ {0}
BY TransferAssumption DEF Files

LEMMA SenderFields ==
    /\ NoSender.file = NoFile /\ NoSender.reads = <<>> /\ NoSender.paused = FALSE
    /\ ~(NoFile \in Files)
BY TransferAssumption DEF NoSender

LEMMA InvTypeOK == Inv => TypeOK
<1> SUFFICES ASSUME Inv PROVE TypeOK
  OBVIOUS
<1>1. hashing \in Files \cup {NoFile}
  BY DEF Inv, Queue
<1>2. \/ fileSender = NoSender
      \/ /\ fileSender.file \in Files
         /\ fileSender.offset \in 0..FileSize[fileSender.file]
         /\ fileSender.paused \in BOOLEAN
         /\ fileSender.reads \in Seq(0..FileSize[fileSender.file])
  <2> SUFFICES ASSUME Sending
               PROVE  /\ fileSender.file \in Files
                      /\ fileSender.offset \in 0..FileSize[fileSender.file]
                      /\ fileSender.paused \in BOOLEAN
                      /\ fileSender.reads \in Seq(0..FileSize[fileSender.file])
    BY DEF Inv, Queue
  <2>1. fileSender.file \in Files /\ fileSender.offset \in Nat
        /\ fileSender.paused \in BOOLEAN
    BY DEF Sending
  <2>2. fileSender.offset \in 0..FileSize[fileSender.file]
    BY <2>1, SizeType DEF Sending
  <2>3. <<>> \in Seq(0..FileSize[fileSender.file])
        /\ <<fileSender.offset>> \in Seq(0..FileSize[fileSender.file])
    BY <2>2
  <2> QED BY <2>1, <2>2, <2>3 DEF Sending
<1> QED BY <1>1, <1>2 DEF Inv, TabTypes, Queue, Flow, Received, TypeOK

LEMMA InvOneSendLoop == Inv => OneSendLoop
<1> SUFFICES ASSUME Inv PROVE OneSendLoop
  OBVIOUS
<1>1. CASE fileSender = NoSender
  BY <1>1 DEF OneSendLoop, NoSender
<1>2. CASE Sending
  <2>1. Len(fileSender.reads) <= 1
    <3>1. fileSender.reads = <<>> \/ fileSender.reads = <<fileSender.offset>>
      BY <1>2 DEF Sending
    <3>2. CASE fileSender.reads = <<>>
      <4>1. Len(<<>>) = 0
        OBVIOUS
      <4> QED BY <3>2, <4>1
    <3>3. CASE fileSender.reads = <<fileSender.offset>>
      <4>1. Len(<<fileSender.offset>>) = 1
        OBVIOUS
      <4> QED BY <3>3, <4>1
    <3> QED BY <3>1, <3>2, <3>3
  <2>2. fileSender # NoSender
    BY <1>2, SenderFields DEF Sending
  <2> QED BY <1>2, <2>1, <2>2 DEF OneSendLoop, Sending, Inv, Queue
<1> QED BY <1>1, <1>2 DEF Inv, Queue

LEMMA InvInit == Init => Inv
<1> SUFFICES ASSUME Init PROVE Inv
  OBVIOUS
<1> USE DEF Init
<1>1. TabTypes
  BY DEF TabTypes
<1>2. Queue
  <2>1. outcome["sender"] = "none"
    BY DEF Tabs
  <2>2. Len(FileSize) \in Nat
    BY TransferAssumption
  <2> QED BY <2>1, <2>2 DEF Queue
<1>3. Flow
  <2>1. <<>> \in Seq(Message)
    OBVIOUS
  <2>2. BufferBounded
    BY TransferAssumption DEF BufferBounded
  <2> QED BY <2>1, <2>2, SumEmpty DEF Flow
<1>4. Received
  <2>1. shown["receiver"] = "none" /\ outcome["receiver"] = "none"
        /\ ~transferSuccessful["receiver"]
    BY DEF Tabs
  <2>2. <<>> \in Seq([name : Files, blob : Seq(Pieces)]) /\ Len(<<>>) = 0
    OBVIOUS
  <2> QED BY <2>1, <2>2 DEF Received
<1>5. InTransit
  <2>1. At("start", 0, 0) \in Place
    BY DEF At, Place
  <2>2. ReceiverAt(At("start", 0, 0)) /\ SenderAt(At("start", 0, 0))
    BY DEF ReceiverAt, SenderAt
  <2>3. Chain(left, At("start", 0, 0), <<>>, At("start", 0, 0))
    BY <2>1, ChainEmpty
  <2>4. <<>> \in Seq(Message \cup {Closed})
    OBVIOUS
  <2> QED BY <2>1, <2>2, <2>3, <2>4 DEF InTransit
<1> QED BY <1>1, <1>2, <1>3, <1>4, <1>5 DEF Inv

-----------------------------------------------------------------------------
(* Steps of the sending tab.                                               *)

LEMMA Setting ==
    ASSUME NEW S, NEW f \in [Tabs -> S], NEW v \in S, NEW t \in Tabs
    PROVE  /\ Set(f, t, v) \in [Tabs -> S]
           /\ Set(f, t, v)[t] = v
           /\ \A u \in Tabs : u # t => Set(f, t, v)[u] = f[u]
BY DEF Set

LEMMA BatchFacts ==
    /\ Len(FileSize) \in Nat \ {0} /\ Files = 1..Len(FileSize)
    /\ Len(Batch) = Len(FileSize) /\ Batch # <<>>
    /\ \A i \in Files : Batch[i] = i
    /\ Len(<<>>) = 0
<1>1. Len(FileSize) \in Nat \ {0}
  <2>1. FileSize \in Seq(Nat \ {0}) /\ FileSize # <<>>
    BY TransferAssumption
  <2> QED BY <2>1
<1>2. Len(Batch) = Len(FileSize)
  BY <1>1 DEF Batch, Files
<1>3. Len(<<>>) = 0
  OBVIOUS
<1>4. Batch # <<>>
  BY <1>1, <1>2, <1>3
<1> QED BY <1>1, <1>2, <1>3, <1>4 DEF Batch, Files

LEMMA Messages ==
    /\ \A files \in {Batch, <<>>} : /\ Announcement(files) \in Message
                                   /\ Announcement(files).len = MetaSize
    /\ \A type \in {"file-start", "file-end", "batch-complete", "transfer-cancelled"} :
          \A f \in Files \cup {NoFile} : /\ Meta(type, f) \in Message
                                        /\ Meta(type, f).len = MetaSize
BY TransferAssumption DEF Announcement, Meta, Message

(* A step of the sending tab leaves the receiving tab as it is.            *)
ReceiverRests ==
    /\ UNCHANGED receiveVars
    /\ shown'["receiver"] = shown["receiver"]
    /\ channel'["receiver"] = channel["receiver"]
    /\ outcome'["receiver"] = outcome["receiver"]
    /\ transferSuccessful'["receiver"] = transferSuccessful["receiver"]

LEMMA ReceivedRests == Received /\ ReceiverRests => Received'
BY DEF Received, ReceiverRests, receiveVars

LEMMA ReceiverAtRests ==
    ASSUME UNCHANGED receiveVars, NEW r PROVE ReceiverAt(r) => ReceiverAt(r)'
BY DEF ReceiverAt, receiveVars

LEMMA TransmitFlow ==
    ASSUME NEW msgs \in Seq(Message), NEW size \in Nat, Sum(msgs, size), Flow,
           Transmit(msgs, size)
    PROVE  /\ out' \in Seq(Message) /\ bufferedAmount' \in Nat /\ Sum(out, bufferedAmount)'
           /\ channel["sender"] = "open" =>
                 out' = out \o msgs /\ bufferedAmount' = bufferedAmount + size
           /\ channel["sender"] # "open" => UNCHANGED <<out, bufferedAmount>>
<1>1. CASE channel["sender"] = "open"
  <2>1. out' = out \o msgs /\ bufferedAmount' = bufferedAmount + size
    BY <1>1 DEF Transmit
  <2>2. Sum(out \o msgs, bufferedAmount + size)
    BY SumConcat DEF Flow
  <2>3. out \o msgs \in Seq(Message) /\ bufferedAmount + size \in Nat
    BY DEF Flow
  <2> QED BY <1>1, <2>1, <2>2, <2>3
<1>2. CASE channel["sender"] # "open"
  BY <1>2 DEF Transmit, Flow
<1> QED BY <1>1, <1>2

(* The sending tab hands messages to the channel and goes on from the      *)
(* place they lead to.                                                     *)
LEMMA TransitExtend ==
    ASSUME InTransit, Flow, UNCHANGED <<receiveVars, channel, link, net, left>>,
           NEW msgs \in Seq(Message), Live => out' = out \o msgs,
           \A t \in Place : Live /\ SenderAt(t) =>
               \E u \in Place : SenderAt(u)' /\ Chain(left, t, msgs, u)
    PROVE  InTransit'
<1>1. net' \in Seq(Message \cup {Closed})
  BY DEF InTransit
<1> SUFFICES ASSUME channel["receiver"] = "open"
             PROVE  \E r \in Place, e \in Place :
                       /\ ReceiverAt(r)' /\ Chain(left, r, net, e)
                       /\ Live => \E t \in Place : SenderAt(t)' /\ Chain(left, e, out', t)
  BY <1>1 DEF InTransit, Live
<1>2. PICK r \in Place, e \in Place :
          /\ ReceiverAt(r) /\ Chain(left, r, net, e)
          /\ Live => \E t \in Place : SenderAt(t) /\ Chain(left, e, out, t)
  BY DEF InTransit
<1>3. ReceiverAt(r)'
  BY <1>2, ReceiverAtRests
<1>4. ASSUME Live PROVE \E t \in Place : SenderAt(t)' /\ Chain(left, e, out', t)
  <2>1. PICK t \in Place : SenderAt(t) /\ Chain(left, e, out, t)
    BY <1>2, <1>4
  <2>2. PICK u \in Place : SenderAt(u)' /\ Chain(left, t, msgs, u)
    BY <1>4, <2>1
  <2>3. Chain(left, e, out \o msgs, u)
    BY <2>1, <2>2, ChainConcat DEF Flow
  <2> QED BY <1>4, <2>2, <2>3
<1> QED BY <1>2, <1>3, <1>4

LEMMA AppendToOne ==
    ASSUME NEW S, NEW a \in S, NEW b \in S PROVE Append(<<a>>, b) = <<a, b>>
<1> DEFINE x == Append(<<a>>, b)
           y == <<a, b>>
<1>1. y \in Seq(S) /\ Len(y) = 2 /\ y[1] = a /\ y[2] = b
  OBVIOUS
<1>2. x \in Seq(S) /\ Len(x) = 2 /\ x[1] = a /\ x[2] = b
  OBVIOUS
<1> HIDE DEF x, y
<1>3. \A i \in 1..Len(x) : x[i] = y[i]
  BY <1>1, <1>2
<1>4. x = y
  BY <1>1, <1>2, <1>3, SeqEqual
<1> QED BY <1>4 DEF x, y

LEMMA StartBatchSendInv == Inv /\ StartBatchSend => Inv'
<1> SUFFICES ASSUME Inv, StartBatchSend PROVE Inv'
  OBVIOUS
<1> DEFINE end == Meta("batch-complete", NoFile)
           msgs == IF selectedFiles = <<>> THEN <<BatchStart, end>> ELSE <<BatchStart>>
           size == IF selectedFiles = <<>> THEN 2 * MetaSize ELSE MetaSize
<1>1. /\ ~started /\ channel["sender"] = "open" /\ started' = TRUE
      /\ sendFileIndex' = 0 /\ fileSender' = NoSender /\ fileSender = NoSender
      /\ hashing = NoFile /\ bufferedAmount = 0 /\ outcome["sender"] # "complete"
      /\ UNCHANGED <<selectedFiles, receiveVars, channel, link, net, left>>
  BY DEF StartBatchSend, historyVars, Inv, Queue
<1>2. selectedFiles \in {Batch, <<>>} /\ (selectedFiles = <<>> => left)
  BY <1>1, BatchFacts DEF Inv, Queue
<1>3. BatchStart = Announcement(selectedFiles)
  BY DEF BatchStart, Announcement
<1>4. BatchStart \in Message /\ end \in Message
      /\ BatchStart.len = MetaSize /\ end.len = MetaSize /\ MetaSize \in Nat
  BY <1>2, <1>3, Messages, TransferAssumption
<1>5. /\ msgs \in Seq(Message) /\ size \in Nat /\ size <= 2 * MetaSize
      /\ selectedFiles # <<>> => size = MetaSize
      /\ Sum(msgs, size)
  <2> HIDE DEF end
  <2>1. Sum(<<BatchStart>>, MetaSize) /\ <<BatchStart>> \in Seq(Message)
    BY <1>4, SumOne
  <2>2. Append(<<BatchStart>>, end) = <<BatchStart, end>>
    BY <1>4, AppendToOne
  <2>3. Sum(<<BatchStart, end>>, MetaSize + MetaSize) /\ <<BatchStart, end>> \in Seq(Message)
    BY <1>4, <2>1, <2>2, SumAppend
  <2>4. MetaSize + MetaSize = 2 * MetaSize /\ 2 * MetaSize \in Nat /\ MetaSize <= 2 * MetaSize
    BY <1>4
  <2> HIDE DEF msgs
  <2>5. CASE selectedFiles = <<>>
    <3>1. msgs = <<BatchStart, end>> /\ size = 2 * MetaSize
      BY <2>5 DEF msgs
    <3> QED BY <2>3, <2>4, <2>5, <3>1
  <2>6. CASE selectedFiles # <<>>
    <3>1. msgs = <<BatchStart>> /\ size = MetaSize
      BY <2>6 DEF msgs
    <3> QED BY <1>4, <2>1, <2>4, <2>6, <3>1
  <2> QED BY <2>5, <2>6
<1>6. Transmit(msgs, size)
  BY DEF StartBatchSend
<1>7. hashing' = IF selectedFiles = <<>> THEN NoFile ELSE 1
  <2>1. 1 \in Files /\ Batch[1] = 1
    BY BatchFacts
  <2>2. hashing' = IF selectedFiles = <<>> THEN NoFile ELSE selectedFiles[1]
    BY DEF StartBatchSend
  <2> QED BY <1>2, <2>1, <2>2
<1>8. /\ TabTypes' /\ ReceiverRests
      /\ outcome'["sender"] = IF selectedFiles = <<>> THEN "complete" ELSE outcome["sender"]
  <2> USE DEF StartBatchSend, historyVars, TabTypes, Inv, Tabs
  <2>1. CASE selectedFiles = <<>>
    <3>1. /\ shown' = Set(shown, "sender", "complete")
          /\ transferSuccessful' = Set(transferSuccessful, "sender", TRUE)
          /\ outcome' = Set(outcome, "sender", "complete")
      BY <2>1
    <3>2. /\ shown' \in [Tabs -> {"none", "transfer", "complete"}]
          /\ transferSuccessful' \in [Tabs -> BOOLEAN]
          /\ outcome' \in [Tabs -> {"none", "complete", "cancelled"}]
      BY <3>1 DEF Set
    <3>3. /\ shown'["receiver"] = shown["receiver"]
          /\ transferSuccessful'["receiver"] = transferSuccessful["receiver"]
          /\ outcome'["receiver"] = outcome["receiver"] /\ outcome'["sender"] = "complete"
      BY <3>1 DEF Set
    <3> QED BY <1>1, <2>1, <3>2, <3>3 DEF ReceiverRests
  <2>2. CASE selectedFiles # <<>>
    <3>1. shown' = Set(shown, "sender", "transfer")
          /\ UNCHANGED <<timer, transferSuccessful, outcome>>
      BY <2>2
    <3>2. shown' \in [Tabs -> {"none", "transfer", "complete"}]
          /\ shown'["receiver"] = shown["receiver"]
      BY <3>1 DEF Set
    <3> QED BY <1>1, <2>2, <3>1, <3>2 DEF ReceiverRests
  <2> QED BY <2>1, <2>2
<1> HIDE DEF msgs, size
<1>9. Queue'
  <2>1. 1 \in Files /\ 0 \in 0..Len(FileSize) /\ NoFile # 1 /\ 1 = 0 + 1
    BY BatchFacts, TransferAssumption
  <2>2. hashing' = NoFile \/ (hashing' = sendFileIndex' + 1 /\ hashing' \in Files)
    BY <1>1, <1>7, <2>1
  <2>3. outcome'["sender"] = "complete" => hashing' = NoFile
    BY <1>1, <1>7, <1>8
  <2> QED BY <1>1, <1>2, <1>8, <2>1, <2>2, <2>3 DEF Queue
<1>10. Flow'
  <2>1. /\ out' \in Seq(Message) /\ bufferedAmount' \in Nat /\ Sum(out, bufferedAmount)'
        /\ bufferedAmount' = size
    BY <1>1, <1>5, <1>6, TransmitFlow DEF Inv
  <2>2. BufferBounded'
    BY <1>5, <2>1, TransferAssumption DEF BufferBounded
  <2>3. hashing' # NoFile => bufferedAmount' <= BUFFER_THRESHOLD + CHUNK_SIZE + MetaSize
    BY <1>5, <1>7, <2>1, TransferAssumption
  <2> QED BY <2>1, <2>2, <2>3 DEF Flow
<1>11. Received'
  BY <1>8, ReceivedRests DEF Inv
<1>12. InTransit'
  <2>1. ASSUME NEW t \in Place, SenderAt(t)
        PROVE  \E u \in Place : SenderAt(u)' /\ Chain(left, t, msgs, u)
    <3>1. t = At("start", 0, 0)
      BY <1>1, <2>1 DEF SenderAt
    <3>2. /\ At("gap", 0, 0) \in Place /\ At("empty", 0, 0) \in Place
          /\ At("done", 0, 0) \in Place
      BY DEF At, Place
    <3>3. CASE selectedFiles = <<>>
      <4>1. Leads(left, t, BatchStart, At("empty", 0, 0))
        BY <1>2, <1>3, <3>1, <3>3 DEF Leads
      <4>2. Leads(left, At("empty", 0, 0), end, At("done", 0, 0))
        BY DEF Leads, At
      <4>3. Chain(left, t, <<BatchStart>>, At("empty", 0, 0))
        BY <3>2, <4>1, ChainOne
      <4>4. Append(<<BatchStart>>, end) = msgs /\ <<BatchStart>> \in Seq(Message)
        <5> HIDE DEF end
        <5>1. <<BatchStart>> \in Seq(Message)
          BY <1>4
        <5> QED BY <1>4, <3>3, <5>1, AppendToOne DEF msgs
      <4>5. Chain(left, t, msgs, At("done", 0, 0))
        BY <1>4, <3>2, <4>2, <4>3, <4>4, ChainAppend
      <4>6. SenderAt(At("done", 0, 0))'
        BY <1>1, <1>7, <3>3 DEF SenderAt
      <4> QED BY <3>2, <4>5, <4>6
    <3>4. CASE selectedFiles # <<>>
      <4>1. Leads(left, t, BatchStart, At("gap", 0, 0))
        BY <1>2, <1>3, <3>1, <3>4 DEF Leads
      <4>2. Chain(left, t, msgs, At("gap", 0, 0))
        BY <3>2, <3>4, <4>1, ChainOne DEF msgs
      <4>3. SenderAt(At("gap", 0, 0))'
        BY <1>1, <1>7, <3>4, TransferAssumption, BatchFacts DEF SenderAt
      <4> QED BY <3>2, <4>2, <4>3
    <3> QED BY <3>3, <3>4
  <2>2. out' = out \o msgs
    BY <1>1, <1>6 DEF Transmit
  <2> QED BY <1>1, <1>5, <2>1, <2>2, TransitExtend DEF Inv
<1> QED BY <1>8, <1>9, <1>10, <1>11, <1>12 DEF Inv

LEMMA SendFileInv == Inv /\ SendFile => Inv'
<1> SUFFICES ASSUME Inv, SendFile PROVE Inv'
  OBVIOUS
<1> DEFINE m == Meta("file-start", hashing)
<1>1. /\ hashing # NoFile /\ hashing' = NoFile /\ started /\ started'
      /\ hashing = sendFileIndex + 1 /\ hashing \in Files /\ fileSender = NoSender
      /\ outcome["sender"] # "complete"
      /\ Transmit(<<m>>, MetaSize)
      /\ UNCHANGED <<selectedFiles, started, sendFileIndex, timer, receiveVars,
                     tabVars, channel, link, net, historyVars>>
  BY DEF SendFile, Inv, Queue, TabTypes
<1>2. fileSender' = IF channel["sender"] = "open"
                    THEN [file |-> hashing, offset |-> 0, paused |-> FALSE, reads |-> <<0>>]
                    ELSE NoSender
  BY <1>1 DEF SendFile
<1>3. m \in Message /\ m.len = MetaSize /\ MetaSize \in Nat
  BY <1>1, Messages, TransferAssumption
<1> HIDE DEF m
<1>4. <<m>> \in Seq(Message) /\ Sum(<<m>>, MetaSize)
  BY <1>3, SumOne
<1>5. TabTypes' /\ ReceiverRests
  BY <1>1 DEF Inv, TabTypes, ReceiverRests, tabVars, historyVars
<1>6. channel["sender"] = "open" =>
         /\ Sending' /\ fileSender' # NoSender
         /\ fileSender'.file = sendFileIndex + 1 /\ fileSender'.offset = 0
  <2> SUFFICES ASSUME channel["sender"] = "open"
               PROVE  /\ Sending' /\ fileSender' # NoSender
                      /\ fileSender'.file = sendFileIndex + 1 /\ fileSender'.offset = 0
    OBVIOUS
  <2> DEFINE none == <<0>>
  <2>1. none \in Seq(Nat)
    OBVIOUS
  <2> HIDE DEF none
  <2>2. fileSender' = [file |-> hashing, offset |-> 0, paused |-> FALSE, reads |-> none]
    BY <1>2 DEF none
  <2>3. fileSender'.reads = <<fileSender'.offset>>
    BY <2>2 DEF none
  <2>4. FileSize[hashing] \in Nat \ {0}
    BY <1>1, SizeType
  <2> QED BY <1>1, <2>1, <2>2, <2>3, <2>4, SenderFields DEF Sending
<1>7. Queue'
  BY <1>1, <1>2, <1>6 DEF Inv, Queue, tabVars, historyVars
<1>8. Flow'
  <2>1. /\ out' \in Seq(Message) /\ bufferedAmount' \in Nat /\ Sum(out, bufferedAmount)'
        /\ bufferedAmount' <= bufferedAmount + MetaSize
    <3>1. /\ out' \in Seq(Message) /\ bufferedAmount' \in Nat /\ Sum(out, bufferedAmount)'
          /\ channel["sender"] = "open" => bufferedAmount' = bufferedAmount + MetaSize
          /\ channel["sender"] # "open" => bufferedAmount' = bufferedAmount
      BY <1>1, <1>3, <1>4, TransmitFlow DEF Inv
    <3>2. bufferedAmount \in Nat
      BY DEF Inv, Flow
    <3> QED BY <1>3, <3>1, <3>2
  <2>2. BufferBounded'
    BY <1>1, <1>3, <2>1, TransferAssumption DEF BufferBounded, Inv, Flow
  <2> QED BY <1>1, <2>1, <2>2 DEF Flow
<1>9. Received'
  BY <1>5, ReceivedRests DEF Inv
<1>10. InTransit'
  <2>1. ASSUME NEW t \in Place, Live, SenderAt(t)
        PROVE  \E u \in Place : SenderAt(u)' /\ Chain(left, t, <<m>>, u)
    <3>1. t = At("gap", sendFileIndex, 0)
      BY <1>1, <2>1 DEF SenderAt
    <3>2. sendFileIndex < Len(FileSize) /\ sendFileIndex \in Nat /\ hashing \in Nat
      BY <1>1, BatchFacts DEF Inv, Queue
    <3>3. Leads(left, t, m, At("file", hashing, 0))
      <4>1. t.phase = "gap" /\ t.k = sendFileIndex
        BY <3>1 DEF At
      <4>2. m = Meta("file-start", t.k + 1) /\ hashing = t.k + 1
        BY <1>1, <4>1 DEF m
      <4> QED BY <3>2, <4>1, <4>2 DEF Leads
    <3>4. PICK u \in Place : u = At("file", hashing, 0)
      BY <3>2 DEF At, Place
    <3>5. SenderAt(u)'
      BY <1>1, <1>6, <2>1, <3>4 DEF SenderAt, Live
    <3>6. Chain(left, t, <<m>>, u)
      BY <3>3, <3>4, ChainOne
    <3> QED BY <3>5, <3>6
  <2>2. Live => out' = out \o <<m>>
    BY <1>1 DEF Transmit, Live
  <2>3. UNCHANGED <<receiveVars, channel, link, net, left>>
    BY <1>1 DEF historyVars
  <2> QED BY <1>4, <2>1, <2>2, <2>3, TransitExtend DEF Inv
<1> QED BY <1>5, <1>7, <1>8, <1>9, <1>10 DEF Inv

(* The end of the batch or the next file, once a file is sent.             *)
LEMMA SendNextFileInv ==
    ASSUME Inv, started, fileSender # NoSender, fileSender' = NoSender,
           channel["sender"] = "open",
           NEW msgs \in Seq(Message), NEW size \in Nat, Sum(msgs, size),
           bufferedAmount + size <= BUFFER_THRESHOLD + CHUNK_SIZE + MetaSize,
           Chain(left, At("file", fileSender.file, fileSender.offset), msgs,
                 At("gap", fileSender.file, 0)),
           SendNextFile(sendFileIndex + 1, msgs, size),
           UNCHANGED <<selectedFiles, started, receiveVars, channel, link, net, historyVars>>
    PROVE  Inv'
<1> DEFINE f == fileSender.file
           end == Meta("batch-complete", NoFile)
           last == f >= Len(selectedFiles)
<1>1. /\ f \in Files /\ f = sendFileIndex + 1 /\ hashing = NoFile
      /\ outcome["sender"] # "complete" /\ sendFileIndex \in 0..Len(FileSize)
  BY DEF Inv, Queue, Sending
<1>2. f \in Nat /\ f \in 0..Len(FileSize) /\ sendFileIndex' = f
  BY <1>1, BatchFacts DEF SendNextFile
<1>3. end \in Message /\ end.len = MetaSize /\ MetaSize \in Nat
  BY Messages, TransferAssumption
<1>4. At("gap", f, 0) \in Place /\ At("done", 0, 0) \in Place
  BY <1>2 DEF At, Place
<1>5. CASE last
  <2>1. /\ Transmit(Append(msgs, end), size + MetaSize)
        /\ hashing' = NoFile /\ timer' = TRUE
        /\ shown' = Set(shown, "sender", "complete")
        /\ transferSuccessful' = Set(transferSuccessful, "sender", TRUE)
        /\ outcome' = Set(outcome, "sender", "complete")
    BY <1>1, <1>5 DEF SendNextFile
  <2>2. /\ shown' \in [Tabs -> {"none", "transfer", "complete"}]
        /\ transferSuccessful' \in [Tabs -> BOOLEAN]
        /\ outcome' \in [Tabs -> {"none", "complete", "cancelled"}]
    BY <2>1 DEF Set, Inv, TabTypes
  <2>3. /\ shown'["receiver"] = shown["receiver"]
        /\ transferSuccessful'["receiver"] = transferSuccessful["receiver"]
        /\ outcome'["receiver"] = outcome["receiver"] /\ outcome'["sender"] = "complete"
    BY <2>1 DEF Set, Inv, TabTypes, Tabs
  <2>4. TabTypes' /\ ReceiverRests
    BY <2>1, <2>2, <2>3 DEF Inv, TabTypes, ReceiverRests, historyVars
  <2>5. Queue'
    BY <1>2, <2>1, <2>3 DEF Inv, Queue, historyVars
  <2>6. Append(msgs, end) \in Seq(Message) /\ Sum(Append(msgs, end), size + MetaSize)
        /\ size + MetaSize \in Nat
    BY <1>3, SumAppend
  <2>7. Flow'
    <3>1. /\ out' \in Seq(Message) /\ bufferedAmount' \in Nat /\ Sum(out, bufferedAmount)'
          /\ bufferedAmount' = bufferedAmount + (size + MetaSize)
      BY <2>1, <2>6, TransmitFlow DEF Inv
    <3>2. BufferBounded'
      BY <1>3, <3>1, TransferAssumption DEF BufferBounded, Inv, Flow
    <3> QED BY <2>1, <3>1, <3>2 DEF Flow
  <2>8. InTransit'
    <3>1. ASSUME NEW t \in Place, SenderAt(t)
          PROVE  \E u \in Place : SenderAt(u)' /\ Chain(left, t, Append(msgs, end), u)
      <4>1. t = At("file", f, fileSender.offset)
        BY <1>1, <3>1 DEF SenderAt
      <4>2. f = Len(FileSize) \/ left
        <5>1. CASE selectedFiles = Batch
          BY <1>1, <1>2, <1>5, <5>1, BatchFacts
        <5>2. CASE selectedFiles # Batch
          BY <1>1, <5>2 DEF Inv, Queue
        <5> QED BY <5>1, <5>2
      <4>3. Leads(left, At("gap", f, 0), end, At("done", 0, 0))
        BY <4>2 DEF Leads, At
      <4>4. Chain(left, t, Append(msgs, end), At("done", 0, 0))
        BY <1>3, <1>4, <4>1, <4>3, ChainAppend
      <4>5. SenderAt(At("done", 0, 0))'
        BY <2>1 DEF SenderAt
      <4> QED BY <1>4, <4>4, <4>5
    <3>2. out' = out \o Append(msgs, end)
      BY <2>1 DEF Transmit
    <3>3. UNCHANGED <<receiveVars, channel, link, net, left>>
      BY DEF historyVars
    <3> QED BY <2>6, <3>1, <3>2, <3>3, TransitExtend DEF Inv
  <2>9. Received'
    BY <2>4, ReceivedRests DEF Inv
  <2> QED BY <2>4, <2>5, <2>7, <2>8, <2>9 DEF Inv
<1>6. CASE ~last
  <2>1. /\ Transmit(msgs, size) /\ hashing' = selectedFiles[f + 1]
        /\ UNCHANGED <<timer, tabVars>>
    BY <1>1, <1>6 DEF SendNextFile
  <2>2. /\ selectedFiles = Batch /\ f < Len(FileSize)
        /\ hashing' = f + 1 /\ f + 1 \in Files /\ f + 1 # NoFile
    <3>1. selectedFiles = Batch /\ f < Len(FileSize)
      BY <1>2, <1>6, BatchFacts DEF Inv, Queue
    <3>2. f + 1 \in Files
      BY <1>2, <3>1, BatchFacts
    <3> QED BY <2>1, <3>1, <3>2, BatchFacts, SenderFields
  <2>3. TabTypes' /\ ReceiverRests
    BY <2>1 DEF Inv, TabTypes, ReceiverRests, tabVars, historyVars
  <2>4. Queue'
    BY <1>1, <1>2, <2>1, <2>2 DEF Inv, Queue, tabVars, historyVars
  <2>5. Flow'
    <3>1. /\ out' \in Seq(Message) /\ bufferedAmount' \in Nat /\ Sum(out, bufferedAmount)'
          /\ bufferedAmount' = bufferedAmount + size
      BY <2>1, TransmitFlow DEF Inv
    <3>2. BufferBounded'
      BY <1>3, <3>1, TransferAssumption DEF BufferBounded, Inv, Flow
    <3> QED BY <3>1, <3>2 DEF Flow
  <2>6. InTransit'
    <3>1. ASSUME NEW t \in Place, SenderAt(t)
          PROVE  \E u \in Place : SenderAt(u)' /\ Chain(left, t, msgs, u)
      <4>1. t = At("file", f, fileSender.offset)
        BY <1>1, <3>1 DEF SenderAt
      <4>2. PICK u \in Place : u = At("gap", f, 0)
        BY <1>4
      <4>3. SenderAt(u)'
        BY <1>2, <2>2, <4>2 DEF SenderAt
      <4> QED BY <4>1, <4>2, <4>3
    <3>2. out' = out \o msgs
      BY <2>1 DEF Transmit
    <3>3. UNCHANGED <<receiveVars, channel, link, net, left>>
      BY DEF historyVars
    <3> QED BY <3>1, <3>2, <3>3, TransitExtend DEF Inv
  <2>7. Received'
    BY <2>3, ReceivedRests DEF Inv
  <2> QED BY <2>3, <2>4, <2>5, <2>6, <2>7 DEF Inv
<1> QED BY <1>5, <1>6

(* What one round of the send loop hands to the channel.                   *)
LEMMA Round ==
    ASSUME Inv, fileSender.reads # <<>>
    PROVE  /\ Sending /\ fileSender # NoSender /\ started /\ hashing = NoFile
           /\ outcome["sender"] # "complete"
           /\ Tail(fileSender.reads) = <<>>
           /\ BlockLength \in Nat \ {0}
           /\ fileSender.offset + BlockLength <= FileSize[fileSender.file]
           /\ ChunksToSend \in 0..BlockChunks
           /\ ChunksToSend > 0 => (ChunksToSend - 1) * CHUNK_SIZE < BlockLength
           /\ [k \in 1..ChunksToSend |-> Chunk(k)]
                 = Cut(fileSender.file, fileSender.offset, BlockLength, ChunksToSend)
           /\ Least(ChunksToSend * CHUNK_SIZE, BlockLength) \in Nat
           /\ bufferedAmount + Least(ChunksToSend * CHUNK_SIZE, BlockLength)
                 <= BUFFER_THRESHOLD + CHUNK_SIZE + 2 * MetaSize
           /\ IF ChunksToSend < BlockChunks
              THEN Least(ChunksToSend * CHUNK_SIZE, BlockLength) < BlockLength
              ELSE /\ Least(ChunksToSend * CHUNK_SIZE, BlockLength) = BlockLength
                   /\ bufferedAmount + BlockLength <= BUFFER_THRESHOLD + CHUNK_SIZE
<1> DEFINE f == fileSender.file
           o == fileSender.offset
           L == BlockLength
           B == BlockChunks
           n == ChunksToSend
           C == CHUNK_SIZE
           A == bufferedAmount
           T == BUFFER_THRESHOLD
<1>1. /\ Sending /\ fileSender # NoSender /\ started /\ hashing = NoFile
      /\ outcome["sender"] # "complete"
  BY SenderFields DEF Inv, Queue, TabTypes
<1>2. fileSender.reads = <<o>>
  BY <1>1 DEF Sending
<1>3. Head(fileSender.reads) = o /\ Tail(fileSender.reads) = <<>>
  BY <1>2
<1>4. f \in Files /\ o \in Nat /\ FileSize[f] \in Nat \ {0} /\ o < FileSize[f]
  BY <1>1, SizeType DEF Sending
<1>5. C \in Nat \ {0} /\ T \in Nat /\ READ_BLOCK_SIZE \in Nat \ {0} /\ MetaSize \in Nat
      /\ A \in Nat /\ A <= T + C + 2 * MetaSize
  BY TransferAssumption DEF Inv, Flow, BufferBounded
<1>6. L \in Nat \ {0} /\ o + L <= FileSize[f]
  BY <1>3, <1>4, <1>5, SMTT(30) DEF BlockLength, Least
<1> HIDE DEF f, o, L, B, n, C, A, T
<1>7. /\ B \in Nat \ {0} /\ B * C >= L
      /\ \A m \in Nat : m < B => m * C < L
  <2>1. B = (L + C - 1) \div C
    BY DEF B, L, C, BlockChunks
  <2> QED BY <1>5, <1>6, <2>1, ChunkCount
<1>8. n \in 0..B /\ (n > 0 => A + (n - 1) * C <= T)
  <2>1. n = Cardinality({k \in 0..(B - 1) : A + k * C <= T})
    BY DEF n, A, B, C, T, ChunksToSend
  <2>2. PICK x \in 0..B :
            /\ Cardinality({k \in 0..(B - 1) : A + k * C <= T}) = x
            /\ x > 0 => A + (x - 1) * C <= T
            /\ A <= T /\ B > 0 => x > 0
    <3>1. B \in Nat
      BY <1>7
    <3> QED BY <1>5, <3>1, ChunksUnderThreshold, ZenonT(60)
  <2> QED BY <2>1, <2>2
<1>9. n > 0 => (n - 1) * C < L
  <2> SUFFICES ASSUME n > 0 PROVE (n - 1) * C < L
    OBVIOUS
  <2>1. n - 1 \in Nat /\ n - 1 < B
    BY <1>7, <1>8
  <2> QED BY <1>7, <2>1
<1>10. [k \in 1..n |-> Chunk(k)] = Cut(f, o, L, n)
  BY <1>3 DEF Cut, Chunk, f, o, L
<1>11. n \in Nat /\ n * C \in Nat /\ (n > 0 => n * C = (n - 1) * C + C /\ (n - 1) * C \in Nat)
  BY <1>5, <1>7, <1>8
<1>12. Least(n * C, L) \in Nat /\ Least(n * C, L) <= n * C
  BY <1>6, <1>11 DEF Least
<1>13. n > 0 => A + Least(n * C, L) <= T + C
  <2> SUFFICES ASSUME n > 0 PROVE A + Least(n * C, L) <= T + C
    OBVIOUS
  <2>1. n * C = (n - 1) * C + C /\ (n - 1) * C \in Nat /\ A + (n - 1) * C <= T
    BY <1>8, <1>11
  <2> QED BY <1>5, <1>11, <1>12, <2>1
<1>14. A + Least(n * C, L) <= T + C + 2 * MetaSize
  <2>1. CASE n > 0
    BY <1>5, <1>12, <1>13, <2>1
  <2>2. CASE n = 0
    <3>1. n * C = 0
      BY <1>5, <2>2
    <3>2. Least(n * C, L) = 0
      BY <1>12, <3>1
    <3> QED BY <1>5, <3>2
  <2> QED BY <1>11, <2>1, <2>2
<1>15. IF n < B THEN Least(n * C, L) < L
       ELSE Least(n * C, L) = L /\ A + L <= T + C
  <2>1. CASE n < B
    <3>1. n * C < L
      BY <1>7, <1>11, <2>1
    <3>2. Least(n * C, L) < L
      BY <1>6, <1>11, <1>12, <3>1
    <3> QED BY <2>1, <3>2
  <2>2. CASE n >= B
    <3>1. n = B /\ n > 0
      BY <1>7, <1>8, <2>2
    <3>2. Least(n * C, L) = L
      BY <1>6, <1>7, <1>11, <3>1 DEF Least
    <3>3. A + L <= T + C
      BY <1>13, <3>1, <3>2
    <3>4. ~(n < B)
      BY <1>7, <3>1
    <3> QED BY <3>2, <3>3, <3>4
  <2> QED BY <1>7, <1>11, <2>1, <2>2
<1> QED
  BY <1>1, <1>3, <1>6, <1>8, <1>9, <1>10, <1>12, <1>14, <1>15 DEF f, o, L, B, n, C, A, T

LEMMA ReadFailsInv == Inv /\ ReadFails => Inv'
<1> SUFFICES ASSUME Inv, ReadFails PROVE Inv'
  OBVIOUS
<1>1. fileSender.reads # <<>>
  BY DEF ReadFails
<1>2. /\ Sending /\ fileSender # NoSender /\ started /\ hashing = NoFile
      /\ outcome["sender"] # "complete"
      /\ Tail(fileSender.reads) = <<>>
  BY <1>1, Round
<1>3. /\ fileSender \in [file : Files, offset : Nat, paused : BOOLEAN, reads : Seq(Nat)]
      /\ fileSender.file \in Files
  BY <1>2 DEF Sending
<1>4. /\ fileSender' = [fileSender EXCEPT !.reads = <<>>]
      /\ UNCHANGED <<selectedFiles, started, sendFileIndex, hashing, timer,
                     receiveVars, tabVars, linkVars, historyVars>>
  BY <1>2 DEF ReadFails
<1>5. Sending' /\ fileSender' # NoSender
      /\ fileSender'.file = fileSender.file /\ fileSender'.offset = fileSender.offset
  <2> DEFINE none == <<>>
  <2>1. none \in Seq(Nat)
    OBVIOUS
  <2>2. fileSender'.reads = <<>>
    BY <1>3, <1>4
  <2> HIDE DEF none
  <2>3. fileSender' = [fileSender EXCEPT !.reads = none]
    BY <1>4 DEF none
  <2>4. /\ fileSender' \in [file : Files, offset : Nat, paused : BOOLEAN, reads : Seq(Nat)]
        /\ fileSender'.file = fileSender.file /\ fileSender'.offset = fileSender.offset
    BY <1>3, <2>1, <2>3
  <2> QED BY <1>2, <1>3, <1>4, <2>2, <2>4, SenderFields DEF Sending
<1>6. TabTypes' /\ ReceiverRests
  BY <1>4 DEF Inv, TabTypes, ReceiverRests, tabVars, linkVars, historyVars
<1>7. Queue'
  BY <1>2, <1>4, <1>5 DEF Inv, Queue, tabVars, linkVars, historyVars
<1>8. Flow'
  BY <1>4 DEF Inv, Flow, BufferBounded, linkVars
<1>9. Received'
  BY <1>6, ReceivedRests DEF Inv
<1>10. InTransit'
  <2>1. ASSUME NEW r PROVE ReceiverAt(r) => ReceiverAt(r)'
    BY <1>4, ReceiverAtRests
  <2>2. ASSUME NEW t PROVE SenderAt(t) => SenderAt(t)'
    BY <1>2, <1>4, <1>5 DEF SenderAt
  <2> QED BY <1>4, <2>1, <2>2 DEF Inv, InTransit, Live, linkVars, historyVars
<1> QED BY <1>6, <1>7, <1>8, <1>9, <1>10 DEF Inv

LEMMA SendLoopInv == Inv /\ SendLoop => Inv'
<1> SUFFICES ASSUME Inv, SendLoop PROVE Inv'
  OBVIOUS
<1> DEFINE f == fileSender.file
           o == fileSender.offset
           L == BlockLength
           n == ChunksToSend
           chunks == [k \in 1..n |-> Chunk(k)]
           sent == Least(n * CHUNK_SIZE, L)
           end == Meta("file-end", NoFile)
<1>1. fileSender.reads # <<>>
  BY DEF SendLoop
<1>2. /\ Sending /\ fileSender # NoSender /\ started /\ hashing = NoFile
      /\ outcome["sender"] # "complete"
      /\ Tail(fileSender.reads) = <<>>
      /\ L \in Nat \ {0} /\ o + L <= FileSize[f]
      /\ n \in Nat /\ (n > 0 => (n - 1) * CHUNK_SIZE < L)
      /\ chunks = Cut(f, o, L, n)
      /\ sent \in Nat
  <2>1. n \in 0..BlockChunks
    BY <1>1, Round
  <2>2. n \in Nat
    BY <2>1
  <2> QED BY <1>1, <2>2, Round
<1>3. /\ bufferedAmount + sent <= BUFFER_THRESHOLD + CHUNK_SIZE + 2 * MetaSize
      /\ IF n < BlockChunks THEN sent < L
         ELSE sent = L /\ bufferedAmount + L <= BUFFER_THRESHOLD + CHUNK_SIZE
  BY <1>1, Round
<1>4. /\ fileSender \in [file : Files, offset : Nat, paused : BOOLEAN, reads : Seq(Nat)]
      /\ f \in Files /\ f = sendFileIndex + 1 /\ o \in Nat /\ o < FileSize[f]
      /\ FileSize[f] \in Nat \ {0}
  BY <1>2, SizeType DEF Sending
<1>5. UNCHANGED <<selectedFiles, started, receiveVars, channel, link, net, historyVars>>
  BY DEF SendLoop
<1>6. CASE channel["sender"] # "open"
  <2>1. /\ fileSender' = [fileSender EXCEPT !.reads = <<>>]
        /\ UNCHANGED <<sendFileIndex, hashing, timer, tabVars, out, bufferedAmount>>
    BY <1>2, <1>6 DEF SendLoop
  <2>2. Sending' /\ fileSender' # NoSender
    <3> DEFINE none == <<>>
    <3>1. none \in Seq(Nat)
      OBVIOUS
    <3>2. fileSender'.reads = <<>>
      BY <1>4, <2>1
    <3> HIDE DEF none
    <3>3. fileSender' = [fileSender EXCEPT !.reads = none]
      BY <2>1 DEF none
    <3>4. /\ fileSender' \in [file : Files, offset : Nat, paused : BOOLEAN, reads : Seq(Nat)]
          /\ fileSender'.file = f /\ fileSender'.offset = o
      BY <1>4, <3>1, <3>3
    <3> QED BY <1>4, <2>1, <3>2, <3>4, SenderFields DEF Sending
  <2>3. TabTypes' /\ ReceiverRests
    BY <1>5, <2>1 DEF Inv, TabTypes, ReceiverRests, tabVars, historyVars
  <2>4. Queue'
    BY <1>2, <1>5, <2>1, <2>2 DEF Inv, Queue, tabVars, historyVars
  <2>5. Flow'
    BY <1>2, <2>1 DEF Inv, Flow, BufferBounded
  <2>6. Received'
    BY <2>3, ReceivedRests DEF Inv
  <2>7. InTransit'
    <3>1. <<>> \in Seq(Message)
      OBVIOUS
    <3>2. UNCHANGED <<receiveVars, channel, link, net, left>> /\ ~Live
      BY <1>5, <1>6 DEF historyVars, Live
    <3> QED BY <3>1, <3>2, TransitExtend DEF Inv
  <2> QED BY <2>3, <2>4, <2>5, <2>6, <2>7 DEF Inv
<1>7. CASE channel["sender"] = "open"
  <2> HIDE DEF f, o, L, n, chunks, sent, end
  <2>1. chunks \in Seq(Message) /\ Sum(chunks, sent)
        /\ Chain(left, At("file", f, o), chunks, At("file", f, o + sent))
    BY <1>2, <1>4, CutIsSeq, CutSum, CutLeads DEF sent
  <2>2. o + sent \in Nat /\ At("file", f, o + sent) \in Place /\ f \in Nat
    BY <1>2, <1>4, BatchFacts DEF At, Place
  <2>3. ASSUME /\ Transmit(chunks, sent)
               /\ UNCHANGED <<sendFileIndex, hashing, timer, tabVars>>,
               Sending', fileSender' # NoSender,
               fileSender'.file = f, fileSender'.offset = o + sent
        PROVE  Inv'
    <3>1. TabTypes' /\ ReceiverRests
      BY <1>5, <2>3 DEF Inv, TabTypes, ReceiverRests, tabVars, historyVars
    <3>2. Queue'
      BY <1>2, <1>5, <2>3 DEF Inv, Queue, tabVars, historyVars
    <3>3. Flow'
      <4>1. /\ out' \in Seq(Message) /\ bufferedAmount' \in Nat /\ Sum(out, bufferedAmount)'
            /\ bufferedAmount' = bufferedAmount + sent
        BY <1>2, <1>7, <2>1, <2>3, TransmitFlow DEF Inv
      <4> QED BY <1>2, <1>3, <2>3, <4>1 DEF Flow, BufferBounded
    <3>4. Received'
      BY <3>1, ReceivedRests DEF Inv
    <3>5. InTransit'
      <4>1. ASSUME NEW t \in Place, SenderAt(t)
            PROVE  \E u \in Place : SenderAt(u)' /\ Chain(left, t, chunks, u)
        <5>1. t = At("file", f, o)
          BY <1>2, <4>1 DEF SenderAt, f, o
        <5>2. PICK u \in Place : u = At("file", f, o + sent)
          BY <2>2
        <5>3. SenderAt(u)'
          BY <1>2, <1>5, <2>3, <5>2 DEF SenderAt
        <5> QED BY <2>1, <5>1, <5>2, <5>3
      <4>2. out' = out \o chunks
        BY <1>7, <2>3 DEF Transmit
      <4>3. UNCHANGED <<receiveVars, channel, link, net, left>>
        BY <1>5 DEF historyVars
      <4> QED BY <2>1, <4>1, <4>2, <4>3, TransitExtend DEF Inv
    <3> QED BY <3>1, <3>2, <3>3, <3>4, <3>5 DEF Inv
  <2>4. CASE n < BlockChunks
    <3>1. /\ fileSender' = [fileSender EXCEPT !.offset = o + sent, !.paused = TRUE,
                                !.reads = <<>>]
          /\ Transmit(chunks, sent)
          /\ UNCHANGED <<sendFileIndex, hashing, timer, tabVars>>
      BY <1>2, <1>7, <2>4 DEF SendLoop, f, o, L, n, chunks, sent
    <3>2. o + sent < FileSize[f]
      BY <1>2, <1>3, <1>4, <2>4
    <3>3. /\ Sending' /\ fileSender' # NoSender
          /\ fileSender'.file = f /\ fileSender'.offset = o + sent
      <4> DEFINE none == <<>>
      <4>1. none \in Seq(Nat)
        OBVIOUS
      <4>2. fileSender'.reads = <<>>
        BY <1>4, <3>1
      <4> HIDE DEF none
      <4>3. fileSender' = [fileSender EXCEPT !.offset = o + sent, !.paused = TRUE,
                             !.reads = none]
        BY <3>1 DEF none
      <4>4. /\ fileSender' \in [file : Files, offset : Nat, paused : BOOLEAN, reads : Seq(Nat)]
            /\ fileSender'.file = f /\ fileSender'.offset = o + sent
        BY <1>4, <2>2, <4>1, <4>3 DEF f
      <4> QED BY <1>4, <3>1, <3>2, <4>2, <4>4, SenderFields DEF Sending
    <3> QED BY <2>3, <3>1, <3>3
  <2>5. CASE ~(n < BlockChunks) /\ o + sent < FileSize[f]
    <3>1. /\ fileSender' = [fileSender EXCEPT !.offset = o + sent,
                                !.reads = Append(<<>>, o + sent)]
          /\ Transmit(chunks, sent)
          /\ UNCHANGED <<sendFileIndex, hashing, timer, tabVars>>
      BY <1>2, <1>7, <2>5 DEF SendLoop, f, o, L, n, chunks, sent
    <3>2. ~fileSender.paused
      BY <1>1, <1>2 DEF Sending
    <3>3. /\ Sending' /\ fileSender' # NoSender
          /\ fileSender'.file = f /\ fileSender'.offset = o + sent
      <4> DEFINE one == Append(<<>>, o + sent)
      <4>1. one \in Seq(Nat) /\ one = <<o + sent>>
        BY <2>2
      <4> HIDE DEF one
      <4>2. fileSender' = [fileSender EXCEPT !.offset = o + sent, !.reads = one]
        BY <3>1 DEF one
      <4>3. /\ fileSender' \in [file : Files, offset : Nat, paused : BOOLEAN, reads : Seq(Nat)]
            /\ fileSender'.file = f /\ fileSender'.offset = o + sent
            /\ fileSender'.reads = one /\ fileSender'.paused = fileSender.paused
        BY <1>4, <2>2, <4>1, <4>2 DEF f
      <4> QED BY <1>4, <2>5, <3>1, <3>2, <4>1, <4>3, SenderFields DEF Sending
    <3> QED BY <2>3, <3>1, <3>3
  <2>6. CASE ~(n < BlockChunks) /\ ~(o + sent < FileSize[f])
    <3>1. /\ fileSender' = NoSender
          /\ SendNextFile(sendFileIndex + 1, Append(chunks, end), sent + MetaSize)
      BY <1>2, <1>7, <2>6 DEF SendLoop, f, o, L, n, chunks, sent, end
    <3>2. o + sent = FileSize[f] /\ sent + MetaSize \in Nat
          /\ bufferedAmount + (sent + MetaSize) <= BUFFER_THRESHOLD + CHUNK_SIZE + MetaSize
      <4>1. sent = L /\ bufferedAmount + L <= BUFFER_THRESHOLD + CHUNK_SIZE
        BY <1>3, <2>6
      <4>2. /\ bufferedAmount \in Nat /\ MetaSize \in Nat
            /\ BUFFER_THRESHOLD \in Nat /\ CHUNK_SIZE \in Nat
        BY TransferAssumption DEF Inv, Flow
      <4>3. o + sent = FileSize[f]
        BY <1>2, <1>4, <2>6, <4>1
      <4>4. sent + MetaSize \in Nat
            /\ bufferedAmount + (sent + MetaSize) <= BUFFER_THRESHOLD + CHUNK_SIZE + MetaSize
        BY <1>2, <4>1, <4>2
      <4> QED BY <4>3, <4>4
    <3>3. end \in Message /\ end.len = MetaSize
      BY Messages DEF end
    <3>4. Append(chunks, end) \in Seq(Message) /\ Sum(Append(chunks, end), sent + MetaSize)
      BY <2>1, <3>3, SumAppend
    <3>5. At("gap", f, 0) \in Place
      BY <2>2 DEF At, Place
    <3>6. Leads(left, At("file", f, o + sent), end, At("gap", f, 0))
      BY <1>4, <3>2 DEF Leads, At, end
    <3>7. Chain(left, At("file", f, o), Append(chunks, end), At("gap", f, 0))
      BY <2>1, <2>2, <3>3, <3>5, <3>6, ChainAppend
    <3> QED BY <1>2, <1>5, <1>7, <3>1, <3>2, <3>4, <3>7, SendNextFileInv DEF f, o
  <2> QED BY <2>4, <2>5, <2>6
<1> QED BY <1>6, <1>7

LEMMA DrainInv == Inv /\ Drain => Inv'
<1> SUFFICES ASSUME Inv, Drain PROVE Inv'
  OBVIOUS
<1> DEFINE m == Head(out)
<1>1. /\ Live /\ out # <<>> /\ out' = Tail(out) /\ net' = Append(net, m)
      /\ bufferedAmount' = bufferedAmount - m.len
      /\ UNCHANGED <<selectedFiles, started, sendFileIndex, hashing, timer,
                     receiveVars, tabVars, channel, link, back, historyVars>>
  BY DEF Drain, Live
<1>2. /\ out \in Seq(Message) /\ bufferedAmount \in Nat /\ Sum(out, bufferedAmount)
      /\ m \in Message /\ Tail(out) \in Seq(Message)
  BY <1>1 DEF Inv, Flow
<1>3. m.len \in Nat /\ bufferedAmount - m.len \in Nat
      /\ Sum(Tail(out), bufferedAmount - m.len)
  BY <1>1, <1>2, SumTail
<1> HIDE DEF m
<1>4. TabTypes' /\ ReceiverRests
  BY <1>1 DEF Inv, TabTypes, ReceiverRests, tabVars, historyVars
<1>5. \/ fileSender' = fileSender
      \/ /\ Sending /\ Sending' /\ fileSender # NoSender /\ fileSender' # NoSender
         /\ fileSender'.file = fileSender.file /\ fileSender'.offset = fileSender.offset
  <2> SUFFICES ASSUME fileSender' # fileSender
               PROVE  /\ Sending /\ Sending' /\ fileSender # NoSender /\ fileSender' # NoSender
                      /\ fileSender'.file = fileSender.file
                      /\ fileSender'.offset = fileSender.offset
    OBVIOUS
  <2> DEFINE woken == Append(fileSender.reads, fileSender.offset)
  <2>1. /\ fileSender.paused
        /\ fileSender' = [fileSender EXCEPT !.paused = FALSE, !.reads = woken]
    BY DEF Drain, OnBufferLow
  <2>2. fileSender # NoSender /\ Sending
    BY <2>1, SenderFields DEF Inv, Queue
  <2>3. fileSender.reads = <<>> /\ fileSender.offset \in Nat
    BY <2>1, <2>2 DEF Sending
  <2>4. woken \in Seq(Nat) /\ woken = <<fileSender.offset>>
    <3>1. Append(<<>>, fileSender.offset) \in Seq(Nat)
          /\ Append(<<>>, fileSender.offset) = <<fileSender.offset>>
      BY <2>3
    <3> QED BY <2>3, <3>1
  <2> HIDE DEF woken
  <2>5. /\ fileSender \in [file : Files, offset : Nat, paused : BOOLEAN, reads : Seq(Nat)]
        /\ fileSender.file = sendFileIndex + 1
        /\ fileSender.offset < FileSize[fileSender.file] /\ fileSender.file \in Files
    BY <2>2 DEF Sending
  <2>6. /\ fileSender' \in [file : Files, offset : Nat, paused : BOOLEAN, reads : Seq(Nat)]
        /\ fileSender'.file = fileSender.file /\ fileSender'.offset = fileSender.offset
        /\ fileSender'.reads = woken /\ fileSender'.paused = FALSE
    BY <2>1, <2>4, <2>5
  <2>7. Sending'
    BY <1>1, <2>4, <2>5, <2>6 DEF Sending
  <2>8. fileSender' # NoSender
    BY <2>5, <2>6, SenderFields
  <2> QED BY <2>2, <2>6, <2>7, <2>8
<1>6. Queue'
  <2>1. fileSender' = NoSender \/ Sending'
    <3>1. CASE fileSender' = fileSender
      BY <1>1, <3>1 DEF Inv, Queue, Sending
    <3> QED BY <1>5, <3>1
  <2>2. fileSender = NoSender => fileSender' = NoSender
    BY <1>5
  <2>3. ~started => bufferedAmount' = 0
    BY <1>2, <1>3, <1>1 DEF Inv, Queue
  <2> QED BY <1>1, <2>1, <2>2, <2>3 DEF Inv, Queue, tabVars, historyVars
<1>7. Flow'
  BY <1>1, <1>2, <1>3, TransferAssumption, SMTT(30) DEF Inv, Flow, BufferBounded
<1>8. Received'
  BY <1>4, ReceivedRests DEF Inv
<1>9. InTransit'
  <2>1. net \in Seq(Message \cup {Closed}) /\ m \in Message \cup {Closed}
    BY <1>2 DEF Inv, InTransit
  <2>2. net' \in Seq(Message \cup {Closed})
    BY <1>1, <2>1
  <2> SUFFICES ASSUME channel["receiver"] = "open"
               PROVE  \E r \in Place, e \in Place :
                         /\ ReceiverAt(r)' /\ Chain(left, r, net', e)
                         /\ \E t \in Place : SenderAt(t)' /\ Chain(left, e, out', t)
    BY <1>1, <2>2 DEF InTransit, historyVars
  <2>3. PICK r \in Place, e \in Place, t \in Place :
            /\ ReceiverAt(r) /\ Chain(left, r, net, e)
            /\ SenderAt(t) /\ Chain(left, e, out, t)
    BY <1>1 DEF Inv, InTransit
  <2>4. PICK c \in Place : Leads(left, e, m, c) /\ Chain(left, c, Tail(out), t)
    BY <1>1, <1>2, <2>3, ChainTail DEF m
  <2>5. Chain(left, r, Append(net, m), c)
    BY <2>1, <2>3, <2>4, ChainAppend
  <2>6. ReceiverAt(r)'
    BY <1>1, <2>3, ReceiverAtRests
  <2>7. SenderAt(t)'
    BY <1>1, <1>5, <2>3 DEF SenderAt
  <2> QED BY <1>1, <2>4, <2>5, <2>6, <2>7
<1> QED BY <1>4, <1>6, <1>7, <1>8, <1>9 DEF Inv

(* A queue that is broken off: a prefix of it, and the end of the channel. *)
LEMMA BrokenOff ==
    ASSUME NEW l, NEW S, NEW q \in Seq(S \cup {Closed}), NEW r, NEW b, Chain(l, r, q, b),
           NEW p \in Prefixes(q)
    PROVE  /\ Append(p, Closed) \in Seq(S \cup {Closed})
           /\ \E c \in Place : Chain(l, r, Append(p, Closed), c)
<1>1. PICK n \in 0..Len(q) : p = SubSeq(q, 1, n)
  BY DEF Prefixes
<1>2. p \in Seq(S \cup {Closed})
  BY <1>1
<1>3. PICK c \in Place : Chain(l, r, p, c)
  BY <1>1, ChainPrefix
<1>4. At("over", 0, 0) \in Place
  BY DEF At, Place
<1>5. Leads(l, c, Closed, At("over", 0, 0))
  BY DEF Leads
<1>6. Chain(l, r, Append(p, Closed), At("over", 0, 0))
  BY <1>2, <1>3, <1>4, <1>5, ChainAppend
<1> QED BY <1>2, <1>4, <1>6

(* The sending tab closes the connection with or without a last message.   *)
LEMMA TransitCut ==
    ASSUME Inv, NEW pending \in {<<>>, <<Meta("transfer-cancelled", NoFile)>>},
           CloseSender(pending), UNCHANGED <<receiveVars, left>>
    PROVE  InTransit' /\ out' = <<>> /\ bufferedAmount' = 0
           /\ channel' \in [Tabs -> {"open", "closed"}] /\ link' = "down"
           /\ channel'["receiver"] = channel["receiver"] /\ channel'["sender"] = "closed"
<1>1. /\ out' = <<>> /\ bufferedAmount' = 0 /\ link' = "down"
      /\ channel' = Set(channel, "sender", "closed")
  BY DEF CloseSender
<1>2. /\ channel' \in [Tabs -> {"open", "closed"}]
      /\ channel'["receiver"] = channel["receiver"] /\ channel'["sender"] = "closed"
  BY <1>1 DEF Set, Tabs, Inv, TabTypes
<1>3. /\ out \in Seq(Message) /\ net \in Seq(Message \cup {Closed})
      /\ out \in Seq(Message \cup {Closed}) /\ pending \in Seq(Message \cup {Closed})
  <2>1. Meta("transfer-cancelled", NoFile) \in Message
    BY Messages
  <2>2. <<>> \in Seq(Message \cup {Closed})
        /\ <<Meta("transfer-cancelled", NoFile)>> \in Seq(Message \cup {Closed})
    BY <2>1
  <2>3. out \in Seq(Message) /\ net \in Seq(Message \cup {Closed})
    BY DEF Inv, Flow, InTransit
  <2>4. \A q \in Seq(Message) : q \in Seq(Message \cup {Closed})
    OBVIOUS
  <2> QED BY <2>2, <2>3, <2>4
<1>4. InTransit'
  <2> DEFINE q == net \o out \o pending
  <2>1. q \in Seq(Message \cup {Closed})
    BY <1>3
  <2>2. ASSUME channel["receiver"] = "open", Live
        PROVE  \E r \in Place, c \in Place : ReceiverAt(r) /\ Chain(left, r, q, c)
    <3>1. PICK r \in Place, e \in Place, t \in Place :
              /\ ReceiverAt(r) /\ Chain(left, r, net, e)
              /\ SenderAt(t) /\ Chain(left, e, out, t)
      BY <2>2 DEF Inv, InTransit
    <3>2. Chain(left, r, net \o out, t) /\ net \o out \in Seq(Message \cup {Closed})
      BY <1>3, <3>1, ChainConcat
    <3>3. \E c \in Place : Chain(left, t, pending, c)
      <4>1. CASE pending = <<>>
        BY <4>1, ChainEmpty
      <4>2. CASE pending = <<Meta("transfer-cancelled", NoFile)>>
        <5>1. Leads(left, t, Meta("transfer-cancelled", NoFile), At("over", 0, 0))
          BY DEF Leads
        <5>2. At("over", 0, 0) \in Place
          BY DEF At, Place
        <5> QED BY <4>2, <5>1, <5>2, ChainOne
      <4> QED BY <4>1, <4>2
    <3>4. PICK c \in Place : Chain(left, t, pending, c)
      BY <3>3
    <3>5. Chain(left, r, (net \o out) \o pending, c)
      BY <1>3, <3>2, <3>4, ChainConcat
    <3> QED BY <3>1, <3>5
  <2> HIDE DEF q
  <2>3. CASE Live
    <3>1. PICK p \in Prefixes(q) : net' = Append(p, Closed)
      BY <2>3 DEF CloseSender, Live, q
    <3>2. net' \in Seq(Message \cup {Closed})
      <4>1. PICK n \in 0..Len(q) : p = SubSeq(q, 1, n)
        BY DEF Prefixes
      <4>2. p \in Seq(Message \cup {Closed})
        BY <2>1, <4>1
      <4> QED BY <3>1, <4>2
    <3>3. ASSUME channel["receiver"] = "open"
          PROVE  \E r \in Place, c \in Place : ReceiverAt(r)' /\ Chain(left', r, net', c)
      <4>1. PICK r \in Place, c \in Place : ReceiverAt(r) /\ Chain(left, r, q, c)
        BY <2>2, <2>3, <3>3
      <4>2. PICK d \in Place : Chain(left, r, Append(p, Closed), d)
        BY <2>1, <4>1, BrokenOff
      <4>3. ReceiverAt(r)'
        BY <4>1, ReceiverAtRests
      <4> QED BY <3>1, <4>2, <4>3
    <3> QED BY <1>1, <1>2, <3>2, <3>3 DEF InTransit, Live
  <2>4. CASE ~Live
    <3>1. net' = net
      BY <2>4 DEF CloseSender, Live
    <3>2. ASSUME channel["receiver"] = "open"
          PROVE  \E r \in Place, e \in Place : ReceiverAt(r)' /\ Chain(left', r, net', e)
      <4>1. PICK r \in Place, e \in Place : ReceiverAt(r) /\ Chain(left, r, net, e)
        BY <3>2 DEF Inv, InTransit
      <4>2. ReceiverAt(r)'
        BY <4>1, ReceiverAtRests
      <4> QED BY <3>1, <4>1, <4>2
    <3> QED BY <1>1, <1>2, <1>3, <3>1, <3>2 DEF InTransit, Live
  <2> QED BY <2>3, <2>4
<1> QED BY <1>1, <1>2, <1>4

LEMMA EmptyFlow ==
    ASSUME Flow, out' = <<>>, bufferedAmount' = 0 PROVE Flow'
<1>1. <<>> \in Seq(Message)
  OBVIOUS
<1>2. BufferBounded' /\ 0 <= BUFFER_THRESHOLD + CHUNK_SIZE + MetaSize
  BY TransferAssumption DEF BufferBounded
<1> QED BY <1>1, <1>2, SumEmpty DEF Flow

LEMMA CloseTimerInv == Inv /\ CloseTimer => Inv'
<1> SUFFICES ASSUME Inv, CloseTimer PROVE Inv'
  OBVIOUS
<1>1. /\ timer' = FALSE /\ CloseSender(<<>>)
      /\ UNCHANGED <<selectedFiles, started, sendFileIndex, hashing, fileSender,
                     receiveVars, tabVars, left, aborted>>
      /\ cut' \in BOOLEAN
  BY DEF CloseTimer
<1>2. /\ InTransit' /\ out' = <<>> /\ bufferedAmount' = 0
      /\ channel' \in [Tabs -> {"open", "closed"}] /\ link' = "down"
      /\ channel'["receiver"] = channel["receiver"] /\ channel'["sender"] = "closed"
  BY <1>1, TransitCut
<1>3. TabTypes' /\ ReceiverRests
  BY <1>1, <1>2 DEF Inv, TabTypes, ReceiverRests, tabVars
<1>4. Queue'
  BY <1>1, <1>2 DEF Inv, Queue, Sending, tabVars
<1>5. Flow'
  BY <1>2, EmptyFlow DEF Inv
<1>6. Received'
  BY <1>3, ReceivedRests DEF Inv
<1> QED BY <1>2, <1>3, <1>4, <1>5, <1>6 DEF Inv

LEMMA CancelSendingInv ==
    ASSUME Inv, NEW pending \in {<<>>, <<Meta("transfer-cancelled", NoFile)>>},
           CancelSending(pending), aborted' \in BOOLEAN
    PROVE  Inv' /\ ReceiverRests
<1>1. /\ fileSender' = NoSender /\ CloseSender(pending) /\ selectedFiles' = <<>>
      /\ shown' = Set(shown, "sender", "none")
      /\ outcome' = Set(outcome, "sender", "cancelled")
      /\ UNCHANGED <<started, sendFileIndex, hashing, timer, receiveVars,
                     transferSuccessful, left, cut>>
  BY DEF CancelSending
<1>2. /\ InTransit' /\ out' = <<>> /\ bufferedAmount' = 0
      /\ channel' \in [Tabs -> {"open", "closed"}] /\ link' = "down"
      /\ channel'["receiver"] = channel["receiver"] /\ channel'["sender"] = "closed"
  BY <1>1, TransitCut
<1>3. /\ shown' \in [Tabs -> {"none", "transfer", "complete"}]
      /\ outcome' \in [Tabs -> {"none", "complete", "cancelled"}]
  BY <1>1 DEF Set, Inv, TabTypes
<1>4. /\ shown'["receiver"] = shown["receiver"]
      /\ outcome'["receiver"] = outcome["receiver"] /\ outcome'["sender"] = "cancelled"
  BY <1>1 DEF Set, Inv, TabTypes, Tabs
<1>5. TabTypes' /\ ReceiverRests
  BY <1>1, <1>2, <1>3, <1>4 DEF Inv, TabTypes, ReceiverRests
<1>6. Queue'
  BY <1>1, <1>2, <1>4 DEF Inv, Queue
<1>7. Flow'
  BY <1>2, EmptyFlow DEF Inv
<1>8. Received'
  BY <1>5, ReceivedRests DEF Inv
<1> QED BY <1>2, <1>5, <1>6, <1>7, <1>8 DEF Inv

LEMMA SenderOnCloseInv == Inv /\ SenderOnClose => Inv' /\ ReceiverRests
<1> SUFFICES ASSUME Inv, SenderOnClose PROVE Inv' /\ ReceiverRests
  OBVIOUS
<1>1. aborted' \in BOOLEAN /\ UNCHANGED aborted
  BY DEF SenderOnClose, Inv, TabTypes
<1>2. CASE CancelSending(<<>>)
  BY <1>1, <1>2, CancelSendingInv
<1>3. CASE /\ channel' = Set(channel, "sender", "closed")
           /\ UNCHANGED <<sendVars, receiveVars, tabVars, link, bufferedAmount,
                          out, net, back, left, cut>>
  <2>1. channel' \in [Tabs -> {"open", "closed"}]
        /\ channel'["receiver"] = channel["receiver"] /\ channel'["sender"] = "closed"
    BY <1>3 DEF Set, Inv, TabTypes, Tabs
  <2>2. TabTypes' /\ ReceiverRests
    BY <1>1, <1>3, <2>1 DEF Inv, TabTypes, ReceiverRests, tabVars, sendVars
  <2>3. Queue'
    BY <1>3, <2>1 DEF Inv, Queue, Sending, sendVars, tabVars
  <2>4. Flow'
    BY <1>3 DEF Inv, Flow, BufferBounded, sendVars
  <2>5. Received'
    BY <2>2, ReceivedRests DEF Inv
  <2>6. InTransit'
    <3>1. ASSUME NEW r PROVE ReceiverAt(r) => ReceiverAt(r)'
      BY <1>3, ReceiverAtRests
    <3> QED BY <1>3, <2>1, <3>1 DEF Inv, InTransit, Live
  <2> QED BY <2>2, <2>3, <2>4, <2>5, <2>6 DEF Inv
<1> QED BY <1>2, <1>3 DEF SenderOnClose

LEMMA SenderBackInv == Inv /\ SenderBack => Inv'
<1> SUFFICES ASSUME Inv, SenderBack PROVE Inv'
  OBVIOUS
<1>1. /\ selectedFiles' = <<>> /\ shown' = Set(shown, "sender", "none")
      /\ left' = (left \/ outcome["sender"] # "complete")
      /\ UNCHANGED <<started, sendFileIndex, hashing, fileSender, timer,
                     receiveVars, transferSuccessful, outcome, linkVars, aborted, cut>>
  BY DEF SenderBack
<1>2. left' \in BOOLEAN /\ (left => left') /\ (~left /\ ~left' => outcome["sender"] = "complete")
      /\ (left' = left \/ left' = TRUE)
  BY <1>1 DEF Inv, TabTypes
<1>3. shown' \in [Tabs -> {"none", "transfer", "complete"}]
      /\ shown'["receiver"] = shown["receiver"]
  BY <1>1 DEF Set, Inv, TabTypes, Tabs
<1>4. TabTypes' /\ ReceiverRests
  BY <1>1, <1>2, <1>3 DEF Inv, TabTypes, ReceiverRests, linkVars
<1>5. Queue'
  BY <1>1, <1>2 DEF Inv, Queue, Sending, linkVars
<1>6. Flow'
  BY <1>1 DEF Inv, Flow, BufferBounded, linkVars
<1>7. Received'
  BY <1>4, ReceivedRests DEF Inv
<1>8. InTransit'
  <2>1. ASSUME NEW a, NEW q, NEW b, Chain(left, a, q, b) PROVE Chain(left', a, q, b)
    BY <1>2, <2>1, ChainAfterLeaving
  <2>2. ASSUME NEW r PROVE ReceiverAt(r) => ReceiverAt(r)'
    BY <1>1, ReceiverAtRests
  <2>3. ASSUME NEW t PROVE SenderAt(t) => SenderAt(t)'
    BY <1>1 DEF SenderAt
  <2>4. UNCHANGED <<net, out>> /\ channel' = channel /\ link' = link
    BY <1>1 DEF linkVars
  <2>5. net' \in Seq(Message \cup {Closed})
    BY <2>4 DEF Inv, InTransit
  <2> SUFFICES ASSUME channel["receiver"] = "open"
               PROVE  \E r \in Place, e \in Place :
                         /\ ReceiverAt(r)' /\ Chain(left', r, net', e)
                         /\ Live => \E t \in Place : SenderAt(t)' /\ Chain(left', e, out', t)
    BY <2>4, <2>5 DEF InTransit, Live
  <2>6. PICK r \in Place, e \in Place :
            /\ ReceiverAt(r) /\ Chain(left, r, net, e)
            /\ Live => \E t \in Place : SenderAt(t) /\ Chain(left, e, out, t)
    BY DEF Inv, InTransit
  <2>7. ReceiverAt(r)' /\ Chain(left', r, net', e)
    BY <2>1, <2>2, <2>4, <2>6
  <2>8. ASSUME Live PROVE \E t \in Place : SenderAt(t)' /\ Chain(left', e, out', t)
    <3>1. PICK t \in Place : SenderAt(t) /\ Chain(left, e, out, t)
      BY <2>6, <2>8
    <3> QED BY <2>1, <2>3, <2>4, <3>1
  <2> QED BY <2>7, <2>8
<1> QED BY <1>4, <1>5, <1>6, <1>7, <1>8 DEF Inv

LEMMA BreakInv == Inv /\ Break => Inv'
<1> SUFFICES ASSUME Inv, Break PROVE Inv'
  OBVIOUS
<1>1. /\ link' = "down" /\ aborted' = TRUE
      /\ UNCHANGED <<sendVars, receiveVars, tabVars, channel, out, bufferedAmount,
                     left, cut>>
  BY DEF Break
<1>2. PICK p \in Prefixes(net) : net' = Append(p, Closed)
  BY DEF Break
<1>3. TabTypes' /\ ReceiverRests
  BY <1>1 DEF Inv, TabTypes, ReceiverRests, tabVars, sendVars
<1>4. Queue'
  BY <1>1 DEF Inv, Queue, Sending, sendVars, tabVars
<1>5. Flow'
  BY <1>1 DEF Inv, Flow, BufferBounded, sendVars
<1>6. Received'
  BY <1>3, ReceivedRests DEF Inv
<1>7. InTransit'
  <2>1. net \in Seq(Message \cup {Closed})
    BY DEF Inv, InTransit
  <2>2. net' \in Seq(Message \cup {Closed})
    <3>1. PICK n \in 0..Len(net) : p = SubSeq(net, 1, n)
      BY DEF Prefixes
    <3>2. p \in Seq(Message \cup {Closed})
      BY <2>1, <3>1
    <3> QED BY <1>2, <3>2
  <2>3. ASSUME channel["receiver"] = "open"
        PROVE  \E r \in Place, c \in Place : ReceiverAt(r)' /\ Chain(left', r, net', c)
    <3>1. PICK r \in Place, e \in Place : ReceiverAt(r) /\ Chain(left, r, net, e)
      BY <2>3 DEF Inv, InTransit
    <3>2. PICK d \in Place : Chain(left, r, Append(p, Closed), d)
      BY <2>1, <3>1, BrokenOff
    <3>3. ReceiverAt(r)'
      BY <1>1, <3>1, ReceiverAtRests
    <3> QED BY <1>1, <1>2, <3>2, <3>3
  <2> QED BY <1>1, <2>2, <2>3 DEF InTransit, Live
<1> QED BY <1>3, <1>4, <1>5, <1>6, <1>7 DEF Inv

-----------------------------------------------------------------------------
(* Steps of the receiving tab.                                             *)

(* A step of the receiving tab leaves the sending tab as it is.            *)
SenderRests ==
    /\ UNCHANGED <<sendVars, out, bufferedAmount, historyVars>>
    /\ channel'["sender"] = channel["sender"]
    /\ outcome'["sender"] = outcome["sender"]

LEMMA SenderPartRests == Inv /\ SenderRests => Queue' /\ Flow'
<1> SUFFICES ASSUME Inv, SenderRests PROVE Queue' /\ Flow'
  OBVIOUS
<1>1. Queue'
  BY DEF SenderRests, Inv, Queue, Sending, sendVars, historyVars
<1>2. Flow'
  BY DEF SenderRests, Inv, Flow, BufferBounded, sendVars
<1> QED BY <1>1, <1>2

(* Each message is read at the place in the script it leads on from.       *)
LEMMA Reading ==
    ASSUME Inv, NEW type, Receives(type)
    PROVE  /\ outcome["receiver"] = "none" /\ ~transferSuccessful["receiver"]
           /\ \E r \in Place, c \in Place :
                 ReceiverAt(r) /\ Leads(left, r, Head(net), c)
<1>1. channel["receiver"] = "open" /\ net # <<>> /\ net \in Seq(Message \cup {Closed})
  BY DEF Receives, Inv, InTransit
<1>2. PICK r \in Place, e \in Place : ReceiverAt(r) /\ Chain(left, r, net, e)
  BY <1>1 DEF Inv, InTransit
<1>3. \E c \in Place : Leads(left, r, Head(net), c)
  BY <1>1, <1>2, ChainTail
<1>4. outcome["receiver"] = "none" /\ ~transferSuccessful["receiver"]
  BY <1>1 DEF Inv, Received
<1> QED BY <1>2, <1>3, <1>4

LEMMA MessageTypes ==
    /\ \A files : Announcement(files).type = "batch-start" /\ Announcement(files).files = files
    /\ \A type, f : Meta(type, f).type = type /\ Meta(type, f).file = f
    /\ \A f, a, n : /\ Data(f, a, n).type = "data" /\ Data(f, a, n).file = f
                    /\ Data(f, a, n).from = a /\ Data(f, a, n).len = n
    /\ Closed.type = "closed"
BY DEF Announcement, Meta, Data, Closed

LEMMA Places ==
    \A x, k, p : At(x, k, p).phase = x /\ At(x, k, p).k = k /\ At(x, k, p).p = p
BY DEF At

LEMMA TransitConsume ==
    ASSUME Inv, NEW type, Receives(type), Consume, SenderRests,
           \A r \in Place, c \in Place :
              ReceiverAt(r) /\ Leads(left, r, Head(net), c) => ReceiverAt(c)'
    PROVE  InTransit'
<1>1. /\ channel["receiver"] = "open" /\ net # <<>> /\ net \in Seq(Message \cup {Closed})
      /\ net' = Tail(net) /\ UNCHANGED <<channel, link, out, left>>
  BY DEF Receives, Consume, Inv, InTransit, SenderRests, historyVars
<1>2. PICK r \in Place, e \in Place :
          /\ ReceiverAt(r) /\ Chain(left, r, net, e)
          /\ Live => \E t \in Place : SenderAt(t) /\ Chain(left, e, out, t)
  BY <1>1 DEF Inv, InTransit
<1>3. PICK c \in Place : Leads(left, r, Head(net), c) /\ Chain(left, c, Tail(net), e)
  BY <1>1, <1>2, ChainTail
<1>4. ReceiverAt(c)'
  BY <1>2, <1>3
<1>5. ASSUME NEW t, SenderAt(t) PROVE SenderAt(t)'
  BY <1>5 DEF SenderAt, SenderRests, sendVars
<1>6. net' \in Seq(Message \cup {Closed})
  BY <1>1
<1>7. Live' = Live
  BY <1>1 DEF Live
<1>8. Chain(left', c, net', e)
  BY <1>1, <1>3
<1>9. ASSUME Live PROVE \E t \in Place : SenderAt(t)' /\ Chain(left', e, out', t)
  <2>1. PICK t \in Place : SenderAt(t) /\ Chain(left, e, out, t)
    BY <1>2, <1>9
  <2> QED BY <1>1, <1>5, <2>1
<1> QED BY <1>4, <1>6, <1>7, <1>8, <1>9 DEF InTransit

(* The receiving tab closes the connection.                                *)
LEMMA TransitClosed ==
    ASSUME Inv, NEW pending, CloseReceiver(pending)
    PROVE  /\ InTransit' /\ UNCHANGED <<out, bufferedAmount>> /\ link' = "down"
           /\ channel' \in [Tabs -> {"open", "closed"}]
           /\ channel'["sender"] = channel["sender"] /\ channel'["receiver"] = "closed"
<1>1. /\ channel' = Set(channel, "receiver", "closed") /\ link' = "down"
      /\ net' = <<>> /\ UNCHANGED <<out, bufferedAmount>>
  BY DEF CloseReceiver
<1>2. /\ channel' \in [Tabs -> {"open", "closed"}]
      /\ channel'["sender"] = channel["sender"] /\ channel'["receiver"] = "closed"
  BY <1>1 DEF Set, Tabs, Inv, TabTypes
<1>3. <<>> \in Seq(Message \cup {Closed})
  OBVIOUS
<1> QED BY <1>1, <1>2, <1>3 DEF InTransit

(* The announcement is the first thing to arrive, once.                    *)
LEMMA ReadBatchStart ==
    ASSUME Inv, Receives("batch-start")
    PROVE  /\ batchMetadata = NoBatch /\ receivedFiles = <<>>
           /\ Head(net).files \in {Batch, <<>>}
           /\ Head(net).files = <<>> => left
           /\ \A r \in Place, c \in Place : ReceiverAt(r) /\ Leads(left, r, Head(net), c) =>
                 c = IF Head(net).files = Batch THEN At("gap", 0, 0) ELSE At("empty", 0, 0)
<1>1. Head(net).type = "batch-start"
  BY DEF Receives
<1>2. ASSUME NEW r \in Place, NEW c \in Place, ReceiverAt(r), Leads(left, r, Head(net), c)
      PROVE  /\ r = At("start", 0, 0)
             /\ \/ Head(net).files = Batch /\ c = At("gap", 0, 0)
                \/ Head(net).files = <<>> /\ c = At("empty", 0, 0) /\ left
  BY <1>1, <1>2, MessageTypes DEF Leads
<1>3. PICK r \in Place, c \in Place : ReceiverAt(r) /\ Leads(left, r, Head(net), c)
  BY Reading
<1>4. r = At("start", 0, 0) => batchMetadata = NoBatch /\ receivedFiles = <<>>
  BY <1>3, Places DEF ReceiverAt
<1> QED BY <1>2, <1>3, <1>4, BatchFacts

LEMMA HandleBatchStartInv == Inv /\ HandleBatchStart => Inv'
<1> SUFFICES ASSUME Inv, HandleBatchStart PROVE Inv'
  OBVIOUS
<1>1. /\ Receives("batch-start")
      /\ batchMetadata' = Head(net).files /\ receivedFiles' = <<>>
      /\ transferSuccessful' = Set(transferSuccessful, "receiver", FALSE)
      /\ shown' = Set(shown, "receiver", "transfer")
      /\ Consume
      /\ UNCHANGED <<sendVars, fileReceiver, outcome, historyVars>>
  BY DEF HandleBatchStart
<1>2. channel["receiver"] = "open" /\ UNCHANGED <<channel, link, bufferedAmount, out>>
  BY <1>1 DEF Receives, Consume
<1>3. /\ Head(net).files \in {Batch, <<>>}
      /\ \A r \in Place, c \in Place : ReceiverAt(r) /\ Leads(left, r, Head(net), c) =>
            c = IF Head(net).files = Batch THEN At("gap", 0, 0) ELSE At("empty", 0, 0)
  BY <1>1, ReadBatchStart
<1>4. /\ shown' \in [Tabs -> {"none", "transfer", "complete"}]
      /\ transferSuccessful' \in [Tabs -> BOOLEAN]
      /\ ~transferSuccessful'["receiver"]
  BY <1>1 DEF Set, Tabs, Inv, TabTypes
<1>5. TabTypes'
  BY <1>1, <1>2, <1>4 DEF Inv, TabTypes, sendVars, historyVars
<1>6. SenderRests
  BY <1>1, <1>2 DEF SenderRests
<1>7. <<>> \in Seq([name : Files, blob : Seq(Pieces)]) /\ Len(<<>>) = 0
  OBVIOUS
<1>8. Received'
  <2>1. /\ batchMetadata' \in {NoBatch, Batch, <<>>}
        /\ receivedFiles' \in Seq([name : Files, blob : Seq(Pieces)])
    BY <1>1, <1>3, <1>7
  <2>2. Len(receivedFiles') = 0
    BY <1>1, <1>7
  <2>3. \A i \in 1..Len(receivedFiles') : FALSE
    BY <2>2
  <2>4. channel'["receiver"] = "open" /\ outcome'["receiver"] = "none"
    BY <1>1, <1>2, Reading
  <2>5. \/ fileReceiver' = NoReceiver
        \/ /\ fileReceiver'.file \in Files
           /\ fileReceiver'.receivedBytes \in 0..FileSize[fileReceiver'.file]
           /\ fileReceiver'.chunks \in Seq(Pieces)
    BY <1>1 DEF Inv, Received
  <2> QED BY <1>4, <2>1, <2>3, <2>4, <2>5 DEF Received
<1>9. InTransit'
  <2>1. ASSUME NEW c, c = IF Head(net).files = Batch THEN At("gap", 0, 0) ELSE At("empty", 0, 0)
        PROVE  ReceiverAt(c)'
    <3>1. CASE Head(net).files = Batch
      BY <1>1, <1>7, <2>1, <3>1, BatchFacts DEF ReceiverAt
    <3>2. CASE Head(net).files # Batch
      BY <1>1, <1>3, <2>1, <3>2 DEF ReceiverAt
    <3> QED BY <3>1, <3>2
  <2> QED BY <1>1, <1>3, <1>6, <2>1, TransitConsume
<1> QED BY <1>5, <1>6, <1>8, <1>9, SenderPartRests DEF Inv

(* A file is announced between files, and it is the next one.              *)
LEMMA ReadFileStart ==
    ASSUME Inv, Receives("file-start"), NEW r \in Place, NEW c \in Place,
           ReceiverAt(r), Leads(left, r, Head(net), c)
    PROVE  \E k \in Files : /\ Head(net).file = k /\ c = At("file", k, 0)
                            /\ batchMetadata = Batch /\ Len(receivedFiles) = k - 1
<1>1. Head(net).type = "file-start"
  BY DEF Receives
<1>2. /\ r.phase = "gap" /\ r.k < Len(FileSize) /\ Head(net).file = r.k + 1
      /\ c = At("file", r.k + 1, 0)
  BY <1>1, MessageTypes DEF Leads
<1>3. r.k \in 0..Len(FileSize) /\ batchMetadata = Batch /\ Len(receivedFiles) = r.k
  BY <1>2, Places DEF ReceiverAt
<1>4. r.k + 1 \in Files /\ (r.k + 1) - 1 = r.k
  BY <1>2, <1>3, BatchFacts
<1> QED BY <1>2, <1>3, <1>4

LEMMA HandleFileStartInv == Inv /\ HandleFileStart => Inv'
<1> SUFFICES ASSUME Inv, HandleFileStart PROVE Inv'
  OBVIOUS
<1>1. /\ Receives("file-start") /\ Consume
      /\ fileReceiver' = [file |-> Head(net).file, receivedBytes |-> 0, chunks |-> <<>>]
      /\ UNCHANGED <<sendVars, batchMetadata, receivedFiles, tabVars, historyVars>>
      /\ UNCHANGED <<channel, link, bufferedAmount, out>>
  BY DEF HandleFileStart, Consume
<1>2. SenderRests
  BY <1>1 DEF SenderRests, tabVars
<1>3. TabTypes'
  BY <1>1 DEF Inv, TabTypes, sendVars, tabVars, historyVars
<1>4. PICK k \in Files : Head(net).file = k
  <2>1. PICK r \in Place, c \in Place : ReceiverAt(r) /\ Leads(left, r, Head(net), c)
    BY <1>1, Reading
  <2> QED BY <1>1, <2>1, ReadFileStart
<1> DEFINE none == <<>>
<1>5. none \in Seq(Pieces) /\ Len(none) = 0
  OBVIOUS
<1>6. fileReceiver' = [file |-> k, receivedBytes |-> 0, chunks |-> none]
  BY <1>1, <1>4
<1> HIDE DEF none
<1>7. Received'
  <2>1. 0 \in 0..FileSize[k]
    BY SizeType
  <2>2. /\ fileReceiver'.file \in Files
        /\ fileReceiver'.receivedBytes \in 0..FileSize[fileReceiver'.file]
        /\ fileReceiver'.chunks \in Seq(Pieces)
    BY <1>5, <1>6, <2>1
  <2> QED BY <1>1, <2>2 DEF Inv, Received, tabVars
<1>8. InTransit'
  <2>1. PiecesTo(k, 0, none)
    <3>1. none = <<>> /\ \A i \in 1..Len(none) : FALSE
      BY <1>5 DEF none
    <3>2. \A i \in 1..(Len(none) - 1) : FALSE
      BY <1>5
    <3> QED BY <1>5, <3>1, <3>2 DEF PiecesTo
  <2>2. ASSUME NEW r \in Place, NEW c \in Place, ReceiverAt(r), Leads(left, r, Head(net), c)
        PROVE  ReceiverAt(c)'
    <3>1. /\ c = At("file", k, 0) /\ batchMetadata = Batch /\ Len(receivedFiles) = k - 1
      BY <1>1, <1>4, <2>2, ReadFileStart
    <3>2. 0 < FileSize[k] /\ 0 \in Nat
      BY SizeType
    <3>3. batchMetadata' = Batch /\ Len(receivedFiles') = k - 1
      BY <1>1, <3>1
    <3> QED BY <1>5, <1>6, <2>1, <3>1, <3>2, <3>3 DEF ReceiverAt
  <2> QED BY <1>1, <1>2, <2>2, TransitConsume
<1> QED BY <1>2, <1>3, <1>7, <1>8, SenderPartRests DEF Inv

(* A piece continues the file that is being received.                      *)
LEMMA ReadData ==
    ASSUME Inv, Receives("data"), NEW r \in Place, NEW c \in Place,
           ReceiverAt(r), Leads(left, r, Head(net), c)
    PROVE  \E k \in Files, p \in Nat, n \in Nat \ {0}, chunks \in Seq(Pieces) :
              /\ p + n <= FileSize[k] /\ Head(net) = Data(k, p, n)
              /\ c = At("file", k, p + n)
              /\ batchMetadata = Batch /\ Len(receivedFiles) = k - 1
              /\ fileReceiver = [file |-> k, receivedBytes |-> p, chunks |-> chunks]
              /\ PiecesTo(k, p, chunks)
<1>1. Head(net).type = "data"
  BY DEF Receives
<1>2. /\ r.phase = "file" /\ r.k \in Files
      /\ \E n \in Nat \ {0} : /\ r.p + n <= FileSize[r.k]
                              /\ Head(net) = Data(r.k, r.p, n)
                              /\ c = At("file", r.k, r.p + n)
  BY <1>1, MessageTypes DEF Leads
<1>3. PICK n \in Nat \ {0} : /\ r.p + n <= FileSize[r.k]
                             /\ Head(net) = Data(r.k, r.p, n)
                             /\ c = At("file", r.k, r.p + n)
  BY <1>2
<1>4. r.p \in Nat /\ r.p # FileSize[r.k]
  BY <1>2, <1>3, SizeType DEF Place
<1>5. \E chunks \in Seq(Pieces) :
        /\ batchMetadata = Batch /\ Len(receivedFiles) = r.k - 1
        /\ fileReceiver = [file |-> r.k, receivedBytes |-> r.p, chunks |-> chunks]
        /\ PiecesTo(r.k, r.p, chunks)
  BY <1>2, <1>4, Places DEF ReceiverAt
<1> QED BY <1>2, <1>3, <1>4, <1>5

LEMMA PieceType ==
    ASSUME NEW k \in Files, NEW p \in 0..FileSize[k], NEW n \in 0..FileSize[k]
    PROVE  Data(k, p, n) \in Pieces
BY DEF Pieces

LEMMA PiecesGrow ==
    ASSUME NEW k \in Files, NEW p \in Nat, NEW n \in Nat \ {0}, p + n <= FileSize[k],
           NEW chunks, PiecesTo(k, p, chunks)
    PROVE  PiecesTo(k, p + n, Append(chunks, Data(k, p, n)))
<1> DEFINE d == Data(k, p, n)
           q == Append(chunks, d)
<1>1. d \in Pieces /\ d.file = k /\ d.from = p /\ d.len = n
  <2>1. p \in 0..FileSize[k] /\ n \in 0..FileSize[k]
    BY SizeType
  <2> QED BY <2>1, PieceType, MessageTypes
<1>2. chunks \in Seq(Pieces)
  BY DEF PiecesTo
<1> HIDE DEF d
<1>3. /\ q \in Seq(Pieces) /\ Len(q) = Len(chunks) + 1 /\ Len(chunks) \in Nat
      /\ \A i \in 1..Len(chunks) : q[i] = chunks[i]
      /\ q[Len(chunks) + 1] = d
  BY <1>1, <1>2
<1> HIDE DEF q
<1>4. \A i \in 1..Len(q) : q[i].file = k
  <2>1. \A i \in 1..Len(chunks) : chunks[i].file = k
    BY DEF PiecesTo
  <2>2. \A i \in 1..Len(q) : i \in 1..Len(chunks) \/ i = Len(chunks) + 1
    BY <1>3
  <2> QED BY <1>1, <1>3, <2>1, <2>2
<1>5. q # <<>> /\ p + n # 0
  BY <1>3
<1>6. q[Len(q)].from + q[Len(q)].len = p + n
  BY <1>1, <1>3
<1>7. CASE p = 0
  <2>1. Len(chunks) = 0
    BY <1>7, BatchFacts DEF PiecesTo
  <2>2. q[1].from = 0
    BY <1>1, <1>3, <1>7, <2>1
  <2>3. \A i \in 1..(Len(q) - 1) : FALSE
    BY <1>3, <2>1
  <2> QED BY <1>3, <1>4, <1>5, <1>6, <2>2, <2>3 DEF PiecesTo, q, d
<1>8. CASE p # 0
  <2>1. /\ chunks # <<>> /\ chunks[1].from = 0
        /\ chunks[Len(chunks)].from + chunks[Len(chunks)].len = p
    BY <1>8 DEF PiecesTo
  <2>2. Len(chunks) >= 1
    BY <1>2, <2>1
  <2>3. q[1].from = 0
    BY <1>3, <2>1, <2>2
  <2>4. ASSUME NEW i \in 1..(Len(q) - 1) PROVE q[i + 1].from = q[i].from + q[i].len
    <3>1. CASE i = Len(chunks)
      <4>1. q[i] = chunks[Len(chunks)] /\ q[i + 1] = d
        BY <1>3, <2>2, <3>1
      <4> QED BY <1>1, <2>1, <4>1
    <3>2. CASE i # Len(chunks)
      <4>1. i \in 1..(Len(chunks) - 1) /\ i + 1 \in 1..Len(chunks) /\ i \in 1..Len(chunks)
        BY <1>3, <3>2
      <4>2. q[i] = chunks[i] /\ q[i + 1] = chunks[i + 1]
        BY <1>3, <4>1
      <4>3. chunks[i + 1].from = chunks[i].from + chunks[i].len
        BY <4>1 DEF PiecesTo
      <4> QED BY <4>2, <4>3
    <3> QED BY <3>1, <3>2
  <2> QED BY <1>3, <1>4, <1>5, <1>6, <2>3, <2>4 DEF PiecesTo, q, d
<1> QED BY <1>7, <1>8

LEMMA PiecesWhole ==
    ASSUME NEW k \in Files, NEW chunks, PiecesTo(k, FileSize[k], chunks)
    PROVE  Whole(k, chunks)
BY SizeType DEF PiecesTo, Whole

LEMMA OnBinaryMessageInv == Inv /\ OnBinaryMessage => Inv'
<1> SUFFICES ASSUME Inv, OnBinaryMessage PROVE Inv'
  OBVIOUS
<1>1. /\ Receives("data") /\ Consume
      /\ UNCHANGED <<sendVars, batchMetadata, tabVars, historyVars>>
      /\ UNCHANGED <<channel, link, bufferedAmount, out>>
  BY DEF OnBinaryMessage, Consume
<1>2. SenderRests
  BY <1>1 DEF SenderRests, tabVars
<1>3. TabTypes'
  BY <1>1 DEF Inv, TabTypes, sendVars, tabVars, historyVars
<1>4. PICK k \in Files, p \in Nat, n \in Nat \ {0}, chunks \in Seq(Pieces) :
          /\ p + n <= FileSize[k] /\ Head(net) = Data(k, p, n)
          /\ batchMetadata = Batch /\ Len(receivedFiles) = k - 1
          /\ fileReceiver = [file |-> k, receivedBytes |-> p, chunks |-> chunks]
          /\ PiecesTo(k, p, chunks)
  <2>1. PICK r \in Place, c \in Place : ReceiverAt(r) /\ Leads(left, r, Head(net), c)
    BY <1>1, Reading
  <2> QED BY <1>1, <2>1, ReadData
<1> DEFINE q == Append(chunks, Data(k, p, n))
<1>5. PiecesTo(k, p + n, q) /\ q \in Seq(Pieces)
  <2>1. PiecesTo(k, p + n, q)
    BY <1>4, PiecesGrow
  <2> QED BY <2>1 DEF PiecesTo
<1>6. /\ fileReceiver.file = k /\ fileReceiver.receivedBytes = p /\ fileReceiver.chunks = chunks
      /\ Head(net).len = n /\ k # NoFile
      /\ FileSize[k] \in Nat \ {0} /\ k \in Nat \ {0}
  BY <1>4, MessageTypes, SizeType, SenderFields, BatchFacts
<1>7. \A r \in Place, c \in Place :
         ReceiverAt(r) /\ Leads(left, r, Head(net), c) => c = At("file", k, p + n)
  <2> SUFFICES ASSUME NEW r \in Place, NEW c \in Place,
                      ReceiverAt(r), Leads(left, r, Head(net), c)
               PROVE  c = At("file", k, p + n)
    OBVIOUS
  <2>1. PICK k1 \in Files, p1 \in Nat, n1 \in Nat \ {0} :
            Head(net) = Data(k1, p1, n1) /\ c = At("file", k1, p1 + n1)
    BY <1>1, ReadData
  <2>2. k1 = k /\ p1 = p /\ n1 = n
    BY <1>4, <2>1, MessageTypes
  <2> QED BY <2>1, <2>2
<1> DEFINE none == <<>>
<1>8. none \in Seq(Pieces)
  OBVIOUS
<1> HIDE DEF q, none
<1>9. CASE p + n >= FileSize[k]
  <2>1. /\ fileReceiver' = [fileReceiver EXCEPT !.chunks = none, !.receivedBytes = p + n]
        /\ receivedFiles' = Append(receivedFiles, [name |-> k, blob |-> q])
    BY <1>4, <1>6, <1>9 DEF OnBinaryMessage, q, none
  <2>2. p + n = FileSize[k]
    BY <1>4, <1>6, <1>9
  <2>3. fileReceiver' = [file |-> k, receivedBytes |-> p + n, chunks |-> none]
    BY <1>4, <2>1
  <2>4. Whole(k, q)
    BY <1>5, <2>2, PiecesWhole
  <2> DEFINE new == [name |-> k, blob |-> q]
  <2>5. new \in [name : Files, blob : Seq(Pieces)] /\ new.name = k /\ new.blob = q
    BY <1>5
  <2> HIDE DEF new
  <2>6. receivedFiles \in Seq([name : Files, blob : Seq(Pieces)])
    BY DEF Inv, Received
  <2>7. /\ receivedFiles' \in Seq([name : Files, blob : Seq(Pieces)])
        /\ Len(receivedFiles') = k /\ receivedFiles'[k] = new
        /\ \A i \in 1..(k - 1) : receivedFiles'[i] = receivedFiles[i]
    <3>1. receivedFiles' = Append(receivedFiles, new)
      BY <2>1 DEF new
    <3>2. Len(receivedFiles) + 1 = k
      BY <1>4, <1>6
    <3> QED BY <1>4, <2>5, <2>6, <3>1, <3>2
  <2>8. Received'
    <3>1. \A i \in 1..Len(receivedFiles') :
             receivedFiles'[i].name = i /\ Whole(i, receivedFiles'[i].blob)
      <4> SUFFICES ASSUME NEW i \in 1..k
                   PROVE  receivedFiles'[i].name = i /\ Whole(i, receivedFiles'[i].blob)
        BY <2>7
      <4>1. CASE i = k
        BY <2>4, <2>5, <2>7, <4>1
      <4>2. CASE i # k
        <5>1. i \in 1..(k - 1)
          BY <1>6, <4>2
        <5> QED BY <1>4, <2>7, <5>1 DEF Inv, Received
      <4> QED BY <4>1, <4>2
    <3>2. p + n \in 0..FileSize[k]
      BY <1>6, <2>2
    <3>3. /\ fileReceiver'.file \in Files
          /\ fileReceiver'.receivedBytes \in 0..FileSize[fileReceiver'.file]
          /\ fileReceiver'.chunks \in Seq(Pieces)
      BY <1>8, <2>3, <3>2
    <3> QED BY <1>1, <2>7, <3>1, <3>3 DEF Inv, Received, tabVars
  <2>9. ReceiverAt(At("file", k, FileSize[k]))'
    BY <1>1, <1>4, <2>7 DEF ReceiverAt
  <2>10. InTransit'
    BY <1>1, <1>2, <1>7, <2>2, <2>9, TransitConsume
  <2> QED BY <1>2, <1>3, <2>8, <2>10, SenderPartRests DEF Inv
<1>10. CASE ~(p + n >= FileSize[k])
  <2>1. /\ fileReceiver' = [fileReceiver EXCEPT !.chunks = q, !.receivedBytes = p + n]
        /\ UNCHANGED receivedFiles
    BY <1>4, <1>6, <1>10 DEF OnBinaryMessage, q
  <2>2. fileReceiver' = [file |-> k, receivedBytes |-> p + n, chunks |-> q]
    BY <1>4, <2>1
  <2>3. Received'
    <3>1. p + n \in 0..FileSize[k]
      BY <1>4, <1>6
    <3>2. /\ fileReceiver'.file \in Files
          /\ fileReceiver'.receivedBytes \in 0..FileSize[fileReceiver'.file]
          /\ fileReceiver'.chunks \in Seq(Pieces)
      BY <1>5, <2>2, <3>1
    <3> QED BY <1>1, <2>1, <3>2 DEF Inv, Received, tabVars
  <2>4. ReceiverAt(At("file", k, p + n))'
    <3>1. p + n < FileSize[k] /\ p + n \in Nat
      BY <1>6, <1>10
    <3>2. batchMetadata' = Batch /\ Len(receivedFiles') = k - 1
      BY <1>1, <1>4, <2>1
    <3> QED BY <1>5, <2>2, <3>1, <3>2 DEF ReceiverAt
  <2>5. InTransit'
    BY <1>1, <1>2, <1>7, <2>4, TransitConsume
  <2> QED BY <1>2, <1>3, <2>3, <2>5, SenderPartRests DEF Inv
<1> QED BY <1>9, <1>10

LEMMA HandleFileEndInv == Inv /\ HandleFileEnd => Inv'
<1> SUFFICES ASSUME Inv, HandleFileEnd PROVE Inv'
  OBVIOUS
<1>1. /\ Receives("file-end") /\ Consume
      /\ UNCHANGED <<sendVars, receiveVars, tabVars, historyVars>>
      /\ UNCHANGED <<channel, link, bufferedAmount, out>>
  BY DEF HandleFileEnd, Consume
<1>2. SenderRests
  BY <1>1 DEF SenderRests, tabVars
<1>3. TabTypes' /\ ReceiverRests
  BY <1>1 DEF Inv, TabTypes, ReceiverRests, sendVars, tabVars, historyVars
<1>4. Received'
  BY <1>3, ReceivedRests DEF Inv
<1>5. InTransit'
  <2>1. ASSUME NEW r \in Place, NEW c \in Place, ReceiverAt(r), Leads(left, r, Head(net), c)
        PROVE  ReceiverAt(c)'
    <3>1. Head(net).type = "file-end"
      BY <1>1 DEF Receives
    <3>2. /\ r.phase = "file" /\ r.k \in Files /\ r.p = FileSize[r.k]
          /\ c = At("gap", r.k, 0)
      BY <2>1, <3>1, MessageTypes DEF Leads
    <3>3. batchMetadata = Batch /\ Len(receivedFiles) = r.k
      BY <2>1, <3>2, Places, SizeType DEF ReceiverAt
    <3>4. r.k \in 0..Len(FileSize)
      BY <3>2, BatchFacts
    <3>5. batchMetadata' = Batch /\ Len(receivedFiles') = r.k
      BY <1>1, <3>3 DEF receiveVars
    <3> QED BY <3>2, <3>4, <3>5 DEF ReceiverAt
  <2> QED BY <1>1, <1>2, <2>1, TransitConsume
<1> QED BY <1>2, <1>3, <1>4, <1>5, SenderPartRests DEF Inv

(* The batch ends after its last file, or early because the user left.     *)
LEMMA ReadBatchComplete ==
    ASSUME Inv, Receives("batch-complete")
    PROVE  /\ batchMetadata \in {Batch, <<>>}
           /\ left \/ Len(receivedFiles) = Len(batchMetadata)
<1>1. PICK r \in Place, c \in Place : ReceiverAt(r) /\ Leads(left, r, Head(net), c)
  BY Reading
<1>2. Head(net).type = "batch-complete"
  BY DEF Receives
<1>3. r.phase = "empty" \/ (r.phase = "gap" /\ (r.k = Len(FileSize) \/ left))
  BY <1>1, <1>2, MessageTypes DEF Leads
<1>4. CASE r.phase = "empty"
  BY <1>1, <1>4, Places DEF ReceiverAt
<1>5. CASE r.phase = "gap" /\ (r.k = Len(FileSize) \/ left)
  <2>1. batchMetadata = Batch /\ Len(receivedFiles) = r.k
    BY <1>1, <1>5, Places DEF ReceiverAt
  <2> QED BY <1>5, <2>1, BatchFacts
<1> QED BY <1>3, <1>4, <1>5

LEMMA HandleBatchCompleteInv == Inv /\ HandleBatchComplete => Inv'
<1> SUFFICES ASSUME Inv, HandleBatchComplete PROVE Inv'
  OBVIOUS
<1>1. /\ transferSuccessful' = Set(transferSuccessful, "receiver", TRUE)
      /\ shown' = Set(shown, "receiver", "complete")
      /\ outcome' = Set(outcome, "receiver", "complete")
      /\ CloseReceiver(<<>>)
      /\ UNCHANGED <<sendVars, receiveVars, historyVars>>
  BY DEF HandleBatchComplete
<1>2. /\ InTransit' /\ UNCHANGED <<out, bufferedAmount>> /\ link' = "down"
      /\ channel' \in [Tabs -> {"open", "closed"}]
      /\ channel'["sender"] = channel["sender"] /\ channel'["receiver"] = "closed"
  BY <1>1, TransitClosed
<1>3. /\ shown' \in [Tabs -> {"none", "transfer", "complete"}]
      /\ transferSuccessful' \in [Tabs -> BOOLEAN]
      /\ outcome' \in [Tabs -> {"none", "complete", "cancelled"}]
  BY <1>1 DEF Set, Inv, TabTypes
<1>4. shown'["receiver"] = "complete" /\ outcome'["sender"] = outcome["sender"]
  BY <1>1 DEF Set, Tabs, Inv, TabTypes
<1>5. TabTypes' /\ SenderRests
  BY <1>1, <1>2, <1>3, <1>4 DEF Inv, TabTypes, SenderRests, sendVars, historyVars
<1>6. Received'
  BY <1>1, <1>2, <1>4 DEF Inv, Received, receiveVars
<1> QED BY <1>2, <1>5, <1>6, SenderPartRests DEF Inv

LEMMA CancelReceivingInv ==
    ASSUME Inv, NEW pending, CancelReceiving(pending), aborted' \in BOOLEAN
    PROVE  Inv'
<1>1. /\ fileReceiver' = NoReceiver /\ CloseReceiver(pending)
      /\ shown' = Set(shown, "receiver", "none")
      /\ outcome' = Set(outcome, "receiver", "cancelled")
      /\ UNCHANGED <<sendVars, batchMetadata, receivedFiles, transferSuccessful, left, cut>>
  BY DEF CancelReceiving
<1>2. /\ InTransit' /\ UNCHANGED <<out, bufferedAmount>> /\ link' = "down"
      /\ channel' \in [Tabs -> {"open", "closed"}]
      /\ channel'["sender"] = channel["sender"] /\ channel'["receiver"] = "closed"
  BY <1>1, TransitClosed
<1>3. /\ shown' \in [Tabs -> {"none", "transfer", "complete"}]
      /\ outcome' \in [Tabs -> {"none", "complete", "cancelled"}]
      /\ shown'["receiver"] = "none" /\ outcome'["sender"] = outcome["sender"]
  BY <1>1 DEF Set, Tabs, Inv, TabTypes
<1>4. TabTypes'
  BY <1>1, <1>2, <1>3 DEF Inv, TabTypes, sendVars
<1>5. Queue'
  BY <1>1, <1>2, <1>3 DEF Inv, Queue, Sending, sendVars
<1>6. Flow'
  BY <1>1, <1>2 DEF Inv, Flow, BufferBounded, sendVars
<1>7. Received'
  BY <1>1, <1>2, <1>3 DEF Inv, Received
<1> QED BY <1>2, <1>4, <1>5, <1>6, <1>7 DEF Inv

LEMMA ReceiverOnCloseInv == Inv /\ ReceiverOnClose => Inv'
<1> SUFFICES ASSUME Inv, ReceiverOnClose PROVE Inv'
  OBVIOUS
<1>1. aborted' \in BOOLEAN /\ UNCHANGED aborted
  BY DEF ReceiverOnClose, Inv, TabTypes
<1>2. CASE CancelReceiving(<<>>)
  BY <1>1, <1>2, CancelReceivingInv
<1>3. CASE /\ ~(shown["receiver"] = "transfer" /\ ~transferSuccessful["receiver"])
           /\ channel' = Set(channel, "receiver", "closed")
           /\ UNCHANGED <<sendVars, receiveVars, tabVars, link, bufferedAmount,
                          out, net, back, left, cut>>
  <2>1. channel' \in [Tabs -> {"open", "closed"}]
        /\ channel'["sender"] = channel["sender"] /\ channel'["receiver"] = "closed"
    BY <1>3 DEF Set, Inv, TabTypes, Tabs
  <2>2. TabTypes' /\ SenderRests
    BY <1>1, <1>3, <2>1 DEF Inv, TabTypes, SenderRests, tabVars, sendVars, historyVars
  <2>3. shown["receiver"] # "transfer"
    BY <1>3, Reading DEF ReceiverOnClose
  <2>4. Received'
    BY <1>3, <2>1, <2>3 DEF Inv, Received, receiveVars, tabVars
  <2>5. InTransit'
    BY <1>3, <2>1 DEF Inv, InTransit
  <2> QED BY <2>2, <2>4, <2>5, SenderPartRests DEF Inv
<1> QED BY <1>2, <1>3 DEF ReceiverOnClose

LEMMA ReceiverBackInv == Inv /\ ReceiverBack => Inv'
<1> SUFFICES ASSUME Inv, ReceiverBack PROVE Inv'
  OBVIOUS
<1>1. /\ shown' = Set(shown, "receiver", "none")
      /\ UNCHANGED <<sendVars, receiveVars, transferSuccessful, outcome, linkVars,
                     historyVars>>
  BY DEF ReceiverBack
<1>2. /\ shown' \in [Tabs -> {"none", "transfer", "complete"}]
      /\ shown'["receiver"] = "none"
  BY <1>1 DEF Set, Inv, TabTypes, Tabs
<1>3. TabTypes' /\ SenderRests
  BY <1>1, <1>2 DEF Inv, TabTypes, SenderRests, linkVars, sendVars, historyVars
<1>4. Received'
  BY <1>1, <1>2 DEF Inv, Received, receiveVars, linkVars
<1>5. InTransit'
  <2>1. ASSUME NEW r PROVE ReceiverAt(r) => ReceiverAt(r)'
    BY <1>1, ReceiverAtRests
  <2>2. ASSUME NEW t PROVE SenderAt(t) => SenderAt(t)'
    BY <1>1 DEF SenderAt, sendVars
  <2> QED BY <1>1, <2>1, <2>2 DEF Inv, InTransit, Live, linkVars, historyVars
<1> QED BY <1>3, <1>4, <1>5, SenderPartRests DEF Inv

-----------------------------------------------------------------------------
(* The invariant holds.                                                    *)

LEMMA InvNext == Inv /\ [Next]_vars => Inv'
<1> SUFFICES ASSUME Inv, [Next]_vars PROVE Inv'
  OBVIOUS
<1>1. CASE StartBatchSend
  BY <1>1, StartBatchSendInv
<1>2. CASE SendFile
  BY <1>2, SendFileInv
<1>3. CASE SendLoop
  BY <1>3, SendLoopInv
<1>4. CASE CloseTimer
  BY <1>4, CloseTimerInv
<1>5. CASE SenderOnMessage \/ CancelSendClick
  <2>1. aborted' \in BOOLEAN
    BY <1>5 DEF SenderOnMessage, CancelSendClick, Inv, TabTypes
  <2> QED BY <1>5, <2>1, CancelSendingInv DEF SenderOnMessage, CancelSendClick
<1>6. CASE SenderOnClose
  BY <1>6, SenderOnCloseInv
<1>7. CASE HandleBatchStart
  BY <1>7, HandleBatchStartInv
<1>8. CASE HandleFileStart
  BY <1>8, HandleFileStartInv
<1>9. CASE OnBinaryMessage
  BY <1>9, OnBinaryMessageInv
<1>10. CASE HandleFileEnd
  BY <1>10, HandleFileEndInv
<1>11. CASE HandleBatchComplete
  BY <1>11, HandleBatchCompleteInv
<1>12. CASE HandleTransferCancelled \/ CancelReceiveClick
  <2>1. aborted' \in BOOLEAN
    BY <1>12 DEF HandleTransferCancelled, CancelReceiveClick, Inv, TabTypes
  <2> QED BY <1>12, <2>1, CancelReceivingInv DEF HandleTransferCancelled, CancelReceiveClick
<1>13. CASE ReceiverOnClose
  BY <1>13, ReceiverOnCloseInv
<1>14. CASE SenderBack
  BY <1>14, SenderBackInv
<1>15. CASE ReceiverBack
  BY <1>15, ReceiverBackInv
<1>16. CASE Drain
  BY <1>16, DrainInv
<1>17. CASE Break
  BY <1>17, BreakInv
<1>18. CASE UNCHANGED vars
  <2> USE <1>18 DEF vars, sendVars, receiveVars, tabVars, linkVars, historyVars
  <2>1. TabTypes' /\ Queue'
    BY DEF Inv, TabTypes, Queue, Sending
  <2>2. Flow'
    BY DEF Inv, Flow, BufferBounded
  <2>3. Received'
    BY DEF Inv, Received
  <2>4. InTransit'
    BY DEF Inv, InTransit, ReceiverAt, SenderAt, Live
  <2> QED BY <2>1, <2>2, <2>3, <2>4 DEF Inv
<1>19. CASE ReadFails
  BY <1>19, ReadFailsInv
<1> QED
  BY <1>1, <1>2, <1>3, <1>4, <1>5, <1>6, <1>7, <1>8, <1>9, <1>10, <1>11, <1>12,
     <1>13, <1>14, <1>15, <1>16, <1>17, <1>18, <1>19
     DEF Next, SenderTab, ReceiverTab, Users

LEMMA Invariance == Spec => []Inv
BY InvInit, InvNext, PTL DEF Spec

(* Offsets and counts stay within the files and indices within the batch.  *)
THEOREM TypeCorrect == Spec => []TypeOK
BY Invariance, InvTypeOK, PTL

(* Flow control: whatever the sizes of the files, the send buffer holds at *)
(* most the threshold, one chunk and two messages.                         *)
THEOREM FlowControl == Spec => []BufferBounded
<1>1. Inv => BufferBounded
  BY DEF Inv, Flow
<1> QED BY Invariance, <1>1, PTL

(* No wake-up starts a second loop on a file, and no next file is prepared *)
(* while one is being sent.                                                *)
THEOREM OneLoop == Spec => []OneSendLoop
BY Invariance, InvOneSendLoop, PTL

-----------------------------------------------------------------------------
(* The transfer implements FileDelivery.                                   *)

LEMMA DeliveredFiles ==
    ASSUME Received PROVE Delivered = [i \in 1..Len(receivedFiles) |-> i]
<1>1. \A i \in 1..Len(receivedFiles) :
         /\ receivedFiles[i].name = i /\ Whole(i, receivedFiles[i].blob)
  BY DEF Received
<1> QED BY <1>1 DEF Delivered

(* A step that leaves alone what the receiving user sees of the delivery.  *)
LEMMA Stutter ==
    ASSUME UNCHANGED <<batchMetadata, receivedFiles, left>>,
           outcome'["receiver"] = outcome["receiver"]
    PROVE  UNCHANGED <<batchMetadata, Delivered, outcome["receiver"], left>>
BY DEF Delivered

LEMMA DeliveryCancel ==
    ASSUME Inv, NEW pending, CancelReceiving(pending), channel["receiver"] = "open"
    PROVE  Delivery!Cancel
<1>1. outcome["receiver"] = "none"
  BY DEF Inv, Received
<1>2. outcome'["receiver"] = "cancelled"
  BY DEF CancelReceiving, Set, Inv, TabTypes, Tabs
<1>3. UNCHANGED <<batchMetadata, Delivered, left>>
  BY DEF CancelReceiving, Delivered
<1> QED BY <1>1, <1>2, <1>3 DEF Delivery!Cancel

LEMMA DeliveryDeliver ==
    Inv /\ OnBinaryMessage => \/ Delivery!Deliver
                              \/ UNCHANGED <<batchMetadata, Delivered, outcome["receiver"], left>>
<1> SUFFICES ASSUME Inv, OnBinaryMessage, ~(UNCHANGED receivedFiles) PROVE Delivery!Deliver
  BY Stutter DEF OnBinaryMessage, tabVars, historyVars
<1>1. Receives("data") /\ UNCHANGED <<batchMetadata, tabVars, historyVars>>
  BY DEF OnBinaryMessage
<1>2. PICK k \in Files, p \in Nat, n \in Nat \ {0}, chunks \in Seq(Pieces) :
          /\ p + n <= FileSize[k] /\ Head(net) = Data(k, p, n)
          /\ batchMetadata = Batch /\ Len(receivedFiles) = k - 1
          /\ fileReceiver = [file |-> k, receivedBytes |-> p, chunks |-> chunks]
          /\ PiecesTo(k, p, chunks)
  <2>1. PICK r \in Place, c \in Place : ReceiverAt(r) /\ Leads(left, r, Head(net), c)
    BY <1>1, Reading
  <2> QED BY <1>1, <2>1, ReadData
<1>3. \E new : receivedFiles' = Append(receivedFiles, new)
  BY DEF OnBinaryMessage
<1>4. Received'
  BY OnBinaryMessageInv DEF Inv
<1>5. Len(receivedFiles) \in Nat /\ Len(receivedFiles') = Len(receivedFiles) + 1
  BY <1>3 DEF Inv, Received
<1>6. k \in Nat \ {0} /\ k <= Len(FileSize) /\ Batch[k] = k /\ Len(Batch) = Len(FileSize)
      /\ Len(FileSize) \in Nat
  BY BatchFacts
<1>7. Delivered = [i \in 1..(k - 1) |-> i] /\ Delivered' = [i \in 1..k |-> i]
  <2>1. Delivered = [i \in 1..Len(receivedFiles) |-> i]
    BY DeliveredFiles DEF Inv
  <2>2. Delivered' = [i \in 1..Len(receivedFiles') |-> i]
    <3>1. \A i \in 1..Len(receivedFiles') :
             receivedFiles'[i].name = i /\ Whole(i, receivedFiles'[i].blob)
      BY <1>4 DEF Received
    <3> QED BY <3>1 DEF Delivered
  <2>3. Len(receivedFiles') = k
    BY <1>2, <1>5, <1>6
  <2> QED BY <1>2, <2>1, <2>2, <2>3
<1> DEFINE d == [i \in 1..(k - 1) |-> i]
           e == [i \in 1..k |-> i]
<1>8. d \in Seq(Nat) /\ e \in Seq(Nat) /\ Len(d) = k - 1 /\ Len(e) = k
  BY <1>6
<1>9. e = Append(d, k)
  <2>1. \A i \in 1..Len(e) : e[i] = Append(d, k)[i]
    <3> SUFFICES ASSUME NEW i \in 1..k PROVE e[i] = Append(d, k)[i]
      BY <1>8
    <3>1. CASE i = k
      BY <1>6, <1>8, <3>1
    <3>2. CASE i # k
      BY <1>6, <1>8, <3>2
    <3> QED BY <3>1, <3>2
  <2> HIDE DEF d, e
  <2>2. Append(d, k) \in Seq(Nat) /\ Len(Append(d, k)) = k
    BY <1>6, <1>8
  <2> QED BY <1>8, <2>1, <2>2, SeqEqual
<1>10. /\ batchMetadata # NoBatch /\ outcome["receiver"] = "none"
       /\ Len(Delivered) < Len(batchMetadata)
       /\ Delivered' = Append(Delivered, batchMetadata[Len(Delivered) + 1])
  <2>1. Len(Delivered) = k - 1 /\ (k - 1) + 1 = k /\ k - 1 < k
    BY <1>6, <1>7, <1>8
  <2>2. Delivered' = Append(Delivered, k)
    BY <1>7, <1>9
  <2>3. outcome["receiver"] = "none"
    BY <1>1, Reading
  <2>4. batchMetadata # NoBatch
    BY <1>2, NullAssumption
  <2>5. Len(Delivered) < Len(batchMetadata)
    BY <1>2, <1>6, <2>1
  <2>6. batchMetadata[Len(Delivered) + 1] = k
    BY <1>2, <1>6, <2>1
  <2> QED BY <2>2, <2>3, <2>4, <2>5, <2>6
<1> QED BY <1>1, <1>10 DEF Delivery!Deliver, tabVars, historyVars

LEMMA DeliveryInit == Init => Delivery!Init
<1> SUFFICES ASSUME Init PROVE Delivery!Init
  OBVIOUS
<1>1. Delivered = <<>>
  <2>1. receivedFiles = <<>> /\ Len(<<>>) = 0
    BY BatchFacts DEF Init
  <2> QED BY <2>1 DEF Delivered
<1> QED BY <1>1 DEF Delivery!Init, Init, Tabs

LEMMA DeliveryStep ==
    Inv /\ [Next]_vars =>
        \/ Delivery!Next
        \/ UNCHANGED <<batchMetadata, Delivered, outcome["receiver"], left>>
<1> DEFINE Same == UNCHANGED <<batchMetadata, Delivered, outcome["receiver"], left>>
<1> SUFFICES ASSUME Inv, [Next]_vars PROVE Delivery!Next \/ Same
  OBVIOUS
<1>1. CASE HandleBatchStart
  <2>1. /\ batchMetadata = NoBatch /\ receivedFiles = <<>> /\ receivedFiles' = <<>>
        /\ batchMetadata' \in {Batch, <<>>} /\ (batchMetadata' = <<>> => left)
        /\ UNCHANGED <<outcome, left>> /\ outcome["receiver"] = "none"
    BY <1>1, ReadBatchStart, Reading DEF HandleBatchStart, historyVars
  <2>2. UNCHANGED Delivered
    BY <2>1 DEF Delivered
  <2>3. Delivery!Announce
    BY <2>1, <2>2 DEF Delivery!Announce
  <2> QED BY <2>3 DEF Delivery!Next
<1>2. CASE OnBinaryMessage
  BY <1>2, DeliveryDeliver DEF Delivery!Next
<1>3. CASE HandleBatchComplete
  <2>1. Receives("batch-complete") /\ UNCHANGED <<batchMetadata, receivedFiles, left>>
    BY <1>3 DEF HandleBatchComplete, receiveVars, historyVars
  <2>2. batchMetadata \in {Batch, <<>>} /\ (left \/ Len(receivedFiles) = Len(batchMetadata))
    BY <2>1, ReadBatchComplete
  <2>3. outcome["receiver"] = "none"
    BY <2>1, Reading
  <2>4. outcome'["receiver"] = "complete"
    BY <1>3 DEF HandleBatchComplete, Set, Inv, TabTypes, Tabs
  <2>5. UNCHANGED Delivered
    BY <2>1 DEF Delivered
  <2>6. Delivered = batchMetadata \/ left
    <3> SUFFICES ASSUME ~left PROVE Delivered = batchMetadata
      OBVIOUS
    <3>1. Delivered = [i \in 1..Len(batchMetadata) |-> i]
      BY <2>2, DeliveredFiles DEF Inv
    <3>2. CASE batchMetadata = Batch
      BY <3>1, <3>2, BatchFacts DEF Batch
    <3>3. CASE batchMetadata = <<>>
      BY <3>1, <3>3, BatchFacts
    <3> QED BY <2>2, <3>2, <3>3
  <2>7. batchMetadata # NoBatch
    BY <2>2, NullAssumption
  <2>8. Delivery!Complete
    BY <2>1, <2>3, <2>4, <2>5, <2>6, <2>7 DEF Delivery!Complete
  <2> QED BY <2>8 DEF Delivery!Next
<1>4. CASE HandleTransferCancelled
  BY <1>4, DeliveryCancel DEF HandleTransferCancelled, Receives, Delivery!Next
<1>5. CASE CancelReceiveClick
  <2>1. channel["receiver"] = "open"
    BY <1>5 DEF CancelReceiveClick, Inv, Received
  <2> QED BY <1>5, <2>1, DeliveryCancel DEF CancelReceiveClick, Delivery!Next
<1>6. CASE ReceiverOnClose
  <2>1. channel["receiver"] = "open"
    BY <1>6 DEF ReceiverOnClose, Receives
  <2>2. CASE CancelReceiving(<<>>)
    BY <2>1, <2>2, DeliveryCancel DEF Delivery!Next
  <2>3. CASE UNCHANGED <<sendVars, receiveVars, tabVars, left>>
    BY <2>3, Stutter DEF receiveVars, tabVars
  <2> QED BY <1>6, <2>2, <2>3 DEF ReceiverOnClose
<1>7. CASE SenderBack
  <2>1. /\ UNCHANGED <<batchMetadata, receivedFiles, outcome>>
        /\ left' = left \/ left' = TRUE
    BY <1>7 DEF SenderBack, receiveVars, Inv, TabTypes
  <2>2. UNCHANGED Delivered
    BY <2>1 DEF Delivered
  <2> QED BY <2>1, <2>2 DEF Delivery!Next, Delivery!Abandon
<1>8. CASE StartBatchSend
  <2>1. outcome'["receiver"] = outcome["receiver"]
    BY <1>8 DEF StartBatchSend, Set, Inv, TabTypes, Tabs
  <2> QED BY <1>8, <2>1, Stutter DEF StartBatchSend, receiveVars, historyVars
<1>9. CASE SendLoop
  <2>1. outcome'["receiver"] = outcome["receiver"]
    <3>1. \/ UNCHANGED tabVars
          \/ outcome' = Set(outcome, "sender", "complete")
      BY <1>9 DEF SendLoop, SendNextFile
    <3> QED BY <3>1 DEF Set, Inv, TabTypes, Tabs, tabVars
  <2> QED BY <1>9, <2>1, Stutter DEF SendLoop, receiveVars, historyVars
<1>10. CASE SenderOnMessage \/ CancelSendClick
  <2>1. aborted' \in BOOLEAN
    BY <1>10 DEF SenderOnMessage, CancelSendClick, Inv, TabTypes
  <2>2. ReceiverRests
    BY <1>10, <2>1, CancelSendingInv DEF SenderOnMessage, CancelSendClick
  <2>3. UNCHANGED left
    BY <1>10 DEF SenderOnMessage, CancelSendClick, CancelSending
  <2> QED BY <2>2, <2>3, Stutter DEF ReceiverRests, receiveVars
<1>11. CASE SenderOnClose
  <2>1. ReceiverRests
    BY <1>11, SenderOnCloseInv
  <2>2. UNCHANGED left
    BY <1>11 DEF SenderOnClose, CancelSending
  <2> QED BY <2>1, <2>2, Stutter DEF ReceiverRests, receiveVars
<1>12. CASE SendFile \/ CloseTimer \/ Drain \/ ReadFails
  <2>1. UNCHANGED <<receiveVars, tabVars, left>>
    BY <1>12 DEF SendFile, CloseTimer, Drain, ReadFails, historyVars
  <2> QED BY <2>1, Stutter DEF receiveVars, tabVars
<1>13. CASE Break
  BY <1>13, Stutter DEF Break, receiveVars, tabVars
<1>14. CASE HandleFileStart \/ HandleFileEnd \/ ReceiverBack
  <2>1. UNCHANGED <<batchMetadata, receivedFiles, outcome, left>>
    BY <1>14 DEF HandleFileStart, HandleFileEnd, ReceiverBack, receiveVars, tabVars, historyVars
  <2> QED BY <2>1, Stutter
<1>15. CASE UNCHANGED vars
  BY <1>15, Stutter DEF vars, receiveVars, tabVars, historyVars
<1> QED
  BY <1>1, <1>2, <1>3, <1>4, <1>5, <1>6, <1>7, <1>8, <1>9, <1>10, <1>11, <1>12,
     <1>13, <1>14, <1>15 DEF Next, SenderTab, ReceiverTab, Users

(* The receiving user gets the announced files whole, in order and once    *)
(* each, and is told at most once how the batch ended, "complete" only     *)
(* after the last file unless the sending user left the page.              *)
THEOREM Implements == Spec => FilesArriveWhole
<1>1. Spec => []Inv
  BY Invariance
<1>2. Init => Delivery!Init
  BY DeliveryInit
<1>3. Inv /\ [Next]_vars =>
         [Delivery!Next]_<<batchMetadata, Delivered, outcome["receiver"], left>>
  BY DeliveryStep
<1> QED BY <1>1, <1>2, <1>3, PTL DEF Spec, FilesArriveWhole, Delivery!Spec
=============================================================================
