----------------------- MODULE StreamReceiver_proofs -----------------------
(***************************************************************************)
(* Proofs about StreamReceiver, for a file of any number of chunks of any  *)
(* lengths and any size of the write buffer: types, and that what is on    *)
(* the disk is always a beginning of the file, that a completed file is    *)
(* whole, and that the buffer of an open stream stays small.               *)
(***************************************************************************)
EXTENDS StreamReceiver, SequenceTheorems, WellFoundedInduction, TLAPS

-----------------------------------------------------------------------------
(* Induction over the numbers, as a fact about sets: the library's theorem *)
(* takes a predicate.                                                      *)

LEMMA Induction ==
    ASSUME NEW S \in SUBSET Nat, 0 \in S, \A n \in S : n + 1 \in S
    PROVE  S = Nat
<1> DEFINE R == {ss \in Nat \X Nat : ss[1] < ss[2]}
           T == Nat \ S
<1>1. IsWellFoundedOn(R, Nat)
  <2>1. R = OpToRel(<, Nat)
    BY DEF OpToRel
  <2> QED BY <2>1, NatLessThanWellFounded
<1> SUFFICES ASSUME T # {} PROVE FALSE
  OBVIOUS
<1>2. T \subseteq Nat
  OBVIOUS
<1> HIDE DEF R, T
<1>3. PICK x \in T : \A y \in T : ~(<<y, x>> \in R)
  BY <1>1, <1>2, WFMin
<1>4. x # 0 /\ x - 1 \in Nat
  BY <1>3 DEF T
<1>5. x - 1 \in S
  <2>1. <<x - 1, x>> \in R
    BY <1>3, <1>4 DEF R, T
  <2>2. x - 1 \notin T
    BY <1>3, <2>1
  <2> QED BY <1>4, <2>2 DEF T
<1> QED BY <1>3, <1>4, <1>5 DEF T

-----------------------------------------------------------------------------
(* Bytes and PushAll are defined by recursion; these are the functions     *)
(* behind them, up to place m of cs, and their equations.                  *)

SumsTo(cs, m, f) ==
    [n \in 0..m |-> IF n = 0 THEN 0 ELSE f[n - 1] + ChunkSize[cs[n]]]

Sums(cs) == CHOOSE f : f = SumsTo(cs, Len(cs), f)

PushedTo(r, cs, m, f) ==
    [n \in 0..m |-> IF n = 0 THEN r ELSE PushChunk(f[n - 1], cs[n], "ready")]

Pushed(r, cs) == CHOOSE f : f = PushedTo(r, cs, Len(cs), f)

LEMMA BytesIsSum == \A cs : Bytes(cs) = Sums(cs)[Len(cs)]
BY DEF Bytes, Sums, SumsTo

LEMMA PushAllIsPushed == \A r, cs : PushAll(r, cs) = Pushed(r, cs)[Len(cs)]
BY DEF PushAll, Pushed, PushedTo

LEMMA SumsEquation ==
    ASSUME NEW cs, Len(cs) \in Nat
    PROVE  Sums(cs) = SumsTo(cs, Len(cs), Sums(cs))
<1> DEFINE S == {m \in Nat : \E f : f = SumsTo(cs, m, f)}
<1>1. 0 \in S
  <2> DEFINE g == [n \in 0..0 |-> 0]
  <2>1. g = SumsTo(cs, 0, g)
    BY DEF SumsTo
  <2> QED BY <2>1
<1>2. ASSUME NEW m \in S PROVE m + 1 \in S
  <2>1. PICK f : f = SumsTo(cs, m, f)
    BY <1>2
  <2> DEFINE g == [n \in 0..(m + 1) |-> IF n <= m THEN f[n] ELSE f[m] + ChunkSize[cs[m + 1]]]
  <2>2. \A n \in 0..m : f[n] = IF n = 0 THEN 0 ELSE f[n - 1] + ChunkSize[cs[n]]
    <3> DEFINE h == SumsTo(cs, m, f)
    <3>1. \A n \in 0..m : h[n] = IF n = 0 THEN 0 ELSE f[n - 1] + ChunkSize[cs[n]]
      BY DEF SumsTo
    <3> HIDE DEF h
    <3>2. f = h
      BY <2>1 DEF h
    <3> QED BY <3>1, <3>2
  <2>3. \A n \in 0..(m + 1) : g[n] = IF n = 0 THEN 0 ELSE g[n - 1] + ChunkSize[cs[n]]
    <3> SUFFICES ASSUME NEW n \in 0..(m + 1)
                 PROVE  g[n] = IF n = 0 THEN 0 ELSE g[n - 1] + ChunkSize[cs[n]]
      OBVIOUS
    <3>1. CASE n <= m
      <4>1. n \in 0..m /\ g[n] = f[n]
        BY <1>2, <3>1
      <4>2. n # 0 => g[n - 1] = f[n - 1]
        BY <1>2, <3>1
      <4> HIDE DEF g
      <4> QED BY <2>2, <4>1, <4>2
    <3>2. CASE n = m + 1
      BY <1>2, <3>2
    <3> QED BY <1>2, <3>1, <3>2
  <2>4. g = SumsTo(cs, m + 1, g)
    <3>1. g = [n \in 0..(m + 1) |-> g[n]]
      OBVIOUS
    <3> HIDE DEF g
    <3> QED BY <2>3, <3>1 DEF SumsTo
  <2> QED BY <1>2, <2>4
<1>3. S = Nat
  <2>1. S \in SUBSET Nat
    OBVIOUS
  <2> HIDE DEF S
  <2> QED BY <1>1, <1>2, <2>1, Induction
<1>4. \E f : f = SumsTo(cs, Len(cs), f)
  BY <1>3
<1> QED BY <1>4 DEF Sums

LEMMA PushedEquation ==
    ASSUME NEW r, NEW cs, Len(cs) \in Nat
    PROVE  Pushed(r, cs) = PushedTo(r, cs, Len(cs), Pushed(r, cs))
<1> DEFINE S == {m \in Nat : \E f : f = PushedTo(r, cs, m, f)}
<1>1. 0 \in S
  <2> DEFINE g == [n \in 0..0 |-> r]
  <2>1. g = PushedTo(r, cs, 0, g)
    BY DEF PushedTo
  <2> QED BY <2>1
<1>2. ASSUME NEW m \in S PROVE m + 1 \in S
  <2>1. PICK f : f = PushedTo(r, cs, m, f)
    BY <1>2
  <2> DEFINE g == [n \in 0..(m + 1) |->
                     IF n <= m THEN f[n] ELSE PushChunk(f[m], cs[m + 1], "ready")]
  <2>2. \A n \in 0..m : f[n] = IF n = 0 THEN r ELSE PushChunk(f[n - 1], cs[n], "ready")
    <3> DEFINE h == PushedTo(r, cs, m, f)
    <3>1. \A n \in 0..m : h[n] = IF n = 0 THEN r ELSE PushChunk(f[n - 1], cs[n], "ready")
      BY DEF PushedTo
    <3> HIDE DEF h
    <3>2. f = h
      BY <2>1 DEF h
    <3> QED BY <3>1, <3>2
  <2>3. \A n \in 0..(m + 1) : g[n] = IF n = 0 THEN r ELSE PushChunk(g[n - 1], cs[n], "ready")
    <3> SUFFICES ASSUME NEW n \in 0..(m + 1)
                 PROVE  g[n] = IF n = 0 THEN r ELSE PushChunk(g[n - 1], cs[n], "ready")
      OBVIOUS
    <3>1. CASE n <= m
      <4>1. n \in 0..m /\ g[n] = f[n]
        BY <1>2, <3>1
      <4>2. n # 0 => g[n - 1] = f[n - 1]
        BY <1>2, <3>1
      <4> HIDE DEF g
      <4> QED BY <2>2, <4>1, <4>2
    <3>2. CASE n = m + 1
      BY <1>2, <3>2
    <3> QED BY <1>2, <3>1, <3>2
  <2>4. g = PushedTo(r, cs, m + 1, g)
    <3>1. g = [n \in 0..(m + 1) |-> g[n]]
      OBVIOUS
    <3> HIDE DEF g
    <3> QED BY <2>3, <3>1 DEF PushedTo
  <2> QED BY <1>2, <2>4
<1>3. S = Nat
  <2>1. S \in SUBSET Nat
    OBVIOUS
  <2> HIDE DEF S
  <2> QED BY <1>1, <1>2, <2>1, Induction
<1>4. \E f : f = PushedTo(r, cs, Len(cs), f)
  BY <1>3
<1> QED BY <1>4 DEF Pushed

LEMMA PushAllSteps ==
    ASSUME NEW r, NEW cs, Len(cs) \in Nat
    PROVE  /\ PushAll(r, cs) = Pushed(r, cs)[Len(cs)]
           /\ Pushed(r, cs)[0] = r
           /\ \A n \in 1..Len(cs) :
                 Pushed(r, cs)[n] = PushChunk(Pushed(r, cs)[n - 1], cs[n], "ready")
<1> DEFINE f == Pushed(r, cs)
           h == PushedTo(r, cs, Len(cs), f)
<1>1. \A n \in 0..Len(cs) : h[n] = IF n = 0 THEN r ELSE PushChunk(f[n - 1], cs[n], "ready")
  BY DEF PushedTo
<1>2. f = h
  BY PushedEquation
<1>3. PushAll(r, cs) = f[Len(cs)]
  BY PushAllIsPushed
<1> HIDE DEF f, h
<1>4. f[0] = r /\ \A n \in 1..Len(cs) : f[n] = PushChunk(f[n - 1], cs[n], "ready")
  BY <1>1, <1>2
<1> QED BY <1>3, <1>4 DEF f

LEMMA NoBytes == Len(<<>>) = 0 /\ Bytes(<<>>) = 0
<1>1. Len(<<>>) = 0
  OBVIOUS
<1>2. Sums(<<>>) = SumsTo(<<>>, Len(<<>>), Sums(<<>>))
  BY <1>1, SumsEquation
<1>3. SumsTo(<<>>, 0, Sums(<<>>))[0] = 0
  BY DEF SumsTo
<1> QED BY <1>1, <1>2, <1>3, BytesIsSum

LEMMA BytesTypes ==
    ASSUME NEW cs \in Seq(Chunk)
    PROVE  Bytes(cs) \in Nat
<1> DEFINE f == Sums(cs)
           h == SumsTo(cs, Len(cs), f)
           S == {m \in Nat : m <= Len(cs) => f[m] \in Nat}
<1>1. f = h
  BY SumsEquation
<1>2. \A n \in 0..Len(cs) : h[n] = IF n = 0 THEN 0 ELSE f[n - 1] + ChunkSize[cs[n]]
  BY DEF SumsTo
<1>3. \A n \in 1..Len(cs) : ChunkSize[cs[n]] \in Nat
  BY StreamAssumption DEF Chunk
<1>4. Bytes(cs) = f[Len(cs)]
  BY BytesIsSum
<1> HIDE DEF f, h
<1>5. 0 \in S
  BY <1>1, <1>2
<1>6. ASSUME NEW m \in S PROVE m + 1 \in S
  <2>1. m + 1 <= Len(cs) => m + 1 \in 1..Len(cs) /\ (m + 1) - 1 = m /\ m <= Len(cs)
    BY <1>6
  <2> QED BY <1>1, <1>2, <1>3, <1>6, <2>1
<1>7. S = Nat
  <2>1. S \in SUBSET Nat
    OBVIOUS
  <2> HIDE DEF S
  <2> QED BY <1>5, <1>6, <2>1, Induction
<1> QED BY <1>4, <1>7

(* Bytes of the first n chunks of the file.                                *)
Upto == Sums([i \in Chunk |-> i])

LEMMA Sizes ==
    /\ Len(ChunkSize) \in Nat /\ Chunk = 1..Len(ChunkSize)
    /\ \A c \in Chunk : ChunkSize[c] \in Nat \ {0}
    /\ WRITE_BUFFER_SIZE \in Nat \ {0}
BY StreamAssumption DEF Chunk

LEMMA UptoEquation ==
    /\ Upto[0] = 0 /\ FileSize = Upto[Len(ChunkSize)]
    /\ \A n \in Chunk : Upto[n] = Upto[n - 1] + ChunkSize[n]
<1> DEFINE cs == [i \in Chunk |-> i]
           h == SumsTo(cs, Len(cs), Upto)
<1>1. Len(cs) = Len(ChunkSize) /\ Len(cs) \in Nat /\ \A i \in Chunk : cs[i] = i
  BY Sizes
<1>2. Upto = h
  BY <1>1, SumsEquation DEF Upto
<1>3. FileSize = Upto[Len(cs)]
  BY BytesIsSum DEF FileSize, Upto
<1>4. \A n \in 0..Len(cs) : h[n] = IF n = 0 THEN 0 ELSE Upto[n - 1] + ChunkSize[cs[n]]
  BY DEF SumsTo
<1> HIDE DEF cs, h
<1> QED BY <1>1, <1>2, <1>3, <1>4, Sizes

(* It grows with n.                                                        *)
LEMMA UptoGrows ==
    /\ FileSize \in Nat
    /\ \A n \in 0..Len(ChunkSize) : /\ Upto[n] \in Nat /\ Upto[n] <= FileSize
                                    /\ Upto[n] = FileSize => n = Len(ChunkSize)
<1> DEFINE L == Len(ChunkSize)
           S == {m \in Nat : m <= L => /\ Upto[m] \in Nat
                                       /\ \A n \in 0..m : /\ Upto[n] <= Upto[m] /\ Upto[n] \in Nat
                                                          /\ Upto[n] = Upto[m] => n = m}
<1>1. 0 \in S
  BY UptoEquation
<1>2. ASSUME NEW m \in S PROVE m + 1 \in S
  <2>1. CASE m + 1 <= L
    <3>1. m + 1 \in Chunk /\ (m + 1) - 1 = m /\ m <= L /\ m \in Nat
      BY <1>2, <2>1, Sizes
    <3>2. Upto[m + 1] = Upto[m] + ChunkSize[m + 1] /\ ChunkSize[m + 1] \in Nat \ {0}
      BY <3>1, UptoEquation, Sizes
    <3>3. Upto[m] \in Nat /\ \A n \in 0..m : Upto[n] <= Upto[m] /\ Upto[n] \in Nat
      BY <1>2, <3>1
    <3>4. ASSUME NEW n \in 0..(m + 1)
          PROVE  /\ Upto[n] <= Upto[m + 1] /\ Upto[n] \in Nat
                 /\ Upto[n] = Upto[m + 1] => n = m + 1
      <4>1. CASE n = m + 1
        BY <3>2, <3>3, <4>1
      <4>2. CASE n # m + 1
        <5>1. n \in 0..m
          BY <3>1, <4>2
        <5> QED BY <3>2, <3>3, <5>1
      <4> QED BY <4>1, <4>2
    <3> QED BY <3>1, <3>2, <3>3, <3>4
  <2>2. CASE ~(m + 1 <= L)
    BY <1>2, <2>2
  <2> QED BY <2>1, <2>2
<1>3. S = Nat
  <2>1. S \in SUBSET Nat
    OBVIOUS
  <2> HIDE DEF S
  <2> QED BY <1>1, <1>2, <2>1, Induction
<1>4. L \in Nat /\ FileSize = Upto[L]
  BY Sizes, UptoEquation
<1>5. L \in S
  BY <1>3, <1>4
<1> HIDE DEF L
<1> QED BY <1>4, <1>5 DEF L

-----------------------------------------------------------------------------
(* The chunks after place a of the file, up to place b.                    *)
Run(a, b) == [j \in 1..(b - a) |-> a + j]

LEMMA RunFacts ==
    ASSUME NEW a \in 0..Len(ChunkSize), NEW b \in 0..Len(ChunkSize), a <= b
    PROVE  /\ Run(a, b) \in Seq(Chunk) /\ Len(Run(a, b)) = b - a
           /\ \A j \in 1..(b - a) : Run(a, b)[j] = a + j
           /\ Run(a, b) = <<>> <=> a = b
<1>1. a \in Nat /\ b \in Nat /\ b - a \in Nat
  BY Sizes
<1>2. ASSUME NEW j \in 1..(b - a) PROVE a + j \in Chunk
  BY <1>1, Sizes
<1>3. Run(a, b) \in Seq(Chunk) /\ Len(Run(a, b)) = b - a
  BY <1>1, <1>2 DEF Run
<1>4. \A j \in 1..(b - a) : Run(a, b)[j] = a + j
  BY DEF Run
<1>5. Run(a, b) = <<>> <=> Len(Run(a, b)) = 0
  BY <1>3
<1> QED BY <1>1, <1>3, <1>4, <1>5

LEMMA RunAppend ==
    ASSUME NEW a \in 0..Len(ChunkSize), NEW n \in 0..Len(ChunkSize), a <= n, n < Len(ChunkSize)
    PROVE  Append(Run(a, n), n + 1) = Run(a, n + 1)
<1>1. a \in Nat /\ n \in Nat /\ n + 1 \in 0..Len(ChunkSize) /\ n + 1 \in Chunk /\ a <= n + 1
  BY Sizes
<1> DEFINE s == Append(Run(a, n), n + 1)
           t == Run(a, n + 1)
<1>2. /\ Run(a, n) \in Seq(Chunk) /\ Len(Run(a, n)) = n - a
      /\ s \in Seq(Chunk) /\ Len(s) = n - a + 1
      /\ s[n - a + 1] = n + 1
      /\ \A j \in 1..(n - a) : s[j] = Run(a, n)[j]
  <2> DEFINE u == Run(a, n)
  <2>1. u \in Seq(Chunk) /\ Len(u) = n - a
    BY RunFacts
  <2> HIDE DEF u
  <2>2. /\ Append(u, n + 1) \in Seq(Chunk) /\ Len(Append(u, n + 1)) = Len(u) + 1
        /\ Append(u, n + 1)[Len(u) + 1] = n + 1
        /\ \A j \in 1..Len(u) : Append(u, n + 1)[j] = u[j]
    BY <1>1, <2>1
  <2> QED BY <2>1, <2>2 DEF u
<1>3. t \in Seq(Chunk) /\ Len(t) = n + 1 - a
  BY <1>1, RunFacts
<1>4. ASSUME NEW j \in 1..Len(s) PROVE s[j] = t[j]
  <2>1. t[j] = a + j
    BY <1>1, <1>2, RunFacts, SMTT(30)
  <2>2. CASE j <= n - a
    <3>1. s[j] = Run(a, n)[j] /\ j \in 1..(n - a)
      <4>1. j \in 1..(n - a)
        BY <1>1, <1>2, <2>2
      <4> HIDE DEF s
      <4> QED BY <1>2, <4>1
    <3> QED BY <2>1, <3>1, RunFacts
  <2>3. CASE j = n - a + 1
    <3>1. s[j] = n + 1
      <4> HIDE DEF s
      <4> QED BY <1>2, <2>3
    <3> QED BY <1>1, <2>1, <2>3, <3>1
  <2> QED BY <1>1, <1>2, <2>2, <2>3
<1>5. Len(s) = Len(t)
  BY <1>1, <1>2, <1>3
<1> HIDE DEF s, t
<1>6. s = t
  BY <1>2, <1>3, <1>4, <1>5, SeqEqual
<1> QED BY <1>6 DEF s, t

LEMMA RunConcat ==
    ASSUME NEW a \in 0..Len(ChunkSize), NEW b \in 0..Len(ChunkSize), a <= b
    PROVE  Run(0, a) \o Run(a, b) = Run(0, b)
<1>1. a \in Nat /\ b \in Nat /\ 0 \in 0..Len(ChunkSize) /\ a - 0 = a /\ b - 0 = b
  BY Sizes
<1> DEFINE s == Run(0, a) \o Run(a, b)
           t == Run(0, b)
<1>2. Len(Run(0, a)) = a /\ Run(0, a) \in Seq(Chunk)
  BY <1>1, RunFacts
<1>3. Len(Run(a, b)) = b - a /\ Run(a, b) \in Seq(Chunk)
  BY <1>1, RunFacts
<1>4. s \in Seq(Chunk) /\ Len(s) = b
  BY <1>1, <1>2, <1>3
<1>5. t \in Seq(Chunk) /\ Len(t) = b
  BY <1>1, RunFacts
<1>6. ASSUME NEW j \in 1..Len(s) PROVE s[j] = t[j]
  <2>1. t[j] = j
    <3>1. j \in 1..(b - 0) /\ 0 + j = j /\ 0 <= b
      BY <1>1, <1>4
    <3> QED BY <1>1, <3>1, RunFacts
  <2>2. CASE j <= a
    <3>1. s[j] = Run(0, a)[j] /\ j \in 1..a
      BY <1>1, <1>2, <1>3, <1>4, <2>2
    <3> QED BY <1>1, <2>1, <3>1, RunFacts
  <2>3. CASE j > a
    <3>1. s[j] = Run(a, b)[j - a] /\ j - a \in 1..(b - a)
      <4> DEFINE u == Run(0, a)
                 v == Run(a, b)
      <4> HIDE DEF u, v
      <4>1. /\ Len(u) = a /\ Len(v) = b - a /\ u \in Seq(Chunk) /\ v \in Seq(Chunk)
            /\ s = u \o v
        BY <1>2, <1>3 DEF u, v
      <4>2. j \in (Len(u) + 1)..(Len(u) + Len(v)) /\ j - a \in 1..(b - a)
        BY <1>1, <1>4, <2>3, <4>1
      <4>3. (u \o v)[j] = v[j - Len(u)]
        BY <4>1, <4>2, ConcatProperties
      <4> QED BY <4>1, <4>2, <4>3 DEF v
    <3>2. Run(a, b)[j - a] = a + (j - a)
      BY <3>1, RunFacts
    <3> QED BY <1>1, <2>1, <3>1, <3>2
  <2> QED BY <1>1, <1>4, <2>2, <2>3
<1> HIDE DEF s, t
<1>7. s = t
  BY <1>4, <1>5, <1>6, SeqEqual
<1> QED BY <1>7 DEF s, t

-----------------------------------------------------------------------------
Recv == [chunks : Seq(Chunk), receivedBytes : Nat,
         writePromise : Seq(Seq(Chunk) \ {<<>>}), finishes : Seq(Nat),
         blobs : Seq(Seq(Chunk)), rejected : BOOLEAN]

(* The writes of r are the file from its first chunk on, the i-th of them  *)
(* up to place pos[i], and what is buffered goes on from there to place n. *)
Covers(r, pos, n) ==
    LET m == Len(r.writePromise)
    IN  /\ r \in Recv
        /\ pos \in [0..m -> 0..Len(ChunkSize)] /\ pos[0] = 0
        /\ \A i, j \in 0..m : i <= j => pos[i] <= pos[j]
        /\ \A i \in 1..m : r.writePromise[i] = Run(pos[i - 1], pos[i])
        /\ n \in 0..Len(ChunkSize) /\ pos[m] <= n
        /\ r.chunks = Run(pos[m], n)

(* pos goes on as new.                                                     *)
Extends(r, pos, s, new) ==
    /\ Len(r.writePromise) <= Len(s.writePromise)
    /\ \A i \in 0..Len(r.writePromise) : new[i] = pos[i]

LEMMA ExtendsOn ==
    ASSUME NEW r, NEW s, NEW t, NEW pos, NEW mid, NEW new,
           Len(r.writePromise) \in Nat, Len(s.writePromise) \in Nat,
           Len(t.writePromise) \in Nat,
           Extends(r, pos, s, mid), Extends(s, mid, t, new)
    PROVE  Extends(r, pos, t, new)
<1>1. Len(r.writePromise) <= Len(s.writePromise) /\ Len(s.writePromise) <= Len(t.writePromise)
  BY DEF Extends
<1>2. ASSUME NEW i \in 0..Len(r.writePromise)
      PROVE  new[i] = pos[i]
  <2>1. i \in 0..Len(s.writePromise)
    BY <1>1
  <2>2. new[i] = mid[i] /\ mid[i] = pos[i]
    BY <2>1 DEF Extends
  <2> QED BY <2>2
<1>3. Len(r.writePromise) <= Len(t.writePromise)
  BY <1>1
<1> QED BY <1>2, <1>3 DEF Extends

LEMMA ChainFields ==
    ASSUME NEW r \in Recv, r.chunks # <<>>
    PROVE  /\ Chain(r) \in Recv
           /\ Chain(r).chunks = <<>>
           /\ Chain(r).writePromise = Append(r.writePromise, r.chunks)
           /\ Chain(r).receivedBytes = r.receivedBytes
           /\ Chain(r).finishes = r.finishes
           /\ Chain(r).blobs = r.blobs
           /\ Chain(r).rejected = r.rejected
<1>1. Append(r.writePromise, r.chunks) \in Seq(Seq(Chunk) \ {<<>>})
  BY DEF Recv
<1> DEFINE none == <<>>
<1>2. none \in Seq(Chunk)
  OBVIOUS
<1>3. Chain(r) = [r EXCEPT !.chunks = none, !.writePromise = Append(r.writePromise, r.chunks)]
  BY DEF Chain, Recv
<1>4. none = <<>>
  OBVIOUS
<1> HIDE DEF none
<1> QED BY <1>1, <1>2, <1>3, <1>4 DEF Recv

LEMMA ChainCovers ==
    ASSUME NEW r, NEW pos, NEW n, Covers(r, pos, n), r.chunks # <<>>
    PROVE  \E new : /\ Covers(Chain(r), new, n) /\ Extends(r, pos, Chain(r), new)
                    /\ new[Len(Chain(r).writePromise)] = n
<1> DEFINE m == Len(r.writePromise)
           new == [i \in 0..(m + 1) |-> IF i <= m THEN pos[i] ELSE n]
           s == Chain(r)
<1>1. r \in Recv /\ m \in Nat /\ n \in 0..Len(ChunkSize) /\ pos \in [0..m -> 0..Len(ChunkSize)]
  BY DEF Covers, Recv
<1>2. /\ s \in Recv /\ s.chunks = <<>> /\ s.writePromise = Append(r.writePromise, r.chunks)
  BY <1>1, ChainFields
<1>3. Len(s.writePromise) = m + 1
  BY <1>1, <1>2 DEF Recv
<1>4. \A i \in 0..m : new[i] = pos[i]
  BY <1>1
<1>5. new[m + 1] = n
  BY <1>1
<1>6. new \in [0..(m + 1) -> 0..Len(ChunkSize)]
  BY <1>1
<1> HIDE DEF new
<1>7. pos[0] = 0 /\ pos[m] <= n /\ r.chunks = Run(pos[m], n)
      /\ (\A i, j \in 0..m : i <= j => pos[i] <= pos[j])
      /\ \A i \in 1..m : r.writePromise[i] = Run(pos[i - 1], pos[i])
  BY DEF Covers
<1>8. ASSUME NEW i \in 0..(m + 1), NEW j \in 0..(m + 1), i <= j
      PROVE  new[i] <= new[j]
  <2>1. CASE j <= m
    BY <1>1, <1>4, <1>7, <1>8, <2>1
  <2>2. CASE j = m + 1 /\ i <= m
    <3>1. pos[i] <= pos[m] /\ pos[i] \in Nat /\ pos[m] \in Nat
      BY <1>1, <1>7, <2>2, Sizes, SMTT(30)
    <3> QED BY <1>1, <1>4, <1>5, <1>7, <2>2, <3>1, Sizes, SMTT(30)
  <2>3. CASE j = m + 1 /\ i = m + 1
    BY <1>1, <1>5, <2>3, Sizes
  <2> QED BY <1>1, <2>1, <2>2, <2>3
<1>9. ASSUME NEW i \in 1..(m + 1) PROVE s.writePromise[i] = Run(new[i - 1], new[i])
  <2>1. CASE i <= m
    <3>1. s.writePromise[i] = r.writePromise[i]
      BY <1>1, <1>2, <2>1 DEF Recv
    <3>2. i \in 1..m /\ new[i] = pos[i] /\ new[i - 1] = pos[i - 1]
      BY <1>1, <1>4, <2>1
    <3> QED BY <1>7, <3>1, <3>2
  <2>2. CASE i = m + 1
    <3>1. s.writePromise[i] = r.chunks
      BY <1>1, <1>2, <2>2 DEF Recv
    <3>2. new[i] = n /\ new[i - 1] = pos[m]
      BY <1>1, <1>4, <1>5, <2>2
    <3> QED BY <1>7, <3>1, <3>2
  <2> QED BY <1>1, <2>1, <2>2
<1>10. s.chunks = Run(n, n)
  BY <1>1, <1>2, RunFacts, Sizes
<1>11. new[0] = 0 /\ n <= n
  BY <1>1, <1>4, <1>7, Sizes
<1>12. Covers(s, new, n)
  <2> HIDE DEF s, m
  <2> QED BY <1>1, <1>2, <1>3, <1>5, <1>6, <1>8, <1>9, <1>10, <1>11 DEF Covers
<1>13. Extends(r, pos, s, new)
  BY <1>1, <1>3, <1>4 DEF Extends
<1> HIDE DEF s, m
<1> QED BY <1>3, <1>5, <1>12, <1>13 DEF s

-----------------------------------------------------------------------------
(* The parts of PushChunk.                                                 *)
Added(r, c) == [r EXCEPT !.chunks = Append(@, c), !.receivedBytes = @ + ChunkSize[c]]

Buffered(r, state) ==
    IF state = "ready" /\ Bytes(r.chunks) >= WRITE_BUFFER_SIZE THEN Chain(r) ELSE r

Flushed(r) == IF r.chunks = <<>> THEN r ELSE Chain(r)

LEMMA PushParts ==
    ASSUME NEW r, NEW c, NEW state
    PROVE  PushChunk(r, c, state) =
               IF Buffered(Added(r, c), state).receivedBytes >= FileSize
               THEN Finish(Buffered(Added(r, c), state), state)
               ELSE Buffered(Added(r, c), state)
BY DEF PushChunk, Buffered, Added

LEMMA AddedCovers ==
    ASSUME NEW r, NEW pos, NEW n, Covers(r, pos, n), n < Len(ChunkSize)
    PROVE  LET s == Added(r, n + 1)
           IN  /\ Covers(s, pos, n + 1)
               /\ s.chunks = Append(r.chunks, n + 1) /\ s.chunks # <<>>
               /\ s.receivedBytes = r.receivedBytes + ChunkSize[n + 1]
               /\ s.writePromise = r.writePromise /\ s.finishes = r.finishes
               /\ s.blobs = r.blobs /\ s.rejected = r.rejected
<1> DEFINE s == Added(r, n + 1)
           m == Len(r.writePromise)
<1>1. /\ r \in Recv /\ n \in 0..Len(ChunkSize) /\ m \in Nat
      /\ pos \in [0..m -> 0..Len(ChunkSize)] /\ pos[m] <= n /\ r.chunks = Run(pos[m], n)
  BY DEF Covers, Recv
<1>2. n + 1 \in Chunk /\ n + 1 \in 0..Len(ChunkSize) /\ ChunkSize[n + 1] \in Nat
  BY <1>1, Sizes
<1>3. Append(r.chunks, n + 1) \in Seq(Chunk) /\ r.receivedBytes + ChunkSize[n + 1] \in Nat
  BY <1>1, <1>2 DEF Recv
<1>4. /\ s \in Recv /\ s.chunks = Append(r.chunks, n + 1)
      /\ s.receivedBytes = r.receivedBytes + ChunkSize[n + 1]
      /\ s.writePromise = r.writePromise /\ s.finishes = r.finishes
      /\ s.blobs = r.blobs /\ s.rejected = r.rejected
  BY <1>1, <1>3 DEF Recv, Added
<1>5. pos[m] \in 0..Len(ChunkSize) /\ pos[m] \in Nat /\ n \in Nat
  BY <1>1, Sizes
<1>6. s.chunks = Run(pos[m], n + 1)
  BY <1>1, <1>4, <1>5, RunAppend
<1>7. s.chunks # <<>>
  BY <1>1, <1>4 DEF Recv
<1>8. pos[m] <= n + 1
  BY <1>1, <1>5
<1>9. Covers(s, pos, n + 1)
  <2> HIDE DEF s
  <2> QED BY <1>2, <1>4, <1>6, <1>8 DEF Covers
<1> HIDE DEF s
<1> QED BY <1>4, <1>7, <1>9 DEF s

LEMMA FlushCovers ==
    ASSUME NEW r, NEW pos, NEW n, Covers(r, pos, n)
    PROVE  \E new : /\ Covers(Flushed(r), new, n) /\ Extends(r, pos, Flushed(r), new)
                    /\ new[Len(Flushed(r).writePromise)] = n
<1>1. CASE r.chunks # <<>>
  BY <1>1, ChainCovers DEF Flushed
<1>2. CASE r.chunks = <<>>
  <2>1. Flushed(r) = r
    BY <1>2 DEF Flushed
  <2>2. /\ r \in Recv /\ n \in 0..Len(ChunkSize) /\ Len(r.writePromise) \in Nat
        /\ pos \in [0..Len(r.writePromise) -> 0..Len(ChunkSize)]
        /\ pos[Len(r.writePromise)] <= n
        /\ r.chunks = Run(pos[Len(r.writePromise)], n)
    BY DEF Covers, Recv
  <2>3. pos[Len(r.writePromise)] \in 0..Len(ChunkSize)
    BY <2>2
  <2>4. pos[Len(r.writePromise)] = n
    <3> DEFINE k == pos[Len(r.writePromise)]
    <3>1. k \in 0..Len(ChunkSize) /\ k <= n /\ n \in 0..Len(ChunkSize) /\ Run(k, n) = <<>>
      BY <1>2, <2>2, <2>3
    <3> HIDE DEF k
    <3>2. k = n
      BY <3>1, RunFacts
    <3> QED BY <3>2 DEF k
  <2>5. Extends(r, pos, r, pos)
    BY <2>2 DEF Extends
  <2> QED BY <2>1, <2>4, <2>5
<1> QED BY <1>1, <1>2

LEMMA FlushFields ==
    ASSUME NEW r \in Recv
    PROVE  LET s == Flushed(r)
           IN  /\ s \in Recv /\ s.chunks = <<>> /\ s.receivedBytes = r.receivedBytes
               /\ s.finishes = r.finishes /\ s.blobs = r.blobs /\ s.rejected = r.rejected
               /\ r.chunks # <<>> => Len(s.writePromise) = Len(r.writePromise) + 1
<1>1. CASE r.chunks = <<>>
  BY <1>1 DEF Flushed
<1>2. CASE r.chunks # <<>>
  <2>1. Len(Append(r.writePromise, r.chunks)) = Len(r.writePromise) + 1
    BY DEF Recv
  <2> QED BY <1>2, <2>1, ChainFields DEF Flushed
<1> QED BY <1>1, <1>2

(* finish of a receiver that has not fallen back to memory.                *)
LEMMA FinishCovers ==
    ASSUME NEW r, NEW pos, NEW n, Covers(r, pos, n), NEW state, state # "failed"
    PROVE  LET s == Finish(r, state)
           IN  /\ s.chunks = <<>> /\ s.receivedBytes = r.receivedBytes /\ s.blobs = r.blobs
               /\ s.finishes = Append(r.finishes, Len(s.writePromise))
               /\ s.rejected = (r.rejected \/ (state = "opening" /\ r.chunks # <<>>))
               /\ r.chunks # <<>> => Len(s.writePromise) = Len(r.writePromise) + 1
               /\ \E new : /\ Covers(s, new, n) /\ Extends(r, pos, s, new)
                           /\ new[Len(s.writePromise)] = n
<1> DEFINE u == Flushed(r)
           rej == r.rejected \/ (state = "opening" /\ r.chunks # <<>>)
           fin == Append(r.finishes, Len(u.writePromise))
           s == Finish(r, state)
<1>1. r \in Recv
  BY DEF Covers
<1>2. /\ u \in Recv /\ u.chunks = <<>> /\ u.receivedBytes = r.receivedBytes
      /\ u.finishes = r.finishes /\ u.blobs = r.blobs /\ u.rejected = r.rejected
      /\ r.chunks # <<>> => Len(u.writePromise) = Len(r.writePromise) + 1
  BY <1>1, FlushFields
<1>3. PICK new : /\ Covers(u, new, n) /\ Extends(r, pos, u, new)
                 /\ new[Len(u.writePromise)] = n
  BY FlushCovers
<1>4. s = [u EXCEPT !.rejected = @ \/ (state = "opening" /\ r.chunks # <<>>),
                    !.finishes = Append(@, Len(u.writePromise))]
  BY DEF Finish, Flushed
<1>5. rej \in BOOLEAN
  BY <1>1 DEF Recv
<1>6. fin \in Seq(Nat)
  BY <1>1, <1>2 DEF Recv
<1> HIDE DEF u, s
<1>7. s = [u EXCEPT !.rejected = rej, !.finishes = fin]
  BY <1>2, <1>4
<1> HIDE DEF rej, fin
<1>8. /\ s \in Recv /\ s.chunks = <<>> /\ s.receivedBytes = r.receivedBytes
      /\ s.blobs = r.blobs /\ s.finishes = fin /\ s.rejected = rej
      /\ s.writePromise = u.writePromise
  BY <1>2, <1>5, <1>6, <1>7 DEF Recv
<1>9. Covers(s, new, n) /\ Extends(r, pos, s, new) /\ new[Len(s.writePromise)] = n
  BY <1>2, <1>3, <1>8 DEF Covers, Extends
<1> QED BY <1>2, <1>8, <1>9 DEF s, fin, rej

(* What becomes of r when the chunk after place n is pushed to an open     *)
(* stream.                                                                 *)
Grown(r, pos, n, s, new) ==
    /\ Covers(s, new, n + 1) /\ Extends(r, pos, s, new)
    /\ \/ s.receivedBytes < FileSize /\ s.finishes = r.finishes
       \/ /\ s.receivedBytes >= FileSize
          /\ s.finishes = Append(r.finishes, Len(s.writePromise))
          /\ new[Len(s.writePromise)] = n + 1

(* pushChunk once the stream is ready.                                     *)
LEMMA PushReady ==
    ASSUME NEW r, NEW pos, NEW n, Covers(r, pos, n), n < Len(ChunkSize)
    PROVE  LET s == PushChunk(r, n + 1, "ready")
           IN  /\ s.receivedBytes = r.receivedBytes + ChunkSize[n + 1]
               /\ s.blobs = r.blobs /\ s.rejected = r.rejected
               /\ Bytes(s.chunks) < WRITE_BUFFER_SIZE
               /\ \E new : Grown(r, pos, n, s, new)
<1> DEFINE a == Added(r, n + 1)
           b == Buffered(a, "ready")
           s == PushChunk(r, n + 1, "ready")
<1>1. /\ Covers(a, pos, n + 1) /\ a.chunks # <<>>
      /\ a.receivedBytes = r.receivedBytes + ChunkSize[n + 1]
      /\ a.writePromise = r.writePromise /\ a.finishes = r.finishes
      /\ a.blobs = r.blobs /\ a.rejected = r.rejected
  BY AddedCovers
<1>2. s = IF b.receivedBytes >= FileSize THEN Finish(b, "ready") ELSE b
  BY PushParts
<1>3. r \in Recv /\ a \in Recv /\ n \in 0..Len(ChunkSize)
  BY <1>1 DEF Covers
<1>4. n + 1 \in Chunk /\ FileSize \in Nat /\ a.receivedBytes \in Nat /\ WRITE_BUFFER_SIZE \in Nat
  BY <1>3, Sizes, UptoGrows DEF Recv
<1> HIDE DEF a, s
<1>5. /\ b.receivedBytes = a.receivedBytes /\ b.finishes = a.finishes
      /\ b.blobs = a.blobs /\ b.rejected = a.rejected
      /\ Bytes(b.chunks) < WRITE_BUFFER_SIZE
      /\ \E new : Covers(b, new, n + 1) /\ Extends(a, pos, b, new)
  <2>1. CASE Bytes(a.chunks) >= WRITE_BUFFER_SIZE
    <3>1. b = Chain(a)
      BY <2>1 DEF Buffered
    <3>2. Bytes(b.chunks) < WRITE_BUFFER_SIZE
      BY <1>1, <1>3, <3>1, ChainFields, NoBytes, Sizes
    <3> QED BY <1>1, <1>3, <3>1, <3>2, ChainFields, ChainCovers
  <2>2. CASE ~(Bytes(a.chunks) >= WRITE_BUFFER_SIZE)
    <3>1. b = a
      BY <2>2 DEF Buffered
    <3>2. Extends(a, pos, a, pos)
      BY <1>3 DEF Extends, Recv
    <3>3. a.chunks \in Seq(Chunk)
      BY <1>3 DEF Recv
    <3>4. Bytes(a.chunks) \in Nat
      BY <3>3, BytesTypes
    <3>5. Bytes(a.chunks) < WRITE_BUFFER_SIZE
      BY <1>4, <2>2, <3>4
    <3> QED BY <1>1, <3>1, <3>2, <3>5
  <2> QED BY <2>1, <2>2
<1>6. PICK mid : Covers(b, mid, n + 1) /\ Extends(a, pos, b, mid)
  BY <1>5
<1>7. Extends(r, pos, b, mid)
  BY <1>1, <1>6 DEF Extends
<1>8. b \in Recv
  BY <1>6 DEF Covers
<1> HIDE DEF b
<1>9. CASE b.receivedBytes < FileSize
  <2>1. s = b
    BY <1>2, <1>4, <1>5, <1>9
  <2> QED BY <1>1, <1>5, <1>6, <1>7, <1>9, <2>1 DEF s, Grown
<1>10. CASE b.receivedBytes >= FileSize
  <2>1. s = Finish(b, "ready")
    BY <1>2, <1>10
  <2>2. /\ s.chunks = <<>> /\ s.receivedBytes = b.receivedBytes /\ s.blobs = b.blobs
        /\ s.finishes = Append(b.finishes, Len(s.writePromise))
        /\ s.rejected = (b.rejected \/ ("ready" = "opening" /\ b.chunks # <<>>))
    BY <1>6, <2>1, FinishCovers
  <2>3. PICK new : /\ Covers(s, new, n + 1) /\ Extends(b, mid, s, new)
                   /\ new[Len(s.writePromise)] = n + 1
    BY <1>6, <2>1, FinishCovers
  <2>4. s.rejected = b.rejected
    BY <1>8, <2>2 DEF Recv
  <2>5. Extends(r, pos, s, new)
    <3>1. Len(r.writePromise) \in Nat /\ Len(b.writePromise) \in Nat /\ Len(s.writePromise) \in Nat
      BY <1>3, <1>8, <2>3 DEF Covers, Recv
    <3> QED BY <1>7, <2>3, <3>1 DEF Extends
  <2>6. Bytes(s.chunks) < WRITE_BUFFER_SIZE
    BY <2>2, NoBytes, Sizes
  <2>7. Grown(r, pos, n, s, new)
    BY <1>1, <1>5, <1>10, <2>2, <2>3, <2>5 DEF Grown
  <2> QED BY <1>1, <1>5, <2>2, <2>4, <2>6, <2>7 DEF s
<1> QED BY <1>4, <1>5, <1>9, <1>10

(* pushChunk while the stream is being opened.                             *)
LEMMA PushOpening ==
    ASSUME NEW r, NEW pos, NEW n, Covers(r, pos, n), n < Len(ChunkSize)
    PROVE  LET s == PushChunk(r, n + 1, "opening")
           IN  /\ s.receivedBytes = r.receivedBytes + ChunkSize[n + 1]
               /\ s.blobs = r.blobs
               /\ \/ /\ s.receivedBytes < FileSize /\ s.finishes = r.finishes
                     /\ s.writePromise = r.writePromise
                  \/ /\ s.receivedBytes >= FileSize /\ s.rejected /\ s.chunks = <<>>
                     /\ s.finishes = Append(r.finishes, Len(s.writePromise))
                     /\ Len(s.writePromise) = Len(r.writePromise) + 1
               /\ \E new : Covers(s, new, n + 1) /\ Extends(r, pos, s, new)
<1> DEFINE a == Added(r, n + 1)
           s == PushChunk(r, n + 1, "opening")
<1>1. /\ Covers(a, pos, n + 1) /\ a.chunks # <<>>
      /\ a.receivedBytes = r.receivedBytes + ChunkSize[n + 1]
      /\ a.writePromise = r.writePromise /\ a.finishes = r.finishes
      /\ a.blobs = r.blobs /\ a.rejected = r.rejected
  BY AddedCovers
<1>2. a = Buffered(a, "opening")
  BY DEF Buffered
<1>3. s = IF a.receivedBytes >= FileSize THEN Finish(a, "opening") ELSE a
  BY <1>2, PushParts
<1>4. a.receivedBytes \in Nat /\ FileSize \in Nat
  BY <1>1, UptoGrows DEF Covers, Recv
<1> HIDE DEF a, s
<1>5. CASE a.receivedBytes < FileSize
  <2>1. s = a
    BY <1>3, <1>4, <1>5
  <2>2. Extends(r, pos, a, pos)
    BY <1>1 DEF Extends, Covers, Recv
  <2> QED BY <1>1, <1>5, <2>1, <2>2 DEF s
<1>6. CASE a.receivedBytes >= FileSize
  <2>1. s = Finish(a, "opening")
    BY <1>3, <1>6
  <2>2. /\ s.chunks = <<>> /\ s.receivedBytes = a.receivedBytes /\ s.blobs = a.blobs
        /\ s.finishes = Append(a.finishes, Len(s.writePromise))
        /\ s.rejected = (a.rejected \/ ("opening" = "opening" /\ a.chunks # <<>>))
        /\ Len(s.writePromise) = Len(a.writePromise) + 1
    BY <1>1, <2>1, FinishCovers
  <2>3. PICK new : Covers(s, new, n + 1) /\ Extends(a, pos, s, new)
    BY <1>1, <2>1, FinishCovers
  <2>4. s.rejected
    BY <1>1, <2>2
  <2>5. Extends(r, pos, s, new)
    BY <1>1, <2>3 DEF Extends
  <2> QED BY <1>1, <1>6, <2>2, <2>3, <2>4, <2>5 DEF s
<1> QED BY <1>4, <1>5, <1>6

(* pushChunk after the fallback to memory.                                 *)
LEMMA PushFailed ==
    ASSUME NEW r, NEW pos, NEW n, Covers(r, pos, n), n < Len(ChunkSize)
    PROVE  LET s == PushChunk(r, n + 1, "failed")
           IN  /\ s.receivedBytes = r.receivedBytes + ChunkSize[n + 1]
               /\ s.writePromise = r.writePromise /\ s.finishes = r.finishes
               /\ \/ /\ s.receivedBytes < FileSize /\ s.blobs = r.blobs
                     /\ Covers(s, pos, n + 1)
                  \/ /\ s.receivedBytes >= FileSize
                     /\ s.blobs = Append(r.blobs, Append(r.chunks, n + 1))
                     /\ Covers(s, pos, pos[Len(r.writePromise)])
<1> DEFINE a == Added(r, n + 1)
           s == PushChunk(r, n + 1, "failed")
           none == <<>>
           bs == Append(a.blobs, a.chunks)
<1>1. /\ Covers(a, pos, n + 1) /\ a.chunks = Append(r.chunks, n + 1)
      /\ a.receivedBytes = r.receivedBytes + ChunkSize[n + 1]
      /\ a.writePromise = r.writePromise /\ a.finishes = r.finishes
      /\ a.blobs = r.blobs
  BY AddedCovers, ZenonT(60)
<1>2. a = Buffered(a, "failed")
  BY DEF Buffered
<1>3. s = IF a.receivedBytes >= FileSize THEN Finish(a, "failed") ELSE a
  BY <1>2, PushParts
<1>4. a \in Recv /\ a.receivedBytes \in Nat /\ FileSize \in Nat
  BY <1>1, UptoGrows DEF Covers, Recv
<1> HIDE DEF a, s
<1>5. CASE a.receivedBytes < FileSize
  BY <1>1, <1>3, <1>4, <1>5 DEF s
<1>6. CASE a.receivedBytes >= FileSize
  <2>1. bs \in Seq(Seq(Chunk)) /\ none \in Seq(Chunk) /\ none = <<>>
    BY <1>4 DEF Recv
  <2>2. s = [a EXCEPT !.chunks = <<>>, !.blobs = Append(@, a.chunks)]
    BY <1>3, <1>6 DEF Finish
  <2>3. bs = Append(r.blobs, Append(r.chunks, n + 1))
    BY <1>1
  <2>4. s = [a EXCEPT !.chunks = none, !.blobs = bs]
    BY <1>4, <2>2 DEF Recv
  <2> HIDE DEF none, bs
  <2>5. /\ s \in Recv /\ s.chunks = <<>> /\ s.blobs = bs
        /\ s.receivedBytes = a.receivedBytes /\ s.writePromise = a.writePromise
        /\ s.finishes = a.finishes
    BY <1>4, <2>1, <2>4 DEF Recv
  <2> DEFINE k == pos[Len(r.writePromise)]
  <2>6. Len(r.writePromise) \in Nat
    BY DEF Covers, Recv
  <2>7. k \in 0..Len(ChunkSize)
    BY <2>6 DEF Covers
  <2>8. Run(k, k) = <<>> /\ k <= k
    <3> HIDE DEF k
    <3>1. k <= k
      BY <2>7, Sizes
    <3> QED BY <2>7, <3>1, RunFacts
  <2>9. Covers(s, pos, k)
    BY <1>1, <2>5, <2>7, <2>8 DEF Covers
  <2> QED BY <1>1, <1>6, <2>3, <2>5, <2>9 DEF s
<1> QED BY <1>4, <1>5, <1>6

LEMMA PushNothing == \A r : PushAll(r, <<>>) = r
BY NoBytes, PushAllSteps

(* Each call of finish awaits writes that have been chained.               *)
Awaits(r) == \A i \in 1..Len(r.finishes) : r.finishes[i] <= Len(r.writePromise)

LEMMA AwaitsKept ==
    ASSUME NEW r \in Recv, NEW s \in Recv, Awaits(r),
           Len(r.writePromise) <= Len(s.writePromise),
           s.finishes = r.finishes \/ s.finishes = Append(r.finishes, Len(s.writePromise))
    PROVE  Awaits(s)
<1>1. /\ Len(r.writePromise) \in Nat /\ Len(s.writePromise) \in Nat
      /\ r.finishes \in Seq(Nat)
  BY DEF Recv
<1>2. \A i \in 1..Len(r.finishes) : /\ r.finishes[i] <= Len(s.writePromise)
                                    /\ r.finishes[i] \in Nat
  BY <1>1, SMTT(30) DEF Awaits
<1>3. CASE s.finishes = r.finishes
  BY <1>2, <1>3 DEF Awaits
<1>4. CASE s.finishes = Append(r.finishes, Len(s.writePromise))
  <2> DEFINE f == r.finishes
             k == Len(s.writePromise)
  <2>1. f \in Seq(Nat) /\ k \in Nat /\ \A i \in 1..Len(f) : f[i] <= k
    BY <1>1, <1>2
  <2> HIDE DEF f, k
  <2>2. \A i \in 1..Len(Append(f, k)) : Append(f, k)[i] <= k
    BY <2>1
  <2> QED BY <1>4, <2>2 DEF Awaits, f, k
<1> QED BY <1>3, <1>4

(* initStream pushes what has gathered, the file from its first chunk on.  *)
LEMMA PushAllCovers ==
    ASSUME NEW r, NEW pos, Covers(r, pos, 0), Awaits(r), r.chunks = <<>>,
           NEW a \in 0..Len(ChunkSize)
    PROVE  LET s == PushAll(r, Run(0, a))
           IN  /\ s.receivedBytes = r.receivedBytes + Upto[a]
               /\ s.blobs = r.blobs /\ s.rejected = r.rejected
               /\ Bytes(s.chunks) < WRITE_BUFFER_SIZE
               /\ Awaits(s)
               /\ \E new : Covers(s, new, a) /\ Extends(r, pos, s, new)
<1> DEFINE cs == Run(0, a)
           f == Pushed(r, cs)
           Good(k) == /\ f[k].receivedBytes = r.receivedBytes + Upto[k]
                      /\ f[k].blobs = r.blobs /\ f[k].rejected = r.rejected
                      /\ Bytes(f[k].chunks) < WRITE_BUFFER_SIZE
                      /\ Awaits(f[k])
                      /\ \E new : Covers(f[k], new, k) /\ Extends(r, pos, f[k], new)
           S == {k \in Nat : k <= a => Good(k)}
<1>1. r \in Recv /\ a \in Nat /\ 0 <= a /\ a - 0 = a
  BY Sizes DEF Covers
<1>2. Len(cs) = a /\ \A j \in 1..a : cs[j] = j
  <2>1. 0 \in 0..Len(ChunkSize)
    BY Sizes
  <2>2. Len(cs) = a - 0 /\ \A j \in 1..(a - 0) : cs[j] = 0 + j
    BY <1>1, <2>1, RunFacts
  <2> QED BY <1>1, <2>2
<1>3. PushAll(r, cs) = f[a] /\ f[0] = r
      /\ \A n \in 1..a : f[n] = PushChunk(f[n - 1], n, "ready")
  <2>1. Len(cs) \in Nat
    BY <1>1, <1>2
  <2>2. /\ PushAll(r, cs) = f[Len(cs)] /\ f[0] = r
        /\ \A n \in 1..Len(cs) : f[n] = PushChunk(f[n - 1], cs[n], "ready")
    BY <2>1, PushAllSteps
  <2> HIDE DEF f, cs
  <2> QED BY <1>2, <2>2
<1> HIDE DEF f, cs
<1>4. 0 \in S
  <2>1. Bytes(r.chunks) < WRITE_BUFFER_SIZE
    BY NoBytes, Sizes
  <2>2. r.receivedBytes + Upto[0] = r.receivedBytes
    BY <1>1, UptoEquation DEF Recv
  <2>3. Extends(r, pos, r, pos)
    BY <1>1 DEF Extends, Recv
  <2> QED BY <1>3, <2>1, <2>2, <2>3
<1>5. ASSUME NEW k \in S PROVE k + 1 \in S
  <2> SUFFICES ASSUME k + 1 <= a PROVE Good(k + 1)
    OBVIOUS
  <2>1. k \in Nat /\ k <= a /\ k + 1 \in 1..a /\ (k + 1) - 1 = k /\ k < Len(ChunkSize)
        /\ k + 1 \in Chunk
    BY <1>1, <1>5, Sizes
  <2>2. Good(k)
    BY <1>5, <2>1
  <2>3. PICK mid : Covers(f[k], mid, k) /\ Extends(r, pos, f[k], mid)
    BY <2>2
  <2>4. f[k + 1] = PushChunk(f[k], k + 1, "ready")
    BY <1>3, <2>1
  <2>5. /\ f[k + 1].receivedBytes = f[k].receivedBytes + ChunkSize[k + 1]
        /\ f[k + 1].blobs = f[k].blobs /\ f[k + 1].rejected = f[k].rejected
        /\ Bytes(f[k + 1].chunks) < WRITE_BUFFER_SIZE
    BY <2>1, <2>3, <2>4, PushReady
  <2>6. PICK new : Grown(f[k], mid, k, f[k + 1], new)
    BY <2>1, <2>3, <2>4, PushReady
  <2>7. f[k] \in Recv /\ f[k + 1] \in Recv
    BY <2>3, <2>6 DEF Covers, Grown
  <2>8. Awaits(f[k + 1])
    BY <2>2, <2>6, <2>7, AwaitsKept DEF Extends, Grown
  <2>9. Extends(r, pos, f[k + 1], new)
    <3>1. /\ Len(r.writePromise) \in Nat /\ Len(f[k].writePromise) \in Nat
          /\ Len(f[k + 1].writePromise) \in Nat
      <4>1. \A u \in Recv : Len(u.writePromise) \in Nat
        BY DEF Recv
      <4> QED BY <1>1, <2>7, <4>1
    <3>2. Extends(f[k], mid, f[k + 1], new)
      BY <2>6 DEF Grown
    <3> QED BY <2>3, <3>1, <3>2, ExtendsOn
  <2>10. f[k + 1].receivedBytes = r.receivedBytes + Upto[k + 1]
    <3>1. Upto[k + 1] = Upto[k] + ChunkSize[k + 1]
      BY <2>1, UptoEquation
    <3>2. Upto[k] \in Nat /\ ChunkSize[k + 1] \in Nat /\ r.receivedBytes \in Nat
      BY <1>1, <2>1, UptoGrows, Sizes DEF Recv
    <3> QED BY <2>2, <2>5, <3>1, <3>2
  <2> QED BY <2>2, <2>5, <2>6, <2>8, <2>9, <2>10 DEF Grown
<1>6. S = Nat
  <2>1. S \in SUBSET Nat
    OBVIOUS
  <2> HIDE DEF S
  <2> QED BY <1>4, <1>5, <2>1, Induction
<1>7. Good(a)
  BY <1>1, <1>6
<1> QED BY <1>3, <1>7 DEF cs

-----------------------------------------------------------------------------
(* The inductive invariant.                                                *)
Types ==
    /\ arrived \in 0..Len(ChunkSize) /\ stream \in {"opening", "ready", "failed"}
    /\ disk \in Seq(Chunk) /\ written \in 0..Len(recv.writePromise)
    /\ file \in {"none", "open", "closing", "closed", "broken", "aborted"}
    /\ completed \in Nat
    /\ cancelled \in BOOLEAN /\ aborting \in BOOLEAN /\ early \in BOOLEAN

(* Places of the writes, and n of the last chunk gathered: every chunk that *)
(* has arrived is in a write or in the buffer, and the writes done are on  *)
(* the disk.                                                               *)
HoldsAt(pos, n) ==
    /\ Covers(recv, pos, n)
    /\ disk = Run(0, pos[written])
    /\ ~cancelled => n = arrived \/ (stream = "failed" /\ arrived = Len(ChunkSize))
    /\ stream = "ready" /\ ~early
           => \A i \in 1..Len(recv.finishes) : pos[recv.finishes[i]] = Len(ChunkSize)

Gathered == \E pos, n : HoldsAt(pos, n)

Finishing ==
    /\ Awaits(recv)
    /\ stream # "ready" => \A i \in 1..Len(recv.finishes) : recv.finishes[i] # 0

Dropped == cancelled => recv.chunks = <<>>

Opening == stream = "opening" =>
    /\ file = "none" /\ written = 0 /\ ~aborting
    /\ completed = 0 /\ recv.blobs = <<>>
    /\ recv.receivedBytes = Upto[arrived]
    /\ recv.writePromise # <<>>
           => arrived = Len(ChunkSize) /\ recv.rejected /\ recv.chunks = <<>>
    /\ ~early => arrived = 0 /\ recv.finishes = <<>>

Failed == stream = "failed" =>
    /\ file = "none" /\ written = 0 /\ ~aborting
    /\ recv.receivedBytes = Upto[arrived]
    /\ recv.writePromise # <<>> => arrived = Len(ChunkSize)
    /\ \/ completed = 0 /\ recv.blobs = <<>>
       \/ completed = 1 /\ recv.blobs = <<Whole>> /\ arrived = Len(ChunkSize)

Ready == stream = "ready" =>
    /\ recv.blobs = <<>> /\ file # "none"
    /\ completed = IF file = "closed" THEN 1 ELSE 0
    /\ Upto[arrived] <= recv.receivedBytes
    /\ recv.receivedBytes <= Upto[arrived] + FileSize
    /\ ~early => recv.receivedBytes = Upto[arrived]
    /\ ~early /\ file \in {"closing", "closed"} => disk = Whole
    /\ Bytes(recv.chunks) < WRITE_BUFFER_SIZE

Inv == Types /\ Gathered /\ Finishing /\ Dropped /\ Opening /\ Failed /\ Ready

LEMMA WholeIsRun == Whole = Run(0, Len(ChunkSize))
<1>1. Len(ChunkSize) - 0 = Len(ChunkSize)
  BY Sizes
<1> QED BY <1>1 DEF Whole, FirstChunks, Run

LEMMA CoversFacts ==
    ASSUME NEW r, NEW pos, NEW n, Covers(r, pos, n)
    PROVE  /\ r \in Recv /\ Len(r.writePromise) \in Nat
           /\ pos \in [0..Len(r.writePromise) -> 0..Len(ChunkSize)] /\ pos[0] = 0
           /\ n \in 0..Len(ChunkSize) /\ pos[Len(r.writePromise)] <= n
           /\ r.chunks = Run(pos[Len(r.writePromise)], n)
           /\ r.writePromise = <<>> => r.chunks = Run(0, n)
           /\ Len(r.writePromise) = 0 <=> r.writePromise = <<>>
<1>1. r.writePromise \in Seq(Seq(Chunk) \ {<<>>}) /\ r \in Recv
  BY DEF Covers, Recv
<1>2. Len(r.writePromise) = 0 <=> r.writePromise = <<>>
  BY <1>1
<1> QED BY <1>1, <1>2 DEF Covers

(* A buffer is empty when the writes go as far as what has been gathered.  *)
LEMMA NoneGathered ==
    ASSUME NEW r, NEW pos, NEW n, Covers(r, pos, n), r.chunks = <<>>
    PROVE  pos[Len(r.writePromise)] = n
<1> DEFINE k == pos[Len(r.writePromise)]
<1>1. k \in 0..Len(ChunkSize) /\ k <= n /\ n \in 0..Len(ChunkSize) /\ Run(k, n) = <<>>
  <2>1. Len(r.writePromise) \in 0..Len(r.writePromise)
    BY CoversFacts
  <2> QED BY <2>1, CoversFacts
<1> HIDE DEF k
<1>2. k = n
  BY <1>1, RunFacts
<1> QED BY <1>2 DEF k

LEMMA EmptiedCovers ==
    ASSUME NEW r, NEW pos, NEW n, Covers(r, pos, n)
    PROVE  LET s == [r EXCEPT !.chunks = <<>>]
           IN  /\ Covers(s, pos, pos[Len(r.writePromise)])
               /\ s.chunks = <<>> /\ s.finishes = r.finishes
               /\ s.writePromise = r.writePromise /\ s.receivedBytes = r.receivedBytes
               /\ s.blobs = r.blobs /\ s.rejected = r.rejected
<1> DEFINE none == <<>>
           s == [r EXCEPT !.chunks = none]
           k == pos[Len(r.writePromise)]
<1>1. none \in Seq(Chunk) /\ none = <<>>
  OBVIOUS
<1>2. r \in Recv /\ k \in 0..Len(ChunkSize)
  <2>1. Len(r.writePromise) \in 0..Len(r.writePromise)
    BY CoversFacts
  <2> QED BY <2>1, CoversFacts
<1> HIDE DEF none, k
<1>3. /\ s \in Recv /\ s.chunks = none /\ s.finishes = r.finishes
      /\ s.writePromise = r.writePromise /\ s.receivedBytes = r.receivedBytes
      /\ s.blobs = r.blobs /\ s.rejected = r.rejected
  BY <1>1, <1>2 DEF Recv
<1>4. Run(k, k) = <<>> /\ k <= k
  <2>1. k <= k
    BY <1>2, Sizes
  <2> QED BY <1>2, <2>1, RunFacts
<1> HIDE DEF s
<1>5. Covers(s, pos, k)
  BY <1>1, <1>2, <1>3, <1>4 DEF Covers, k
<1> QED BY <1>1, <1>3, <1>5 DEF s, k, none

LEMMA InitInv == Init => Inv
<1> SUFFICES ASSUME Init PROVE Inv
  OBVIOUS
<1> DEFINE none == <<>>
           pos == [i \in 0..0 |-> 0]
<1>1. none \in Seq(Chunk) /\ none \in Seq(Seq(Chunk) \ {<<>>}) /\ none \in Seq(Nat)
      /\ none \in Seq(Seq(Chunk)) /\ none = <<>> /\ Len(none) = 0
  OBVIOUS
<1> HIDE DEF none
<1>2. recv = [chunks |-> none, receivedBytes |-> 0, writePromise |-> none,
              finishes |-> none, blobs |-> none, rejected |-> FALSE]
  BY <1>1 DEF Init
<1>3. recv \in Recv
  BY <1>1, <1>2 DEF Recv
<1>4. /\ recv.chunks = none /\ recv.receivedBytes = 0 /\ recv.writePromise = none
      /\ recv.finishes = none /\ recv.blobs = none
  BY <1>2
<1>5. Run(0, 0) = none /\ 0 \in 0..Len(ChunkSize)
  BY <1>1, RunFacts, Sizes
<1>6. pos \in [0..0 -> 0..Len(ChunkSize)] /\ pos[0] = 0
  BY Sizes
<1> HIDE DEF pos
<1>7. Covers(recv, pos, 0)
  BY <1>1, <1>3, <1>4, <1>5, <1>6 DEF Covers
<1>8. Types
  <2>1. disk \in Seq(Chunk)
    BY <1>1 DEF Init
  <2>2. /\ arrived = 0 /\ stream = "opening" /\ file = "none" /\ written = 0
        /\ completed = 0 /\ cancelled = FALSE /\ aborting = FALSE /\ early = FALSE
    BY DEF Init
  <2>3. written \in 0..Len(recv.writePromise) /\ arrived \in 0..Len(ChunkSize)
    BY <1>1, <1>4, <1>5, <2>2
  <2> QED BY <2>1, <2>2, <2>3 DEF Types
<1>9. Gathered
  <2>1. HoldsAt(pos, 0)
    BY <1>1, <1>4, <1>5, <1>6, <1>7 DEF HoldsAt, Init
  <2> QED BY <2>1 DEF Gathered
<1>10. Finishing /\ Dropped
  BY <1>1, <1>4 DEF Finishing, Dropped, Awaits
<1>11. Opening
  BY <1>1, <1>4, UptoEquation DEF Opening, Init
<1>12. Failed /\ Ready
  BY DEF Failed, Ready, Init
<1> QED BY <1>8, <1>9, <1>10, <1>11, <1>12 DEF Inv

-----------------------------------------------------------------------------
(* A chunk arrives.                                                        *)

LEMMA ArrivesOpening ==
    ASSUME Inv, OnBinaryMessage, stream = "opening"
    PROVE  Inv'
<1>1. PICK pos, n : HoldsAt(pos, n)
  BY DEF Inv, Gathered
<1>2. /\ ~cancelled /\ arrived < Len(ChunkSize) /\ arrived' = arrived + 1
      /\ recv' = PushChunk(recv, arrived + 1, "opening")
      /\ completed' = completed + Len(recv'.blobs) - Len(recv.blobs)
      /\ early' = TRUE
      /\ UNCHANGED <<stream, disk, written, file, cancelled, aborting>>
  BY DEF OnBinaryMessage
<1>3. n = arrived /\ Covers(recv, pos, arrived)
  BY <1>1, <1>2 DEF HoldsAt
<1>4. Types /\ Opening /\ Finishing /\ Dropped
  BY DEF Inv
<1>5. PICK s : s = recv'
  OBVIOUS
<1>6. /\ s.receivedBytes = recv.receivedBytes + ChunkSize[arrived + 1]
      /\ s.blobs = recv.blobs
      /\ \/ /\ s.receivedBytes < FileSize /\ s.finishes = recv.finishes
            /\ s.writePromise = recv.writePromise
         \/ /\ s.receivedBytes >= FileSize /\ s.rejected /\ s.chunks = <<>>
            /\ s.finishes = Append(recv.finishes, Len(s.writePromise))
            /\ Len(s.writePromise) = Len(recv.writePromise) + 1
  BY <1>2, <1>3, <1>5, PushOpening
<1>7. PICK new : Covers(s, new, arrived + 1) /\ Extends(recv, pos, s, new)
  BY <1>2, <1>3, <1>5, PushOpening
<1>8. arrived \in Nat /\ arrived + 1 \in Chunk /\ arrived + 1 \in 0..Len(ChunkSize)
      /\ (arrived + 1) - 1 = arrived
  BY <1>2, <1>4, Sizes DEF Types
<1>9. s.receivedBytes = Upto[arrived + 1]
  BY <1>4, <1>6, <1>8, UptoEquation DEF Opening
<1>10. s.receivedBytes >= FileSize => arrived + 1 = Len(ChunkSize)
  BY <1>8, <1>9, UptoGrows
<1>11. /\ recv \in Recv /\ s \in Recv /\ Len(recv.writePromise) \in Nat
       /\ Len(s.writePromise) \in Nat /\ Len(recv.writePromise) <= Len(s.writePromise)
  BY <1>3, <1>7, CoversFacts DEF Extends
<1>12. recv.writePromise = <<>> /\ Len(recv.writePromise) = 0
  BY <1>2, <1>3, <1>4, <1>8, CoversFacts DEF Opening
<1>13. Types'
  <2>1. completed' = completed
    <3>1. Len(recv.blobs) \in Nat /\ completed \in Nat
      BY <1>4, <1>11 DEF Recv, Types
    <3> QED BY <1>2, <1>5, <1>6, <3>1
  <2>2. written' = written /\ written = 0
    BY <1>2, <1>4 DEF Opening
  <2>3. (written \in 0..Len(recv.writePromise))'
    BY <1>5, <1>11, <2>2
  <2> QED BY <1>2, <1>4, <1>8, <2>1, <2>3 DEF Types
<1>14. Gathered'
  <2>1. pos[written] = new[written] /\ written = 0
    BY <1>4, <1>7, <1>11 DEF Opening, Extends
  <2>2. disk = Run(0, new[written])
    BY <1>1, <2>1 DEF HoldsAt
  <2>3. PICK k : k = arrived + 1
    OBVIOUS
  <2>4. HoldsAt(new, k)'
    BY <1>2, <1>5, <1>7, <2>2, <2>3 DEF HoldsAt
  <2>5. (\E p, q : HoldsAt(p, q))'
    BY <2>4
  <2> QED BY <2>5 DEF Gathered
<1>15. Finishing'
  <2>1. Awaits(s)
    BY <1>4, <1>6, <1>11, AwaitsKept DEF Finishing
  <2>2. \A i \in 1..Len(s.finishes) : s.finishes[i] # 0
    <3>1. \A i \in 1..Len(recv.finishes) : recv.finishes[i] # 0
      BY <1>4 DEF Finishing
    <3>2. CASE s.finishes = recv.finishes
      BY <3>1, <3>2
    <3>3. CASE s.finishes = Append(recv.finishes, 1)
      <4>1. recv.finishes \in Seq(Nat)
        BY <1>11 DEF Recv
      <4> QED BY <3>1, <3>3, <4>1
    <3>4. Len(s.writePromise) = Len(recv.writePromise) + 1 => Len(s.writePromise) = 1
      BY <1>12
    <3> QED BY <1>6, <3>2, <3>3, <3>4
  <2> QED BY <1>5, <2>1, <2>2 DEF Finishing
<1>16. Dropped'
  BY <1>2 DEF Dropped
<1>17. Opening'
  <2>1. completed' = 0
    <3>1. Len(recv.blobs) \in Nat
      BY <1>11 DEF Recv
    <3> QED BY <1>2, <1>4, <1>5, <1>6, <3>1 DEF Opening
  <2>2. s.writePromise # <<>>
            => arrived + 1 = Len(ChunkSize) /\ s.rejected /\ s.chunks = <<>>
    BY <1>6, <1>10, <1>12
  <2>3. s.blobs = <<>>
    BY <1>4, <1>6 DEF Opening
  <2> QED BY <1>2, <1>4, <1>5, <1>9, <2>1, <2>2, <2>3 DEF Opening
<1>18. Failed' /\ Ready'
  BY <1>2 DEF Failed, Ready
<1> QED BY <1>13, <1>14, <1>15, <1>16, <1>17, <1>18 DEF Inv

LEMMA ArrivesReady ==
    ASSUME Inv, OnBinaryMessage, stream = "ready"
    PROVE  Inv'
<1>1. PICK pos, n : HoldsAt(pos, n)
  BY DEF Inv, Gathered
<1>2. /\ ~cancelled /\ arrived < Len(ChunkSize) /\ arrived' = arrived + 1
      /\ recv' = PushChunk(recv, arrived + 1, "ready")
      /\ completed' = completed + Len(recv'.blobs) - Len(recv.blobs)
      /\ early' = early
      /\ UNCHANGED <<stream, disk, written, file, cancelled, aborting>>
  BY DEF OnBinaryMessage, Inv, Types
<1>3. n = arrived /\ Covers(recv, pos, arrived)
  BY <1>1, <1>2 DEF HoldsAt
<1>4. Types /\ Ready /\ Finishing /\ Dropped
  BY DEF Inv
<1>5. PICK s : s = recv'
  OBVIOUS
<1>6. /\ s.receivedBytes = recv.receivedBytes + ChunkSize[arrived + 1]
      /\ s.blobs = recv.blobs /\ Bytes(s.chunks) < WRITE_BUFFER_SIZE
  BY <1>2, <1>3, <1>5, PushReady
<1>7. PICK new : Grown(recv, pos, arrived, s, new)
  BY <1>2, <1>3, <1>5, PushReady
<1>8. arrived \in Nat /\ arrived + 1 \in Chunk /\ arrived + 1 \in 0..Len(ChunkSize)
      /\ (arrived + 1) - 1 = arrived /\ arrived \in 0..Len(ChunkSize)
  BY <1>2, <1>4, Sizes DEF Types
<1>9. Upto[arrived + 1] = Upto[arrived] + ChunkSize[arrived + 1]
      /\ ChunkSize[arrived + 1] \in Nat /\ Upto[arrived] \in Nat /\ Upto[arrived + 1] \in Nat
      /\ FileSize \in Nat
  BY <1>8, Sizes, UptoEquation, UptoGrows
<1>10. /\ recv \in Recv /\ s \in Recv /\ Len(recv.writePromise) \in Nat
       /\ Len(s.writePromise) \in Nat /\ Len(recv.writePromise) <= Len(s.writePromise)
  BY <1>3, <1>7, CoversFacts DEF Extends, Grown
<1>11. completed' = completed
  <2>1. Len(recv.blobs) \in Nat /\ completed \in Nat
    BY <1>4, <1>10 DEF Recv, Types
  <2> QED BY <1>2, <1>5, <1>6, <2>1
<1>12. Types'
  <2>1. (written \in 0..Len(recv.writePromise))'
    <3>1. written \in 0..Len(recv.writePromise)
      BY <1>4 DEF Types
    <3> QED BY <1>2, <1>5, <1>10, <3>1
  <2> QED BY <1>2, <1>4, <1>8, <1>11, <2>1 DEF Types
<1>13. Gathered'
  <2>1. pos[written] = new[written]
    BY <1>4, <1>7 DEF Types, Extends, Grown
  <2>2. disk = Run(0, new[written])
    BY <1>1, <2>1 DEF HoldsAt
  <2>3. ~early => \A i \in 1..Len(s.finishes) : new[s.finishes[i]] = Len(ChunkSize)
    <3> SUFFICES ASSUME ~early
                 PROVE  \A i \in 1..Len(s.finishes) : new[s.finishes[i]] = Len(ChunkSize)
      OBVIOUS
    <3>1. \A i \in 1..Len(recv.finishes) : new[recv.finishes[i]] = Len(ChunkSize)
      <4> SUFFICES ASSUME NEW i \in 1..Len(recv.finishes)
                   PROVE  new[recv.finishes[i]] = Len(ChunkSize)
        OBVIOUS
      <4>1. pos[recv.finishes[i]] = Len(ChunkSize)
        BY <1>1 DEF HoldsAt
      <4>2. recv.finishes \in Seq(Nat) /\ recv.finishes[i] <= Len(recv.writePromise)
        BY <1>4, <1>10 DEF Finishing, Awaits, Recv
      <4>3. recv.finishes[i] \in 0..Len(recv.writePromise)
        BY <1>10, <4>2
      <4> QED BY <1>7, <4>1, <4>3 DEF Extends, Grown
    <3>2. CASE s.finishes = recv.finishes
      BY <3>1, <3>2
    <3>3. CASE s.receivedBytes >= FileSize
               /\ s.finishes = Append(recv.finishes, Len(s.writePromise))
               /\ new[Len(s.writePromise)] = arrived + 1
      <4>1. s.receivedBytes = Upto[arrived + 1]
        BY <1>4, <1>6, <1>9 DEF Ready
      <4>2. arrived + 1 = Len(ChunkSize)
        BY <1>8, <1>9, <3>3, <4>1, UptoGrows
      <4> DEFINE f == recv.finishes
                 k == Len(s.writePromise)
      <4>3. f \in Seq(Nat) /\ \A i \in 1..Len(f) : new[f[i]] = Len(ChunkSize)
        BY <1>10, <3>1 DEF Recv
      <4>4. new[k] = Len(ChunkSize)
        BY <3>3, <4>2
      <4> HIDE DEF f, k
      <4>5. \A i \in 1..Len(Append(f, k)) : new[Append(f, k)[i]] = Len(ChunkSize)
        BY <4>3, <4>4
      <4> QED BY <3>3, <4>5 DEF f, k
    <3> QED BY <1>7, <3>2, <3>3 DEF Grown
  <2>4. PICK k : k = arrived + 1
    OBVIOUS
  <2>5. HoldsAt(new, k)'
    BY <1>2, <1>5, <1>7, <2>2, <2>3, <2>4 DEF HoldsAt, Grown
  <2>6. (\E p, q : HoldsAt(p, q))'
    BY <2>5
  <2> QED BY <2>6 DEF Gathered
<1>14. Finishing'
  <2>1. Awaits(s)
    BY <1>4, <1>7, <1>10, AwaitsKept DEF Finishing, Grown
  <2> QED BY <1>2, <1>5, <2>1 DEF Finishing
<1>15. Dropped'
  BY <1>2 DEF Dropped
<1>16. Ready'
  <2>1. recv.receivedBytes \in Nat
    BY <1>10 DEF Recv
  <2>2. Upto[arrived + 1] <= s.receivedBytes /\ s.receivedBytes <= Upto[arrived + 1] + FileSize
        /\ (~early => s.receivedBytes = Upto[arrived + 1])
    BY <1>4, <1>6, <1>9, <2>1 DEF Ready
  <2>3. s.blobs = <<>>
    BY <1>4, <1>6 DEF Ready
  <2> QED BY <1>2, <1>4, <1>5, <1>6, <1>11, <2>2, <2>3 DEF Ready
<1>17. Failed' /\ Opening'
  BY <1>2 DEF Failed, Opening
<1> QED BY <1>12, <1>13, <1>14, <1>15, <1>16, <1>17 DEF Inv

LEMMA ArrivesFailed ==
    ASSUME Inv, OnBinaryMessage, stream = "failed"
    PROVE  Inv'
<1>1. PICK pos, n : HoldsAt(pos, n)
  BY DEF Inv, Gathered
<1>2. /\ ~cancelled /\ arrived < Len(ChunkSize) /\ arrived' = arrived + 1
      /\ recv' = PushChunk(recv, arrived + 1, "failed")
      /\ completed' = completed + Len(recv'.blobs) - Len(recv.blobs)
      /\ early' = early
      /\ UNCHANGED <<stream, disk, written, file, cancelled, aborting>>
  BY DEF OnBinaryMessage, Inv, Types
<1>3. arrived \in Nat /\ arrived + 1 \in Chunk /\ arrived + 1 \in 0..Len(ChunkSize)
      /\ (arrived + 1) - 1 = arrived /\ arrived # Len(ChunkSize)
  BY <1>2, Sizes DEF Types, Inv
<1>4. Types /\ Failed /\ Finishing /\ Dropped
  BY DEF Inv
<1>5. PICK s : s = recv'
  OBVIOUS
<1>6. n = arrived /\ Covers(recv, pos, arrived)
  BY <1>1, <1>2, <1>3 DEF HoldsAt
<1>7. /\ s.receivedBytes = recv.receivedBytes + ChunkSize[arrived + 1]
      /\ s.writePromise = recv.writePromise /\ s.finishes = recv.finishes
      /\ \/ /\ s.receivedBytes < FileSize /\ s.blobs = recv.blobs
            /\ Covers(s, pos, arrived + 1)
         \/ /\ s.receivedBytes >= FileSize
            /\ s.blobs = Append(recv.blobs, Append(recv.chunks, arrived + 1))
            /\ Covers(s, pos, pos[Len(recv.writePromise)])
  BY <1>2, <1>5, <1>6, PushFailed
<1>8. recv.writePromise = <<>> /\ recv.blobs = <<>> /\ completed = 0
  BY <1>3, <1>4 DEF Failed
<1>9. Len(recv.writePromise) = 0 /\ recv.chunks = Run(0, arrived) /\ pos[0] = 0
  BY <1>6, <1>8, CoversFacts
<1>10. s.receivedBytes = Upto[arrived + 1]
  BY <1>3, <1>4, <1>7, UptoEquation DEF Failed
<1>11. s.receivedBytes >= FileSize => arrived + 1 = Len(ChunkSize)
  BY <1>3, <1>10, UptoGrows
<1>12. \/ s.receivedBytes < FileSize /\ s.blobs = <<>> /\ completed' = 0
       \/ /\ s.receivedBytes >= FileSize /\ s.blobs = <<Whole>>
          /\ arrived + 1 = Len(ChunkSize) /\ completed' = 1
  <2>1. CASE s.receivedBytes < FileSize /\ s.blobs = recv.blobs
    BY <1>2, <1>5, <1>8, <2>1
  <2>2. CASE s.receivedBytes >= FileSize
             /\ s.blobs = Append(recv.blobs, Append(recv.chunks, arrived + 1))
    <3>1. Append(recv.chunks, arrived + 1) = Run(0, arrived + 1)
      BY <1>2, <1>3, <1>9, RunAppend, Sizes
    <3>2. s.blobs = <<Whole>>
      BY <1>8, <1>11, <2>2, <3>1, WholeIsRun
    <3>3. Len(s.blobs) = 1 /\ Len(recv.blobs) = 0
      BY <1>8, <3>2
    <3> QED BY <1>2, <1>5, <1>8, <1>11, <2>2, <3>2, <3>3
  <2> QED BY <1>7, <2>1, <2>2
<1>13. Types'
  <2>1. completed' \in Nat
    BY <1>12
  <2> QED BY <1>2, <1>3, <1>4, <1>5, <1>7, <2>1 DEF Types
<1>14. Gathered'
  <2>1. disk = Run(0, pos[written])
    BY <1>1 DEF HoldsAt
  <2>2. PICK k : Covers(s, pos, k) /\ (k = arrived + 1 \/ arrived + 1 = Len(ChunkSize))
    BY <1>7, <1>11
  <2>3. HoldsAt(pos, k)'
    BY <1>2, <1>5, <2>1, <2>2 DEF HoldsAt
  <2>4. (\E p, q : HoldsAt(p, q))'
    BY <2>3
  <2> QED BY <2>4 DEF Gathered
<1>15. Finishing'
  BY <1>2, <1>4, <1>5, <1>7 DEF Finishing, Awaits
<1>16. Dropped'
  BY <1>2 DEF Dropped
<1>17. Failed'
  BY <1>2, <1>4, <1>5, <1>7, <1>8, <1>10, <1>12 DEF Failed
<1>18. Opening' /\ Ready'
  BY <1>2 DEF Opening, Ready
<1> QED BY <1>13, <1>14, <1>15, <1>16, <1>17, <1>18 DEF Inv

-----------------------------------------------------------------------------
(* The stream is open, or cannot be opened.                                *)

LEMMA OpensStep ==
    ASSUME Inv, StreamReady
    PROVE  Inv'
<1> DEFINE r == [recv EXCEPT !.chunks = <<>>]
<1>1. PICK pos, n : HoldsAt(pos, n)
  BY DEF Inv, Gathered
<1>2. /\ stream = "opening" /\ stream' = "ready" /\ file' = "open"
      /\ recv' = PushAll(r, recv.chunks)
      /\ UNCHANGED <<arrived, disk, written, completed, cancelled, aborting, early>>
  BY DEF StreamReady
<1>3. Types /\ Opening /\ Finishing /\ Dropped
  BY DEF Inv
<1>4. Covers(recv, pos, n) /\ recv \in Recv
  BY <1>1 DEF HoldsAt, Covers
<1>5. PICK s : s = recv'
  OBVIOUS
<1>6. Covers(r, pos, pos[Len(recv.writePromise)])
      /\ r.chunks = <<>> /\ r.finishes = recv.finishes /\ r.writePromise = recv.writePromise
      /\ r.receivedBytes = recv.receivedBytes /\ r.blobs = recv.blobs
  BY <1>4, EmptiedCovers
<1>7. Awaits(r)
  BY <1>3, <1>6 DEF Finishing, Awaits
<1> HIDE DEF r
<1>8. /\ arrived \in 0..Len(ChunkSize) /\ Len(recv.writePromise) \in Nat /\ n \in 0..Len(ChunkSize)
      /\ Upto[arrived] \in Nat /\ Upto[arrived] <= FileSize /\ FileSize \in Nat
  BY <1>3, <1>4, CoversFacts, UptoGrows DEF Types
(* Either everything gathered is in the buffer, or nothing is.             *)
<1>9. \E k, new : /\ k \in 0..Len(ChunkSize) /\ (~cancelled => k = arrived)
                  /\ Covers(s, new, k) /\ Extends(recv, pos, s, new) /\ Awaits(s)
                  /\ s.blobs = recv.blobs
                  /\ recv.receivedBytes <= s.receivedBytes
                  /\ s.receivedBytes <= recv.receivedBytes + FileSize
                  /\ Bytes(s.chunks) < WRITE_BUFFER_SIZE
                  /\ arrived = 0 => s.receivedBytes = recv.receivedBytes
                                    /\ s.finishes = recv.finishes
  <2>1. CASE recv.chunks = <<>>
    <3>1. PushAll(r, recv.chunks) = r
      BY <2>1, PushNothing
    <3>2. s = r
      BY <1>2, <1>5, <3>1
    <3>3. pos[Len(recv.writePromise)] = n
      BY <1>4, <2>1, NoneGathered
    <3>4. ~cancelled => n = arrived
      BY <1>1, <1>2 DEF HoldsAt
    <3>5. Extends(recv, pos, s, pos)
      BY <1>6, <1>8, <3>2 DEF Extends
    <3>6. Bytes(s.chunks) < WRITE_BUFFER_SIZE
      BY <1>6, <3>2, NoBytes, Sizes
    <3>7. s.receivedBytes \in Nat
      BY <1>6, <3>2 DEF Covers, Recv
    <3>8. /\ recv.receivedBytes <= s.receivedBytes
          /\ s.receivedBytes <= recv.receivedBytes + FileSize
      BY <1>6, <1>8, <3>2, <3>7
    <3>9. Covers(s, pos, n) /\ Awaits(s)
      BY <1>6, <1>7, <3>2, <3>3
    <3> QED BY <1>6, <1>8, <3>2, <3>4, <3>5, <3>6, <3>8, <3>9
  <2>2. CASE recv.chunks # <<>>
    <3>1. ~cancelled /\ recv.writePromise = <<>>
      BY <1>2, <1>3, <2>2 DEF Dropped, Opening
    <3>2. n = arrived
      BY <1>1, <1>2, <3>1 DEF HoldsAt
    <3>3. recv.chunks = Run(0, arrived) /\ Len(recv.writePromise) = 0 /\ pos[0] = 0
      BY <1>4, <3>1, <3>2, CoversFacts
    <3>4. Covers(r, pos, 0)
      BY <1>6, <3>3
    <3>5. s = PushAll(r, Run(0, arrived))
      BY <1>2, <1>5, <3>3
    <3>6. /\ s.receivedBytes = r.receivedBytes + Upto[arrived] /\ s.blobs = r.blobs
          /\ Bytes(s.chunks) < WRITE_BUFFER_SIZE /\ Awaits(s)
      BY <1>6, <1>7, <1>8, <3>4, <3>5, PushAllCovers
    <3>7. PICK new : Covers(s, new, arrived) /\ Extends(r, pos, s, new)
      BY <1>6, <1>7, <1>8, <3>4, <3>5, PushAllCovers
    <3>8. Extends(recv, pos, s, new)
      BY <1>6, <3>7 DEF Extends
    <3>9. arrived # 0
      <4>1. Run(0, 0) = <<>>
        BY RunFacts, Sizes
      <4> QED BY <2>2, <3>3, <4>1
    <3>10. recv.receivedBytes \in Nat
      BY <1>4 DEF Recv
    <3>11. /\ recv.receivedBytes <= s.receivedBytes
           /\ s.receivedBytes <= recv.receivedBytes + FileSize
      BY <1>6, <1>8, <3>6, <3>10
    <3> QED BY <1>6, <1>8, <3>6, <3>7, <3>8, <3>9, <3>11
  <2> QED BY <2>1, <2>2
<1>10. PICK k, new : /\ k \in 0..Len(ChunkSize) /\ (~cancelled => k = arrived)
                     /\ Covers(s, new, k) /\ Extends(recv, pos, s, new) /\ Awaits(s)
                     /\ s.blobs = recv.blobs
                     /\ recv.receivedBytes <= s.receivedBytes
                     /\ s.receivedBytes <= recv.receivedBytes + FileSize
                     /\ Bytes(s.chunks) < WRITE_BUFFER_SIZE
                     /\ arrived = 0 => s.receivedBytes = recv.receivedBytes
                                       /\ s.finishes = recv.finishes
  BY <1>9
<1>11. Len(s.writePromise) \in Nat /\ Len(recv.writePromise) <= Len(s.writePromise)
  BY <1>10, CoversFacts DEF Extends
<1>12. Types'
  <2>1. (written \in 0..Len(recv.writePromise))'
    <3>1. written \in 0..Len(recv.writePromise)
      BY <1>3 DEF Types
    <3> QED BY <1>2, <1>5, <1>8, <1>11, <3>1
  <2> QED BY <1>2, <1>3, <2>1 DEF Types
<1>13. Gathered'
  <2>1. pos[written] = new[written]
    BY <1>3, <1>10 DEF Types, Extends
  <2>2. disk = Run(0, new[written])
    BY <1>1, <2>1 DEF HoldsAt
  <2>3. ~early => \A i \in 1..Len(s.finishes) : new[s.finishes[i]] = Len(ChunkSize)
    <3>1. ~early => Len(s.finishes) = 0
      BY <1>2, <1>3, <1>10 DEF Opening
    <3> QED BY <3>1
  <2>4. HoldsAt(new, k)'
    BY <1>2, <1>5, <1>10, <2>2, <2>3 DEF HoldsAt
  <2>5. (\E p, q : HoldsAt(p, q))'
    BY <2>4
  <2> QED BY <2>5 DEF Gathered
<1>14. Finishing'
  BY <1>2, <1>5, <1>10 DEF Finishing
<1>15. Dropped'
  <2> SUFFICES ASSUME cancelled PROVE s.chunks = <<>>
    BY <1>2, <1>5 DEF Dropped
  <2>1. recv.chunks = <<>>
    BY <1>3 DEF Dropped
  <2> QED BY <1>2, <1>5, <1>6, <2>1, PushNothing
<1>16. Opening' /\ Failed'
  BY <1>2 DEF Opening, Failed
<1>17. Ready'
  BY <1>2, <1>3, <1>5, <1>10 DEF Opening, Ready
<1> QED BY <1>12, <1>13, <1>14, <1>15, <1>16, <1>17 DEF Inv

LEMMA FailsStep ==
    ASSUME Inv, StreamFails
    PROVE  Inv'
<1>1. /\ stream = "opening" /\ stream' = "failed"
      /\ UNCHANGED <<arrived, recv, disk, written, file, completed, cancelled, aborting, early>>
  BY DEF StreamFails
<1>2. PICK pos, n : HoldsAt(pos, n)
  BY DEF Inv, Gathered
<1>3. HoldsAt(pos, n)'
  BY <1>1, <1>2 DEF HoldsAt
<1>4. (\E p, q : HoldsAt(p, q))'
  BY <1>3
<1>5. Gathered'
  BY <1>4 DEF Gathered
<1>6. Types' /\ Finishing' /\ Dropped' /\ Opening' /\ Ready'
  BY <1>1 DEF Inv, Types, Finishing, Awaits, Dropped, Opening, Ready
<1>7. Failed'
  BY <1>1 DEF Inv, Opening, Failed
<1> QED BY <1>5, <1>6, <1>7 DEF Inv

-----------------------------------------------------------------------------
(* The writes, finish after its awaits, and cancel.                        *)

LEMMA WriteDoneStep ==
    ASSUME Inv, WriteDone
    PROVE  Inv'
<1>1. PICK pos, n : HoldsAt(pos, n)
  BY DEF Inv, Gathered
<1>2. /\ stream = "ready" /\ written < Len(recv.writePromise) /\ file = "open"
      /\ disk' = disk \o recv.writePromise[written + 1] /\ written' = written + 1
      /\ UNCHANGED <<arrived, stream, recv, file, completed, cancelled, aborting, early>>
  BY DEF WriteDone, Pending
<1>3. Covers(recv, pos, n) /\ Types /\ Len(recv.writePromise) \in Nat
  BY <1>1, CoversFacts DEF HoldsAt, Inv
<1>4. /\ written \in 0..Len(recv.writePromise) /\ written + 1 \in 0..Len(recv.writePromise)
      /\ written + 1 \in 1..Len(recv.writePromise) /\ (written + 1) - 1 = written
      /\ written <= written + 1
  BY <1>2, <1>3 DEF Types
<1>5. /\ pos[written] \in 0..Len(ChunkSize) /\ pos[written + 1] \in 0..Len(ChunkSize)
      /\ pos[written] <= pos[written + 1]
      /\ recv.writePromise[written + 1] = Run(pos[written], pos[written + 1])
  BY <1>3, <1>4 DEF Covers
<1>6. disk' = Run(0, pos[written + 1])
  BY <1>1, <1>2, <1>5, RunConcat DEF HoldsAt
<1>7. disk' \in Seq(Chunk)
  <2> DEFINE k == pos[written + 1]
  <2>1. 0 \in 0..Len(ChunkSize) /\ k \in 0..Len(ChunkSize) /\ 0 <= k
    BY <1>5, Sizes
  <2> HIDE DEF k
  <2>2. Run(0, k) \in Seq(Chunk)
    BY <2>1, RunFacts
  <2> QED BY <1>6, <2>2 DEF k
<1>8. Types'
  BY <1>2, <1>3, <1>4, <1>7 DEF Types
<1>9. Gathered'
  <2>1. HoldsAt(pos, n)'
    BY <1>1, <1>2, <1>6 DEF HoldsAt
  <2>2. (\E p, q : HoldsAt(p, q))'
    BY <2>1
  <2> QED BY <2>2 DEF Gathered
<1>10. Finishing' /\ Dropped'
  BY <1>2 DEF Inv, Finishing, Awaits, Dropped
<1>11. Opening' /\ Failed'
  BY <1>2 DEF Opening, Failed
<1>12. Ready'
  BY <1>2 DEF Inv, Ready
<1> QED BY <1>8, <1>9, <1>10, <1>11, <1>12 DEF Inv

LEMMA WriteFailsStep ==
    ASSUME Inv, WriteFails
    PROVE  Inv'
<1>1. PICK pos, n : HoldsAt(pos, n)
  BY DEF Inv, Gathered
<1> DEFINE s == [recv EXCEPT !.rejected = TRUE]
<1>2. /\ stream = "ready" /\ recv' = s
      /\ UNCHANGED <<arrived, stream, disk, written, file, completed, cancelled, aborting, early>>
  BY DEF WriteFails, Pending
<1>3. recv \in Recv
  BY <1>1 DEF HoldsAt, Covers
<1>4. /\ s \in Recv /\ s.chunks = recv.chunks /\ s.writePromise = recv.writePromise
      /\ s.finishes = recv.finishes /\ s.receivedBytes = recv.receivedBytes
      /\ s.blobs = recv.blobs
  BY <1>3 DEF Recv
<1> HIDE DEF s
<1>5. Covers(s, pos, n)
  BY <1>1, <1>4 DEF HoldsAt, Covers
<1>6. Gathered'
  <2>1. HoldsAt(pos, n)'
    BY <1>1, <1>2, <1>4, <1>5 DEF HoldsAt
  <2>2. (\E p, q : HoldsAt(p, q))'
    BY <2>1
  <2> QED BY <2>2 DEF Gathered
<1>7. Types'
  BY <1>2, <1>4 DEF Inv, Types
<1>8. Finishing' /\ Dropped'
  BY <1>2, <1>4 DEF Inv, Finishing, Awaits, Dropped
<1>9. Opening' /\ Failed'
  BY <1>2 DEF Opening, Failed
<1>10. Ready'
  BY <1>2, <1>4 DEF Inv, Ready
<1> QED BY <1>6, <1>7, <1>8, <1>9, <1>10 DEF Inv

LEMMA FinishClosesStep ==
    ASSUME Inv, FinishCloses
    PROVE  Inv'
<1>1. PICK pos, n : HoldsAt(pos, n)
  BY DEF Inv, Gathered
<1> DEFINE f == recv.finishes
           s == [recv EXCEPT !.finishes = Tail(f)]
<1>2. Covers(recv, pos, n) /\ recv \in Recv /\ f \in Seq(Nat) /\ Types
      /\ Len(recv.writePromise) \in Nat
  BY <1>1, CoversFacts DEF HoldsAt, Inv, Recv
<1>3. /\ f # <<>> /\ Head(f) <= written /\ recv' = s
      /\ file' = IF file = "open" THEN "closing" ELSE file
      /\ UNCHANGED <<arrived, stream, disk, written, completed, cancelled, aborting,
                     early>>
  BY <1>2 DEF FinishCloses, Recv
<1>4. /\ Len(f) \in Nat /\ 1 \in 1..Len(f) /\ f[1] = Head(f) /\ f[1] \in Nat
      /\ Tail(f) \in Seq(Nat) /\ Len(Tail(f)) = Len(f) - 1
      /\ \A i \in 1..Len(Tail(f)) : i + 1 \in 1..Len(f) /\ Tail(f)[i] = f[i + 1]
  BY <1>2, <1>3, SMTT(30)
<1>5. /\ s \in Recv /\ s.chunks = recv.chunks /\ s.writePromise = recv.writePromise
      /\ s.finishes = Tail(f) /\ s.receivedBytes = recv.receivedBytes
      /\ s.blobs = recv.blobs
  BY <1>2, <1>4 DEF Recv
<1> HIDE DEF s
<1>6. Covers(s, pos, n)
  BY <1>2, <1>5 DEF Covers
<1>7. stream = "ready"
  <2>1. stream # "ready" => f[1] # 0
    BY <1>4 DEF Inv, Finishing
  <2>2. stream # "ready" => written = 0
    BY DEF Inv, Types, Opening, Failed
  <2> QED BY <1>3, <1>4, <2>1, <2>2
<1>8. Gathered'
  <2>1. ~early => \A i \in 1..Len(f) : pos[f[i]] = Len(ChunkSize)
    BY <1>1, <1>7 DEF HoldsAt
  <2> HIDE DEF f
  <2>2. ~early => \A i \in 1..Len(Tail(f)) : pos[Tail(f)[i]] = Len(ChunkSize)
    BY <1>4, <2>1
  <2>3. HoldsAt(pos, n)'
    BY <1>1, <1>3, <1>5, <1>6, <1>7, <2>2 DEF HoldsAt
  <2>4. (\E p, q : HoldsAt(p, q))'
    BY <2>3
  <2> QED BY <2>4 DEF Gathered
<1>9. Types'
  <2>1. file' \in {"none", "open", "closing", "closed", "broken", "aborted"}
    BY <1>2, <1>3 DEF Types
  <2> QED BY <1>2, <1>3, <1>5, <2>1 DEF Types
<1>10. Finishing'
  <2>1. \A i \in 1..Len(f) : f[i] <= Len(recv.writePromise)
    BY DEF Inv, Finishing, Awaits
  <2> HIDE DEF f
  <2>2. \A i \in 1..Len(Tail(f)) : Tail(f)[i] <= Len(recv.writePromise)
    BY <1>4, <2>1
  <2>3. Awaits(s)
    BY <1>5, <2>2 DEF Awaits
  <2> QED BY <1>3, <1>7, <2>3 DEF Finishing
<1>11. Dropped'
  BY <1>3, <1>5 DEF Inv, Dropped
<1>12. Opening' /\ Failed'
  BY <1>3, <1>7 DEF Opening, Failed
<1>13. ~early => disk = Whole
  <2> SUFFICES ASSUME ~early PROVE disk = Whole
    OBVIOUS
  <2>1. pos[f[1]] = Len(ChunkSize)
    BY <1>1, <1>4, <1>7 DEF HoldsAt
  <2>2. written \in 0..Len(recv.writePromise)
    BY <1>2 DEF Types
  <2>3. f[1] \in 0..Len(recv.writePromise) /\ f[1] <= written
    BY <1>2, <1>3, <1>4, <2>2
  <2>4. pos[f[1]] <= pos[written] /\ pos[written] \in 0..Len(ChunkSize)
    BY <1>2, <2>2, <2>3 DEF Covers
  <2>5. pos[written] = Len(ChunkSize)
    BY <2>1, <2>4, Sizes
  <2> QED BY <1>1, <2>5, WholeIsRun DEF HoldsAt
<1>14. Ready'
  <2>1. completed' = IF file' = "closed" THEN 1 ELSE 0
    BY <1>3, <1>7 DEF Inv, Ready
  <2>2. file' # "none"
    BY <1>3, <1>7 DEF Inv, Ready
  <2> QED BY <1>3, <1>5, <1>7, <1>13, <2>1, <2>2 DEF Inv, Ready
<1> QED BY <1>8, <1>9, <1>10, <1>11, <1>12, <1>14 DEF Inv

(* The await of close() ends, one way or the other.                        *)
LEMMA CloseStep ==
    ASSUME Inv, CloseDone \/ CloseFails
    PROVE  Inv'
<1>1. PICK pos, n : HoldsAt(pos, n)
  BY DEF Inv, Gathered
<1>2. /\ file = "closing"
      /\ \/ file' = "closed" /\ completed' = completed + 1
         \/ file' = "broken" /\ completed' = completed
      /\ UNCHANGED <<arrived, stream, recv, disk, written, cancelled, aborting, early>>
  BY DEF CloseDone, CloseFails
<1>3. stream = "ready" /\ completed = 0
  BY <1>2 DEF Inv, Types, Opening, Failed, Ready
<1>4. HoldsAt(pos, n)'
  BY <1>1, <1>2 DEF HoldsAt
<1>5. (\E p, q : HoldsAt(p, q))'
  BY <1>4
<1>6. Gathered'
  BY <1>5 DEF Gathered
<1>7. Types' /\ Finishing' /\ Dropped'
  BY <1>2 DEF Inv, Types, Finishing, Awaits, Dropped
<1>8. Opening' /\ Failed'
  BY <1>2, <1>3 DEF Opening, Failed
<1>9. Ready'
  BY <1>2, <1>3 DEF Inv, Ready
<1> QED BY <1>6, <1>7, <1>8, <1>9 DEF Inv

LEMMA CancelStep ==
    ASSUME Inv, Cancel
    PROVE  Inv'
<1>1. PICK pos, n : HoldsAt(pos, n)
  BY DEF Inv, Gathered
<1> DEFINE s == [recv EXCEPT !.chunks = <<>>]
           k == pos[Len(recv.writePromise)]
<1>2. /\ cancelled' = TRUE /\ recv' = s /\ aborting' = (stream = "ready")
      /\ UNCHANGED <<arrived, stream, disk, written, file, completed, early>>
  BY DEF Cancel
<1>3. Covers(recv, pos, n)
  BY <1>1 DEF HoldsAt
<1>4. /\ Covers(s, pos, k) /\ s.chunks = <<>> /\ s.finishes = recv.finishes
      /\ s.writePromise = recv.writePromise /\ s.receivedBytes = recv.receivedBytes
      /\ s.blobs = recv.blobs /\ s.rejected = recv.rejected
  BY <1>3, EmptiedCovers
<1> HIDE DEF s
<1>5. Gathered'
  <2>1. PICK m : m = k
    OBVIOUS
  <2>2. HoldsAt(pos, m)'
    BY <1>1, <1>2, <1>4, <2>1 DEF HoldsAt
  <2>3. (\E p, q : HoldsAt(p, q))'
    BY <2>2
  <2> QED BY <2>3 DEF Gathered
<1>6. Types'
  BY <1>2, <1>4 DEF Inv, Types
<1>7. Finishing' /\ Dropped'
  BY <1>2, <1>4 DEF Inv, Finishing, Awaits, Dropped
<1>8. Opening'
  BY <1>2, <1>4 DEF Inv, Opening
<1>9. Failed'
  BY <1>2, <1>4 DEF Inv, Failed
<1>10. Ready'
  <2>1. Bytes(s.chunks) < WRITE_BUFFER_SIZE
    BY <1>4, NoBytes, Sizes
  <2> QED BY <1>2, <1>4, <2>1 DEF Inv, Ready
<1> QED BY <1>5, <1>6, <1>7, <1>8, <1>9, <1>10 DEF Inv

LEMMA AbortStep ==
    ASSUME Inv, Abort
    PROVE  Inv'
<1>1. PICK pos, n : HoldsAt(pos, n)
  BY DEF Inv, Gathered
<1>2. /\ aborting /\ aborting' = FALSE
      /\ file' = IF file = "open" THEN "aborted" ELSE file
      /\ UNCHANGED <<arrived, stream, recv, disk, written, completed, cancelled, early>>
  BY DEF Abort
<1>3. stream = "ready"
  BY <1>2 DEF Inv, Types, Opening, Failed
<1>4. HoldsAt(pos, n)'
  BY <1>1, <1>2 DEF HoldsAt
<1>5. (\E p, q : HoldsAt(p, q))'
  BY <1>4
<1>6. Gathered'
  BY <1>5 DEF Gathered
<1>7. Types' /\ Finishing' /\ Dropped'
  BY <1>2 DEF Inv, Types, Finishing, Awaits, Dropped
<1>8. Opening' /\ Failed'
  BY <1>2, <1>3 DEF Opening, Failed
<1>9. Ready'
  BY <1>2, <1>3 DEF Inv, Ready
<1> QED BY <1>6, <1>7, <1>8, <1>9 DEF Inv

LEMMA StutterStep ==
    ASSUME Inv, UNCHANGED vars
    PROVE  Inv'
<1>1. PICK pos, n : HoldsAt(pos, n)
  BY DEF Inv, Gathered
<1>2. HoldsAt(pos, n)'
  BY <1>1 DEF HoldsAt, vars
<1>3. (\E p, q : HoldsAt(p, q))'
  BY <1>2
<1>4. Gathered'
  BY <1>3 DEF Gathered
<1>5. Types' /\ Finishing' /\ Dropped' /\ Opening' /\ Failed' /\ Ready'
  BY DEF Inv, vars, Types, Finishing, Awaits, Dropped, Opening, Failed, Ready
<1> QED BY <1>4, <1>5 DEF Inv

(* Every step preserves the invariant.                                     *)
LEMMA InvIsInvariant == Spec => []Inv
<1>1. Inv /\ [Next]_vars => Inv'
  <2> SUFFICES ASSUME Inv, [Next]_vars PROVE Inv'
    OBVIOUS
  <2>1. CASE OnBinaryMessage
    BY <2>1, ArrivesOpening, ArrivesReady, ArrivesFailed DEF Inv, Types
  <2>2. CASE StreamReady
    BY <2>2, OpensStep
  <2>3. CASE StreamFails
    BY <2>3, FailsStep
  <2>4. CASE WriteDone
    BY <2>4, WriteDoneStep
  <2>5. CASE WriteFails
    BY <2>5, WriteFailsStep
  <2>6. CASE FinishCloses
    BY <2>6, FinishClosesStep
  <2>7. CASE Cancel
    BY <2>7, CancelStep
  <2>8. CASE Abort
    BY <2>8, AbortStep
  <2>9. CASE CloseDone \/ CloseFails
    BY <2>9, CloseStep
  <2>10. CASE UNCHANGED vars
    BY <2>10, StutterStep
  <2> QED
    BY <2>1, <2>2, <2>3, <2>4, <2>5, <2>6, <2>7, <2>8, <2>9, <2>10 DEF Next
<1> QED BY <1>1, InitInv, PTL DEF Spec

-----------------------------------------------------------------------------
(* Types: what is counted, gathered, chained and written is of its type,   *)
(* and no byte is counted more than twice.                                 *)
THEOREM TypeCorrect == Spec => []TypeOK
<1>1. Inv => TypeOK
  <2> SUFFICES ASSUME Inv PROVE TypeOK
    OBVIOUS
  <2>1. Types /\ Awaits(recv)
    BY DEF Inv, Finishing
  <2>2. recv \in Recv /\ Len(recv.writePromise) \in Nat
    BY CoversFacts DEF Inv, Gathered, HoldsAt
  <2>3. recv.receivedBytes \in 0..(2 * FileSize)
    <3>1. /\ Upto[arrived] \in Nat /\ Upto[arrived] <= FileSize /\ FileSize \in Nat
          /\ recv.receivedBytes \in Nat
      BY <2>1, <2>2, UptoGrows DEF Types, Recv
    <3>2. recv.receivedBytes <= Upto[arrived] + FileSize
      BY <3>1 DEF Inv, Types, Opening, Failed, Ready
    <3> QED BY <3>1, <3>2
  <2>4. recv.finishes \in Seq(0..Len(recv.writePromise))
    <3> DEFINE f == recv.finishes
               k == Len(recv.writePromise)
    <3>1. f \in Seq(Nat) /\ k \in Nat /\ \A i \in 1..Len(f) : f[i] <= k
      BY <2>1, <2>2 DEF Awaits, Recv
    <3> HIDE DEF f, k
    <3>2. \A i \in 1..Len(f) : f[i] \in 0..k
      BY <3>1
    <3>3. f \in Seq(0..k)
      BY <3>1, <3>2
    <3> QED BY <3>3 DEF f, k
  <2> QED BY <2>1, <2>2, <2>3, <2>4 DEF TypeOK, Types, Recv
<1> QED BY <1>1, InvIsInvariant, PTL

(* However chunks, the opening of the stream, writes, failures and cancels *)
(* interleave, the disk holds a beginning of the file.                     *)
THEOREM PrefixOnDisk == Spec => []DiskIsPrefix
<1>1. Inv => DiskIsPrefix
  <2> SUFFICES ASSUME Inv PROVE DiskIsPrefix
    OBVIOUS
  <2>1. PICK pos, n : HoldsAt(pos, n)
    BY DEF Inv, Gathered
  <2> DEFINE k == pos[written]
  <2>2. k \in 0..Len(ChunkSize) /\ disk = Run(0, k)
    <3>1. written \in 0..Len(recv.writePromise)
      BY DEF Inv, Types
    <3>2. pos \in [0..Len(recv.writePromise) -> 0..Len(ChunkSize)]
      BY <2>1, CoversFacts DEF HoldsAt
    <3> QED BY <2>1, <3>1, <3>2 DEF HoldsAt
  <2> HIDE DEF k
  <2>3. 0 \in 0..Len(ChunkSize) /\ 0 <= k /\ k - 0 = k /\ k \in Nat
    BY <2>2, Sizes
  <2>4. Len(disk) = k
    BY <2>2, <2>3, RunFacts
  <2>5. Run(0, k) = FirstChunks(k)
    BY <2>3 DEF Run, FirstChunks
  <2> QED BY <2>2, <2>4, <2>5 DEF DiskIsPrefix
<1> QED BY <1>1, InvIsInvariant, PTL

(* onComplete is called once at the most, and then the whole file is in    *)
(* memory, or on the disk and its stream closed, unless chunks came before *)
(* the stream was ready.                                                   *)
THEOREM WholeWhenComplete == Spec => []CompleteIsWhole
<1>1. Inv => CompleteIsWhole
  BY DEF Inv, Types, Opening, Failed, Ready, CompleteIsWhole
<1> QED BY <1>1, InvIsInvariant, PTL

(* What has gathered behind a ready stream is less than one write.         *)
THEOREM SmallBuffer == Spec => []BufferStaysSmall
<1>1. Inv => BufferStaysSmall
  BY DEF Inv, Ready, BufferStaysSmall
<1> QED BY <1>1, InvIsInvariant, PTL
=============================================================================
