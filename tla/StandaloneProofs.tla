-------------------------- MODULE StandaloneProofs --------------------------
(***************************************************************************)
(* Proofs about StandaloneTool, for any batteries, targets, commands and   *)
(* answers, any limits, and any way the bytes are split, lost or late.     *)
(***************************************************************************)
EXTENDS StandaloneTool, FiniteSetTheorems, SequenceTheorems, TLAPS

-----------------------------------------------------------------------------
Weights == {1, 2, 4, 8, 16, 32, 64, 128}

SetIn(bytes, weight) == {i \in DOMAIN bytes : Bit(bytes[i], weight) = 1}

LEMMA OddIsBit ==
    \A bytes \in Seq(Byte), w \in Weights :
        /\ IsFiniteSet(SetIn(bytes, w)) /\ Cardinality(SetIn(bytes, w)) \in Nat
        /\ Odd(bytes, w) = Cardinality(SetIn(bytes, w)) % 2
        /\ Odd(bytes, w) \in {0, 1}
<1> SUFFICES ASSUME NEW bytes \in Seq(Byte), NEW w \in Weights
             PROVE  /\ IsFiniteSet(SetIn(bytes, w)) /\ Cardinality(SetIn(bytes, w)) \in Nat
                    /\ Odd(bytes, w) = Cardinality(SetIn(bytes, w)) % 2
                    /\ Odd(bytes, w) \in {0, 1}
    OBVIOUS
<1>1. SetIn(bytes, w) \subseteq 1..Len(bytes) /\ Len(bytes) \in Nat
  BY DEF SetIn
<1>2. IsFiniteSet(SetIn(bytes, w)) /\ Cardinality(SetIn(bytes, w)) \in Nat
  <2>1. IsFiniteSet(1..Len(bytes))
    BY <1>1, FS_Interval
  <2>. QED BY <1>1, <2>1, FS_Subset, FS_CardinalityType
<1>3. Odd(bytes, w) = Cardinality(SetIn(bytes, w)) % 2
  BY Zenon DEF Odd, SetIn
<1>4. \A n \in Nat : n % 2 \in {0, 1}
  OBVIOUS
<1>. QED BY <1>2, <1>3, <1>4

LEMMA ChecksumIsByte == \A bytes \in Seq(Byte) : Checksum(bytes) \in Byte
<1> SUFFICES ASSUME NEW bytes \in Seq(Byte) PROVE Checksum(bytes) \in Byte
    OBVIOUS
<1>1. \A w \in Weights : Odd(bytes, w) \in {0, 1}
  BY OddIsBit
<1>2. /\ Odd(bytes, 1) \in {0, 1} /\ Odd(bytes, 2) \in {0, 1} /\ Odd(bytes, 4) \in {0, 1}
      /\ Odd(bytes, 8) \in {0, 1} /\ Odd(bytes, 16) \in {0, 1} /\ Odd(bytes, 32) \in {0, 1}
      /\ Odd(bytes, 64) \in {0, 1} /\ Odd(bytes, 128) \in {0, 1}
  BY <1>1 DEF Weights
<1>3. PICK a \in 0..1, b \in 0..1, c \in 0..1, d \in 0..1 :
         a = Odd(bytes, 1) /\ b = Odd(bytes, 2) /\ c = Odd(bytes, 4) /\ d = Odd(bytes, 8)
  BY <1>2
<1>4. PICK e \in 0..1, f \in 0..1, g \in 0..1, h \in 0..1 :
         e = Odd(bytes, 16) /\ f = Odd(bytes, 32) /\ g = Odd(bytes, 64) /\ h = Odd(bytes, 128)
  BY <1>2
<1>5. a + 2 * b + 4 * c + 8 * d + 16 * e + 32 * f + 64 * g + 128 * h \in 0..255
  OBVIOUS
<1>6. Checksum(bytes) = a + 2 * b + 4 * c + 8 * d + 16 * e + 32 * f + 64 * g + 128 * h
  BY <1>3, <1>4, Zenon DEF Checksum
<1>. QED BY <1>5, <1>6 DEF Byte

LEMMA ChecksumBit == \A bytes \in Seq(Byte), w \in Weights : Bit(Checksum(bytes), w) = Odd(bytes, w)
<1> SUFFICES ASSUME NEW bytes \in Seq(Byte)
             PROVE  \A w \in Weights : Bit(Checksum(bytes), w) = Odd(bytes, w)
    OBVIOUS
<1>1. \A w \in Weights : Odd(bytes, w) \in {0, 1}
  BY OddIsBit
<1> HIDE DEF Weights
<1>2. /\ Odd(bytes, 1) \in {0, 1} /\ Odd(bytes, 2) \in {0, 1} /\ Odd(bytes, 4) \in {0, 1}
      /\ Odd(bytes, 8) \in {0, 1} /\ Odd(bytes, 16) \in {0, 1} /\ Odd(bytes, 32) \in {0, 1}
      /\ Odd(bytes, 64) \in {0, 1} /\ Odd(bytes, 128) \in {0, 1}
  BY <1>1 DEF Weights
<1>3. /\ Bit(Checksum(bytes), 1) = Odd(bytes, 1) /\ Bit(Checksum(bytes), 2) = Odd(bytes, 2)
      /\ Bit(Checksum(bytes), 4) = Odd(bytes, 4) /\ Bit(Checksum(bytes), 8) = Odd(bytes, 8)
      /\ Bit(Checksum(bytes), 16) = Odd(bytes, 16) /\ Bit(Checksum(bytes), 32) = Odd(bytes, 32)
      /\ Bit(Checksum(bytes), 64) = Odd(bytes, 64) /\ Bit(Checksum(bytes), 128) = Odd(bytes, 128)
  <2>1. PICK a \in {0, 1}, b \in {0, 1}, c \in {0, 1}, d \in {0, 1} :
           a = Odd(bytes, 1) /\ b = Odd(bytes, 2) /\ c = Odd(bytes, 4) /\ d = Odd(bytes, 8)
    BY <1>2
  <2>2. PICK e \in {0, 1}, f \in {0, 1}, g \in {0, 1}, h \in {0, 1} :
           /\ e = Odd(bytes, 16) /\ f = Odd(bytes, 32)
           /\ g = Odd(bytes, 64) /\ h = Odd(bytes, 128)
    BY <1>2
  <2>3. Checksum(bytes) = a + 2 * b + 4 * c + 8 * d + 16 * e + 32 * f + 64 * g + 128 * h
    BY <2>1, <2>2, Zenon DEF Checksum
  <2>4. PICK x : x = a + 2 * b + 4 * c + 8 * d + 16 * e + 32 * f + 64 * g + 128 * h
    OBVIOUS
  <2>5. /\ Bit(x, 1) = a /\ Bit(x, 2) = b /\ Bit(x, 4) = c /\ Bit(x, 8) = d
        /\ Bit(x, 16) = e /\ Bit(x, 32) = f /\ Bit(x, 64) = g /\ Bit(x, 128) = h
    BY <2>4, SMTT(60) DEF Bit
  <2>6. Checksum(bytes) = x
    BY <2>3, <2>4
  <2>. QED BY <2>1, <2>2, <2>5, <2>6, Zenon
<1>. QED BY <1>3 DEF Weights

LEMMA SealedSumsToZero ==
    ASSUME NEW bytes \in Seq(Byte) PROVE Checksum(Sealed(bytes)) = 0
<1> DEFINE frame == Sealed(bytes)
           sum == Checksum(bytes)
<1>1. frame \in Seq(Byte) /\ Len(frame) = Len(bytes) + 1 /\ frame[Len(frame)] = sum
      /\ \A i \in 1..Len(bytes) : frame[i] = bytes[i]
  BY ChecksumIsByte DEF Sealed
<1>2. ASSUME NEW w \in Weights PROVE Odd(frame, w) = 0
  <2>1. CASE Odd(bytes, w) = 0
    <3>1. SetIn(frame, w) = SetIn(bytes, w)
      BY <1>1, <2>1, ChecksumBit DEF SetIn
    <3>. QED BY <1>1, <2>1, <3>1, OddIsBit
  <2>2. CASE Odd(bytes, w) = 1
    <3>1. SetIn(frame, w) = SetIn(bytes, w) \cup {Len(frame)} /\ Len(frame) \notin SetIn(bytes, w)
      BY <1>1, <2>2, ChecksumBit DEF SetIn
    <3>2. Cardinality(SetIn(frame, w)) = Cardinality(SetIn(bytes, w)) + 1
      BY <3>1, OddIsBit, FS_AddElement
    <3>. QED BY <1>1, <2>2, <3>2, OddIsBit
  <2>. QED BY <2>1, <2>2, OddIsBit
<1>. QED BY <1>2 DEF Checksum, Weights

Below == {ss \in Nat \X Nat : ss[1] < ss[2]}

LEMMA BelowWellFounded == IsWellFoundedOn(Below, Nat)
BY NatLessThanWellFounded, Zenon DEF OpToRel, Below

LEMMA Least == \A T \in SUBSET Nat : T # {} => \E n \in T : \A m \in T : n <= m
<1> SUFFICES ASSUME NEW T \in SUBSET Nat, T # {} PROVE \E n \in T : \A m \in T : n <= m
    OBVIOUS
<1>2. PICK n \in T : \A m \in T : ~(<<m, n>> \in Below)
  BY BelowWellFounded, WFMin
<1>3. ASSUME NEW m \in T PROVE n <= m
  <2>1. m \in Nat /\ n \in Nat
    OBVIOUS
  <2>2. ~(<<m, n>> \in Below)
    BY <1>2
  <2>3. ~(m < n)
    BY <2>1, <2>2 DEF Below
  <2>. QED BY <2>1, <2>3
<1>. QED BY <1>3

(* What a pass of the loop leaves, and the loop's body with f for what follows. *)
Rests(b) == IF FrameAt(b, 1) THEN From(b, b[2] + 1) ELSE Skipped(b)

Pass(f, b) ==
    IF Stalled(b) THEN <<<<>>, b>>
    ELSE IF FrameAt(b, 1)
         THEN <<<<SubSeq(b, 1, b[2])>> \o f[From(b, b[2] + 1)][1], f[From(b, b[2] + 1)][2]>>
         ELSE f[Skipped(b)]

Short(n) == {b \in Seq(Byte) : Len(b) < n}

IsCut(f, n) == f = [b \in Short(n) |-> Pass(f, b)]

LEMMA ByteIsNat == \A x \in Byte : x \in Nat
BY DEF Byte

LEMMA FromShrinks ==
    ASSUME NEW b \in Seq(Byte), NEW i \in 2..(Len(b) + 1)
    PROVE  From(b, i) \in Seq(Byte) /\ Len(From(b, i)) < Len(b)
BY DEF From

LEMMA LeastIn ==
    ASSUME NEW T \in SUBSET Nat, T # {} PROVE Min(T) \in T
<1>1. PICK n \in T : \A m \in T : n <= m
  BY Least
<1>2. \A m \in T : n <= m /\ ~(m < n)
  BY <1>1
<1>. QED BY <1>1, <1>2 DEF Min

LEMMA PassShrinks ==
    ASSUME NEW b \in Seq(Byte), ~Stalled(b)
    PROVE  Rests(b) \in Seq(Byte) /\ Len(Rests(b)) < Len(b)
<1>1. Len(b) >= 2 /\ b[1] \in Byte /\ b[2] \in Byte
  BY DEF Stalled
<1>2. CASE FrameAt(b, 1)
  <2>1. b[1 + 1] >= 5 /\ Len(b) - 1 + 1 >= b[1 + 1]
    BY <1>2, Zenon DEF FrameAt, Shortest
  <2>2. Len(b) \in Nat /\ b[2] \in Nat
    BY <1>1, ByteIsNat
  <2>4. 1 + 1 = 2
    OBVIOUS
  <2>3. b[2] + 1 \in 2..(Len(b) + 1)
    BY <2>1, <2>2, <2>4
  <2>. QED BY <1>2, <2>3, FromShrinks DEF Rests
<1>3. Tail(b) \in Seq(Byte) /\ Len(Tail(b)) < Len(b)
  BY <1>1
<1>4. CASE ~FrameAt(b, 1) /\ b[1] # StartByte
  <2>1. CASE StartsIn(b) = {}
    BY <1>1, <1>4, <2>1 DEF Rests, Skipped
  <2>2. CASE StartsIn(b) # {}
    <3>1. StartsIn(b) \in SUBSET Nat /\ StartsIn(b) \subseteq 2..(Len(b) + 1)
      BY <1>1, <1>4 DEF StartsIn
    <3>2. Min(StartsIn(b)) \in 2..(Len(b) + 1)
      BY <2>2, <3>1, LeastIn
    <3>. QED BY <1>4, <2>2, <3>2, FromShrinks DEF Rests, Skipped
  <2>. QED BY <2>1, <2>2
<1>5. CASE ~FrameAt(b, 1) /\ b[1] = StartByte
  <2>1. CASE b[2] < Shortest \/ LaterFrames(b) = {}
    BY <1>3, <1>5, <2>1 DEF Rests, Skipped
  <2>2. CASE ~(b[2] < Shortest) /\ LaterFrames(b) # {}
    <3>1. LaterFrames(b) \in SUBSET Nat /\ LaterFrames(b) \subseteq 2..(Len(b) + 1)
      BY <1>1 DEF LaterFrames
    <3>2. Min(LaterFrames(b)) \in 2..(Len(b) + 1)
      BY <2>2, <3>1, LeastIn
    <3>. QED BY <1>5, <2>2, <3>2, FromShrinks DEF Rests, Skipped
  <2>. QED BY <2>1, <2>2
<1>. QED BY <1>2, <1>4, <1>5

LEMMA PassUsesRest ==
    ASSUME NEW b \in Seq(Byte), NEW f, NEW g, ~Stalled(b) => f[Rests(b)] = g[Rests(b)]
    PROVE  Pass(f, b) = Pass(g, b)
BY DEF Pass, Rests

LEMMA CutUnique ==
    ASSUME NEW m \in Nat, NEW n \in Nat, NEW f, NEW g, IsCut(f, m), IsCut(g, n)
    PROVE  \A b \in Short(m) \cap Short(n) : f[b] = g[b]
<1> DEFINE Apart == {b \in Short(m) \cap Short(n) : f[b] # g[b]}
           T == {Len(b) : b \in Apart}
<1> SUFFICES ASSUME Apart # {} PROVE FALSE
    OBVIOUS
<1>1. T \in SUBSET Nat /\ T # {}
  BY DEF Short
<1>2. PICK k \in T : \A j \in T : k <= j
  BY <1>1, Least
<1>3. PICK b \in Apart : Len(b) = k
  OBVIOUS
<1>4. f[b] = Pass(f, b) /\ g[b] = Pass(g, b)
  BY DEF IsCut
<1>5. b \in Seq(Byte) /\ Len(b) < m /\ Len(b) < n
  BY DEF Short
<1>6. ASSUME ~Stalled(b) PROVE f[Rests(b)] = g[Rests(b)]
  <2>1. Rests(b) \in Short(m) \cap Short(n) /\ Len(Rests(b)) < Len(b) /\ Len(Rests(b)) \in Nat
    BY <1>5, <1>6, PassShrinks DEF Short
  <2>2. Rests(b) \in Apart => Len(Rests(b)) \in T
    OBVIOUS
  <2>. QED BY <1>2, <1>3, <1>5, <2>1, <2>2
<1>. QED BY <1>3, <1>4, <1>5, <1>6, PassUsesRest

LEMMA CutsExist == \A n \in Nat : \E f : IsCut(f, n)
<1> DEFINE T == {n \in Nat : ~\E f : IsCut(f, n)}
<1> SUFFICES ASSUME T # {} PROVE FALSE
    OBVIOUS
<1>1. PICK n \in T : \A m \in T : n <= m
  BY Least
<1>2. n # 0
  <2>1. IsCut([b \in Short(0) |-> Pass(<<>>, b)], 0)
    <3>1. Short(0) = {}
      BY DEF Short
    <3>. QED BY <3>1 DEF IsCut
  <2>. QED BY <2>1
<1>3. n - 1 \in Nat /\ n - 1 \notin T
  BY <1>1, <1>2
<1>4. PICK f : IsCut(f, n - 1)
  BY <1>3
<1> DEFINE g == [b \in Short(n) |-> Pass(f, b)]
<1>5. ASSUME NEW b \in Short(n) PROVE Pass(f, b) = Pass(g, b)
  <2>1. b \in Seq(Byte) /\ Len(b) < n
    BY DEF Short
  <2>2. ASSUME ~Stalled(b) PROVE f[Rests(b)] = g[Rests(b)]
    <3>1. Rests(b) \in Short(n - 1) /\ Rests(b) \in Short(n)
      BY <1>3, <2>1, <2>2, PassShrinks DEF Short
    <3>2. f[Rests(b)] = Pass(f, Rests(b))
      BY <1>4, <3>1 DEF IsCut
    <3>. QED BY <3>1, <3>2
  <2> HIDE DEF g
  <2>. QED BY <2>1, <2>2, PassUsesRest
<1>6. IsCut(g, n)
  BY <1>5, Zenon DEF IsCut
<1>. QED BY <1>6

(* The loop ends, so that the equation that defines Cut has a solution. *)
LEMMA CutIsDefined == \A b \in Seq(Byte) : Cut[b] = Pass(Cut, b)
<1> DEFINE ForLength(n) == CHOOSE f : IsCut(f, n)
           F == [b \in Seq(Byte) |-> ForLength(Len(b) + 1)[b]]
<1>1. \A n \in Nat : IsCut(ForLength(n), n)
  BY CutsExist, Zenon
<1>2. ASSUME NEW b \in Seq(Byte) PROVE F[b] = Pass(F, b)
  <2> DEFINE f == ForLength(Len(b) + 1)
  <2>1. IsCut(f, Len(b) + 1) /\ b \in Short(Len(b) + 1)
    BY <1>1 DEF Short
  <2>2. F[b] = Pass(f, b)
    BY <2>1 DEF IsCut
  <2>3. ASSUME ~Stalled(b) PROVE f[Rests(b)] = F[Rests(b)]
    <3> DEFINE r == Rests(b)
               g == ForLength(Len(r) + 1)
    <3>1. r \in Seq(Byte) /\ Len(r) < Len(b)
      BY <2>3, PassShrinks
    <3>2. r \in Short(Len(b) + 1) \cap Short(Len(r) + 1)
      BY <3>1 DEF Short
    <3>3. IsCut(g, Len(r) + 1)
      BY <1>1, <3>1
    <3>4. F[r] = g[r]
      BY <3>1
    <3>5. f[r] = g[r]
      <4> HIDE DEF f, g, r
      <4>. QED BY <2>1, <3>1, <3>2, <3>3, CutUnique
    <3>. QED BY <3>4, <3>5
  <2> HIDE DEF f, F
  <2>. QED BY <2>2, <2>3, PassUsesRest
<1>3. F = [b \in Seq(Byte) |-> Pass(F, b)]
  BY <1>2, Zenon
<1> HIDE DEF F
<1>4. Cut = CHOOSE f : f = [b \in Seq(Byte) |-> Pass(f, b)]
  BY Zenon DEF Cut, Pass
<1>5. Cut = [b \in Seq(Byte) |-> Pass(Cut, b)]
  BY <1>3, <1>4, Zenon
<1>. QED BY <1>5, Zenon

LEMMA CutOfStalled == \A b \in Seq(Byte) : Stalled(b) => Cut[b] = <<<<>>, b>>
BY CutIsDefined, Zenon DEF Pass

LEMMA CutOfFrame ==
    \A b \in Seq(Byte) : ~Stalled(b) /\ FrameAt(b, 1) =>
        Cut[b] = <<<<SubSeq(b, 1, b[2])>> \o Cut[From(b, b[2] + 1)][1], Cut[From(b, b[2] + 1)][2]>>
BY CutIsDefined, Zenon DEF Pass

LEMMA CutOfNoise == \A b \in Seq(Byte) : ~Stalled(b) /\ ~FrameAt(b, 1) => Cut[b] = Cut[Skipped(b)]
BY CutIsDefined, Zenon DEF Pass

(* What parse_frame accepts. *)
Frames == {f \in Seq(Byte) : FrameAt(f, 1) /\ Len(f) = f[2]}

LEMMA FirstFrame ==
    ASSUME NEW b \in Seq(Byte), FrameAt(b, 1)
    PROVE  /\ b[2] \in 5..Len(b) /\ SubSeq(b, 1, b[2]) \in Frames
           /\ Len(SubSeq(b, 1, b[2])) = b[2]
<1> DEFINE n == b[2]
           f == SubSeq(b, 1, n)
<1>1. /\ b[1 + 1] >= 5 /\ Len(b) - 1 + 1 >= b[1 + 1] /\ Len(b) - 1 + 1 >= 5
      /\ Checksum(SubSeq(b, 1, 1 + b[1 + 1] - 1)) = 0
      /\ b[1] = StartByte /\ b[1 + 2] = IdentifierByte
  BY Zenon DEF FrameAt, Shortest
<1>2. 1 + 1 = 2 /\ 1 + 2 = 3 /\ Len(b) \in Nat
  OBVIOUS
<1>3. n \in Nat
  BY <1>1, <1>2, ByteIsNat
<1>4. n >= 5 /\ n <= Len(b) /\ 1 + n - 1 = n
  BY <1>1, <1>2, <1>3
<1>5. f \in Seq(Byte) /\ Len(f) = n /\ \A i \in 1..n : f[i] = b[i]
  BY <1>2, <1>3, <1>4
<1>6. f[1] = StartByte /\ f[2] = n /\ f[3] = IdentifierByte /\ Checksum(f) = 0
  BY <1>1, <1>2, <1>3, <1>4, <1>5
<1> HIDE DEF f, n
<1>7. SubSeq(f, 1, n) = f
  BY <1>3, <1>5
<1>8. FrameAt(f, 1)
  <2>1. Len(f) - 1 + 1 >= Shortest /\ Len(f) - 1 + 1 >= n /\ n >= Shortest
    BY <1>3, <1>4, <1>5 DEF Shortest
  <2>. QED BY <1>2, <1>4, <1>6, <1>7, <2>1, Zenon DEF FrameAt
<1>9. f \in Frames
  BY <1>5, <1>6, <1>8 DEF Frames
<1>. QED BY <1>2, <1>3, <1>4, <1>5, <1>9 DEF f, n

(* However the bytes are split and whatever they are, feed cuts out nothing but frames that     *)
(* parse_frame accepts, and keeps only bytes with which it can do nothing yet.                  *)
THEOREM FeedCutsFrames ==
    \A b, chunk \in Seq(Byte) :
        /\ Feed(b, chunk)[1] \in Seq(Frames)
        /\ Feed(b, chunk)[2] \in Seq(Byte) /\ Stalled(Feed(b, chunk)[2])
<1> DEFINE Good(b) == Cut[b][1] \in Seq(Frames) /\ Cut[b][2] \in Seq(Byte) /\ Stalled(Cut[b][2])
           Bad == {b \in Seq(Byte) : ~Good(b)}
           T == {Len(b) : b \in Bad}
<1>1. Bad = {}
  <2> SUFFICES ASSUME Bad # {} PROVE FALSE
      OBVIOUS
  <2>1. T \in SUBSET Nat /\ T # {}
    OBVIOUS
  <2>2. PICK k \in T : \A j \in T : k <= j
    BY <2>1, Least
  <2>3. PICK b \in Bad : Len(b) = k
    OBVIOUS
  <2>4. ASSUME NEW r \in Seq(Byte), Len(r) < Len(b) PROVE Good(r)
    <3>1. r \in Bad => Len(r) \in T
      OBVIOUS
    <3>2. Len(r) \in Nat /\ Len(b) \in Nat
      OBVIOUS
    <3>3. r \notin Bad
      BY <2>2, <2>3, <2>4, <3>1, <3>2
    <3> HIDE DEF Good
    <3>. QED BY <3>3
  <2>5. b \in Seq(Byte)
    OBVIOUS
  <2>6. Good(b)
    <3>1. CASE Stalled(b)
      <4>1. Cut[b] = <<<<>>, b>> /\ <<>> \in Seq(Frames)
        BY <2>5, <3>1, CutOfStalled
      <4>. QED BY <2>5, <3>1, <4>1
    <3>2. CASE ~Stalled(b) /\ FrameAt(b, 1)
      <4> DEFINE f == SubSeq(b, 1, b[2])
                 rest == From(b, b[2] + 1)
      <4>1. f \in Frames
        BY <2>5, <3>2, FirstFrame
      <4>2. rest \in Seq(Byte) /\ Len(rest) < Len(b)
        BY <2>5, <3>2, PassShrinks DEF Rests
      <4>3. Good(rest)
        BY <2>4, <4>2
      <4>4. Cut[b] = <<<<f>> \o Cut[rest][1], Cut[rest][2]>>
        BY <2>5, <3>2, CutOfFrame
      <4> HIDE DEF f, rest
      <4>5. <<f>> \o Cut[rest][1] \in Seq(Frames)
        BY <4>1, <4>3
      <4>. QED BY <4>3, <4>4, <4>5
    <3>3. CASE ~Stalled(b) /\ ~FrameAt(b, 1)
      <4>1. Good(Skipped(b))
        BY <2>4, <2>5, <3>3, PassShrinks DEF Rests
      <4>. QED BY <2>5, <3>3, <4>1, CutOfNoise
    <3>. QED BY <3>1, <3>2, <3>3
  <2>. QED BY <2>6
<1>2. ASSUME NEW b \in Seq(Byte), NEW chunk \in Seq(Byte) PROVE Good(b \o chunk)
  <2>1. b \o chunk \in Seq(Byte)
    OBVIOUS
  <2> HIDE DEF Good
  <2>. QED BY <1>1, <2>1
<1>. QED BY <1>2 DEF Feed

-----------------------------------------------------------------------------
\* Only a session holds a link, the current battery's, apart from those that were not given up.
LEMMA ReleasedStep == LinksAreReleased /\ [Next]_vars => LinksAreReleased'
<1> SUFFICES ASSUME LinksAreReleased, [Next]_vars PROVE LinksAreReleased'
    OBVIOUS
<1> USE DEF LinksAreReleased, Session, Device, scanVars, linkVars, streamVars, sessionVars
<1>1. CASE Start
  BY <1>1 DEF Start
<1>2. CASE ScanDone
  BY <1>2 DEF ScanDone, Query
<1>3. CASE ScanEnds
  BY <1>3 DEF ScanEnds, Query
<1>4. ASSUME NEW d \in Devices, Advertises(d) PROVE LinksAreReleased'
  BY <1>4 DEF Advertises
<1>5. CASE Connect
  BY <1>5 DEF Connect
<1>6. CASE ConnectFails
  BY <1>6 DEF ConnectFails
<1>7. CASE Send
  BY <1>7 DEF Send
<1>8. CASE Fails \/ Expires \/ Succeeds
  BY <1>8 DEF Fails, Expires, Succeeds, Ends
<1>9. ASSUME NEW n \in 1..Len(wire), Deliver(n) \/ Lose(n) PROVE LinksAreReleased'
  BY <1>9 DEF Deliver, Lose
<1>10. CASE LinkLost \/ Collected
  BY <1>10 DEF LinkLost, Collected
<1>11. CASE Close
  <2>1. stage' \notin Session
    BY <1>11 DEF Close
  <2>2. held \subseteq refused \cup {Device}
    BY <1>11 DEF Close
  <2>3. held' \subseteq refused'
    BY <1>11, <2>2 DEF Close, Disconnect
  <2>. QED BY <2>1, <2>3
<1>12. CASE Finished \/ UNCHANGED vars
  BY <1>12 DEF Finished, vars
<1>. QED BY <1>1, <1>2, <1>3, <1>4, <1>5, <1>6, <1>7, <1>8, <1>9, <1>10, <1>11, <1>12 DEF Next

(* LinksAreReleased: a battery takes one connection.  Before run connects to the next battery or *)
(* ends, close has asked the proxy to give the link up, after whichever step of connect failed:  *)
(* a link that is left is one for which that disconnect failed (marstek_basic_info.py 560-567).  *)
THEOREM LinksReleased == Spec => []LinksAreReleased
<1>1. Init => LinksAreReleased
  BY DEF Init, LinksAreReleased
<1>. QED BY <1>1, ReleasedStep, PTL DEF Spec

-----------------------------------------------------------------------------
(* How commands sent over a lost link count: each of them runs into its time limit, as nothing  *)
(* else can end it, and makes one more consecutive failure. *)
Losing ==
    /\ dead \in Nat /\ failures \in Nat
    /\ stage = "wait" => failures < MaxFailures
    /\ stage = "wait" <=> future # Unset
    /\ alive => dead = 0
    /\ stage = "ready" => dead <= failures /\ failures <= MaxFailures
    /\ stage = "wait" => dead = 0 \/ (future \in {Open, Cancelled} /\ dead <= failures + 1)

GivingUp == GivesUp /\ Losing

LEMMA GivingUpStep == GivingUp /\ [Next]_vars => GivingUp'
<1> SUFFICES ASSUME GivingUp, [Next]_vars PROVE GivingUp'
    OBVIOUS
<1> USE ToolAssumption DEF GivingUp, GivesUp, Losing, scanVars, linkVars, streamVars, sessionVars,
    Unset, Open, Cancelled
<1>1. CASE Start
  BY <1>1 DEF Start
<1>2. CASE ScanDone
  BY <1>2 DEF ScanDone, Query
<1>3. CASE ScanEnds
  BY <1>3 DEF ScanEnds, Query
<1>4. ASSUME NEW d \in Devices, Advertises(d) PROVE GivingUp'
  BY <1>4 DEF Advertises
<1>5. CASE Connect
  BY <1>5 DEF Connect, Fresh
<1>6. CASE ConnectFails
  BY <1>6 DEF ConnectFails, Fresh
<1>7. CASE Send
  BY <1>7 DEF Send, More
<1>8. CASE Fails
  BY <1>8 DEF Fails, Ends, Error
<1>9. CASE Expires
  BY <1>9 DEF Expires
<1>10. CASE Succeeds
  <2>1. failures' \in {0, failures + 1} /\ dead = 0 /\ failures < MaxFailures
    BY <1>10, Zenon DEF Succeeds, Ends
  <2>. QED BY <1>10, <2>1 DEF Succeeds, Ends
<1>11. ASSUME NEW n \in 1..Len(wire), Deliver(n) PROVE GivingUp'
  <2>1. /\ alive /\ UNCHANGED <<stage, alive, failures, dead>>
        /\ future' = future \/ (future = Open /\ \E p : future' = Value(p))
    BY <1>11, Zenon DEF Deliver
  <2>. QED BY <2>1 DEF Value
<1>12. ASSUME NEW n \in 1..Len(wire), Lose(n) PROVE GivingUp'
  BY <1>12 DEF Lose
<1>13. CASE LinkLost
  BY <1>13 DEF LinkLost
<1>14. CASE Collected
  BY <1>14 DEF Collected
<1>15. CASE Close
  BY <1>15 DEF Close
<1>16. CASE Finished \/ UNCHANGED vars
  BY <1>16 DEF Finished, vars
<1>. QED BY <1>1, <1>2, <1>3, <1>4, <1>5, <1>6, <1>7, <1>8, <1>9, <1>10, <1>11, <1>12, <1>13,
            <1>14, <1>15, <1>16 DEF Next

(* GivesUp: a session sends at most MAX_CONSECUTIVE_FAILURES commands over a lost link, however *)
(* many commands there are and whatever happened before the link went. *)
THEOREM SessionGivesUp == Spec => []GivesUp
<1>1. Init => GivingUp
  BY ToolAssumption DEF Init, GivingUp, GivesUp, Losing, Unset
<1>2. GivingUp => GivesUp
  BY DEF GivingUp
<1>. QED BY <1>1, <1>2, GivingUpStep, PTL DEF Spec

-----------------------------------------------------------------------------
(* What the types rest on: the lists of batteries, and that a command is sent only while there *)
(* is one and the failures allow it. *)
Lists == found \in Seq(Devices) /\ todo \in Seq(Devices) /\ wire \in Seq(Listed \X Nat)

Pending == stage = "wait" => More

IShape == Shape /\ Lists /\ Pending

LEMMA SetOf == \A S, s : s \in Seq(S) => Range(s) \subseteq S
BY DEF Range

LEMMA Current == IShape /\ stage \in Session \cup {"connect"} => Device \in Devices
BY DEF IShape, Shape, Lists, Device

LEMMA ListedIsCommand == \A i \in 1..Len(Commands) : Commands[i] \in Listed
BY ToolAssumption DEF Listed, Range

LEMMA FromIsSeq ==
    ASSUME NEW S, NEW s \in Seq(S), NEW n \in 1..Len(s)
    PROVE  /\ From(s, n + 1) \in Seq(S) /\ Len(From(s, n + 1)) <= Len(s)
           /\ Len(From(s, n + 1)) = Len(s) - n
           /\ \A i \in 1..(Len(s) - n) : From(s, n + 1)[i] = s[i + n]
<1>1. n + 1 \in 1..(Len(s) + 1) /\ Len(s) \in Nat /\ From(s, n + 1) = SubSeq(s, n + 1, Len(s))
  BY DEF From
<1>2. From(s, n + 1) \in Seq(S) /\ Len(From(s, n + 1)) = Len(s) - n
  <2>1. n + 1 \in Nat /\ n \in Nat /\ Len(s) - (n + 1) + 1 = Len(s) - n /\ n + 1 <= Len(s) + 1
    BY <1>1
  <2>2. \A i \in (n + 1)..Len(s) : s[i] \in S
    BY <1>1, <2>1, ElementOfSeq
  <2>3. /\ SubSeq(s, n + 1, Len(s)) \in Seq(S)
        /\ Len(SubSeq(s, n + 1, Len(s))) = IF n + 1 <= Len(s) THEN Len(s) - (n + 1) + 1 ELSE 0
    BY <1>1, <2>1, <2>2, SubSeqProperties
  <2> DEFINE u == SubSeq(s, n + 1, Len(s))
  <2>4. u = From(s, n + 1) /\ u \in Seq(S)
        /\ Len(u) = IF n + 1 <= Len(s) THEN Len(s) - (n + 1) + 1 ELSE 0
    BY <1>1, <2>3
  <2> HIDE DEF u
  <2>5. ASSUME NEW L \in Nat, NEW l, n \in 1..L, l = IF n + 1 <= L THEN L - (n + 1) + 1 ELSE 0
        PROVE  l = L - n
    BY <2>5
  <2>6. Len(u) = Len(s) - n
    BY <1>1, <2>4, <2>5
  <2>. QED BY <2>4, <2>6, Zenon
<1>3. \A i \in 1..(Len(s) - n) : From(s, n + 1)[i] = s[n + 1 + i - 1] /\ n + 1 + i - 1 = i + n
  BY <1>1
<1>4. Len(From(s, n + 1)) <= Len(s)
  BY <1>1, <1>2
<1>. QED BY <1>2, <1>3, <1>4

LEMMA ShapeInit == Init => IShape
<1> SUFFICES ASSUME Init PROVE IShape
    OBVIOUS
<1>1. Lists /\ Pending
  BY DEF Init, Lists, Pending
<1>2. 1 \in 1..(Len(Commands) + 1) /\ 0 \in 0..MaxFailures /\ 0 \in 0..MaxLost
  BY ToolAssumption
<1>3. Range(found) \cup Range(todo) \subseteq Devices /\ Len(wire) <= MaxWire
  BY ToolAssumption DEF Init, Range
<1>4. future = Unset /\ stage = "start" /\ report = [d \in Devices |-> "none"]
  BY DEF Init
<1>5. Shape
  <2>1. report \in [Devices -> {"none", "data", "failed"}]
    BY <1>4
  <2>. QED BY <1>2, <1>3, <1>4, <2>1, Zenon DEF Init, Shape, Session
<1>. QED BY <1>1, <1>5 DEF IShape

LEMMA ScanShape ==
    ASSUME IShape, Start \/ ScanDone \/ ScanEnds \/ \E d \in Devices : Advertises(d)
    PROVE  IShape'
<1> USE DEF IShape, Shape, Lists, Pending, More, Session, scanVars, linkVars, streamVars,
    sessionVars
<1>1. CASE Start
  BY <1>1 DEF Start
<1>2. ASSUME NEW d \in Devices, Advertises(d) PROVE IShape'
  <2>1. found' \in Seq(Devices)
    BY <1>2 DEF Advertises
  <2>. QED BY <1>2, <2>1, SetOf DEF Advertises
<1>3. ASSUME NEW devices \in Seq(Devices), Query(devices), stage = "scan" PROVE IShape'
  BY <1>3, SetOf DEF Query
<1>4. CASE ScanDone
  BY <1>3, <1>4, ToolAssumption DEF ScanDone
<1>5. CASE ScanEnds
  <2>1. Len(found) > AutoLimit => SubSeq(found, 1, AutoLimit) \in Seq(Devices)
    BY ToolAssumption
  <2>2. <<>> \in Seq(Devices) /\ targets \in Seq(Devices)
    BY ToolAssumption
  <2>3. PICK devices : /\ Query(devices)
                       /\ \/ devices \in {found, targets, <<>>}
                          \/ devices = SubSeq(found, 1, AutoLimit) /\ Len(found) > AutoLimit
    BY <1>5, Zenon DEF ScanEnds
  <2>4. devices \in Seq(Devices)
    BY <2>1, <2>2, <2>3
  <2>. QED BY <1>3, <1>5, <2>3, <2>4 DEF ScanEnds
<1>. QED BY <1>1, <1>2, <1>4, <1>5

(* What create_command_frame makes of a command and a payload that fits: parse_frame accepts it *)
(* and returns both. *)
THEOREM BuiltFrames ==
    ASSUME NEW c \in Byte, NEW p \in Payloads
    PROVE  /\ NewFrame(c, p) \in Seq(Byte)
           /\ Len(NewFrame(c, p)) = Len(p) + Shortest
           /\ NewFrame(c, p)[1] = StartByte
           /\ NewFrame(c, p)[2] = Len(p) + Shortest
           /\ NewFrame(c, p)[3] = IdentifierByte
           /\ FrameAt(NewFrame(c, p), 1)
           /\ CommandOf(NewFrame(c, p)) = c
           /\ PayloadOf(NewFrame(c, p)) = p
<1> DEFINE head == <<StartByte, Len(p) + Shortest, IdentifierByte, c>>
           open == head \o p
           frame == Sealed(open)
<1>1. p \in Seq(Byte) /\ Len(p) \in Nat /\ Len(p) + Shortest \in Byte /\ Len(p) + 5 >= 5
  BY DEF Payloads
<1>2. head \in Seq(Byte) /\ Len(head) = 4
  BY <1>1 DEF StartByte, IdentifierByte, Byte
<1>3. /\ open \in Seq(Byte) /\ Len(open) = Len(p) + 4
      /\ open[1] = StartByte /\ open[2] = Len(p) + Shortest /\ open[3] = IdentifierByte
      /\ open[4] = c /\ \A i \in 1..Len(p) : open[i + 4] = p[i]
  BY <1>1, <1>2
<1> HIDE DEF open
<1>4. /\ frame \in Seq(Byte) /\ Len(frame) = Len(open) + 1 /\ Checksum(frame) = 0
      /\ \A i \in 1..Len(open) : frame[i] = open[i]
  BY <1>3, SealedSumsToZero, ChecksumIsByte DEF Sealed
<1> HIDE DEF frame
<1>5. NewFrame(c, p) = frame
  BY DEF NewFrame, frame, open
<1>6. Len(frame) = Len(p) + Shortest /\ frame[1] = StartByte /\ frame[2] = Len(p) + Shortest
      /\ frame[3] = IdentifierByte /\ frame[4] = c
  BY <1>1, <1>3, <1>4 DEF Shortest
<1>7. FrameAt(frame, 1)
  <2>1. SubSeq(frame, 1, Len(frame)) = frame
    BY <1>4
  <2>2. 1 + 1 = 2 /\ 1 + 2 = 3 /\ 1 + Len(frame) - 1 = Len(frame) /\ Len(frame) - 1 + 1 = Len(frame)
    BY <1>4
  <2>3. Len(frame) >= Shortest /\ Len(frame) >= Len(frame)
    BY <1>1, <1>6 DEF Shortest
  <2>. QED BY <1>4, <1>6, <2>1, <2>2, <2>3, Zenon DEF FrameAt
<1>8. PayloadOf(frame) = p
  <2>1. Len(PayloadOf(frame)) = Len(p) /\ PayloadOf(frame) \in Seq(Byte)
    BY <1>1, <1>3, <1>4 DEF PayloadOf
  <2>2. \A i \in 1..Len(p) : PayloadOf(frame)[i] = p[i]
    BY <1>1, <1>3, <1>4 DEF PayloadOf
  <2>. QED BY <1>1, <2>1, <2>2, SeqEqual
<1>. QED BY <1>4, <1>5, <1>6, <1>7, <1>8 DEF CommandOf

LEMMA AnswersAreFrames ==
    \A d \in Devices, c \in Listed :
        /\ Answer[d][c] \in Seq(Byte)
        /\ FrameAt(Answer[d][c], 1) /\ Answer[d][c][2] = Len(Answer[d][c])
        /\ Len(Answer[d][c]) >= Shortest /\ Answer[d][c][1] = StartByte
        /\ CommandOf(Answer[d][c]) = c /\ PayloadOf(Answer[d][c]) = Payload[d][c]
<1> SUFFICES ASSUME NEW d \in Devices, NEW c \in Listed
             PROVE  /\ Answer[d][c] \in Seq(Byte)
                    /\ FrameAt(Answer[d][c], 1) /\ Answer[d][c][2] = Len(Answer[d][c])
                    /\ Len(Answer[d][c]) >= Shortest /\ Answer[d][c][1] = StartByte
                    /\ CommandOf(Answer[d][c]) = c /\ PayloadOf(Answer[d][c]) = Payload[d][c]
    OBVIOUS
<1>1. c \in Byte /\ Payload[d][c] \in Payloads
  <2>1. PICK i \in 1..Len(Commands) : c = Commands[i]
    BY ToolAssumption DEF Listed, Range
  <2>2. c \in Byte
    BY <2>1, ToolAssumption
  <2>. QED BY <2>2, ToolAssumption DEF Listed
<1>2. Answer[d][c] = NewFrame(c, Payload[d][c])
  BY DEF Answer
<1>3. Len(Payload[d][c]) + Shortest >= Shortest
  BY <1>1 DEF Payloads, Shortest
<1>. QED BY <1>1, <1>2, <1>3, BuiltFrames

LEMMA CommandShape ==
    ASSUME IShape, Send \/ Fails \/ Expires \/ Succeeds
    PROVE  IShape'
<1> USE ToolAssumption
    DEF IShape, Shape, Lists, Pending, More, Session, scanVars, linkVars, streamVars, sessionVars
<1>1. ASSUME NEW result, stage = "wait", Ends(result) PROVE IShape'
  <2>1. failures' \in 0..MaxFailures /\ next' \in 1..(Len(Commands) + 1)
    <3>1. (failures' = 0 \/ failures' = failures + 1) /\ next' = next + 1
      BY <1>1, Zenon DEF Ends
    <3>. QED BY <1>1, <3>1
  <2>2. UNCHANGED <<targets, found, todo, report, held, refused, alive, wire, lost>>
    BY <1>1 DEF Ends
  <2>3. stage' = "ready" /\ future' = Unset
    BY <1>1 DEF Ends
  <2>4. Shape'
    BY <2>1, <2>2, <2>3, <1>1 DEF Unset
  <2>5. Lists' /\ Pending'
    BY <2>2, <2>3
  <2>. QED BY <2>4, <2>5
<1>2. CASE Fails
  BY <1>1, <1>2 DEF Fails
<1>3. CASE Succeeds
  BY <1>1, <1>3 DEF Succeeds
<1>4. CASE Expires
  BY <1>4 DEF Expires, Cancelled, Unset
<1>5. CASE Send
  <2>1. wire' \in Seq(Listed \X Nat) /\ Len(wire') <= MaxWire
    <3> DEFINE bytes == [i \in 1..Len(Answer[Device][Commands[next]]) |-> <<Commands[next], i>>]
    <3>1. wire' = wire \/ (Len(wire) + Len(bytes) <= MaxWire /\ wire' = wire \o bytes)
      BY <1>5 DEF Send
    <3>2. Commands[next] \in Listed /\ Device \in Devices
      BY <1>5, ListedIsCommand, Current DEF Send
    <3>3. Len(Answer[Device][Commands[next]]) \in Nat
      <4>1. Answer[Device][Commands[next]] \in Seq(Byte)
        BY <3>2, AnswersAreFrames
      <4>. QED BY <4>1
    <3>4. bytes \in Seq(Listed \X Nat)
      BY <3>2, <3>3
    <3>5. wire' \in Seq(Listed \X Nat)
      <4>1. wire \o bytes \in Seq(Listed \X Nat)
        BY <3>4
      <4> HIDE DEF bytes
      <4>. QED BY <3>1, <4>1
    <3>6. Len(wire') <= MaxWire
      <4>1. Len(wire \o bytes) = Len(wire) + Len(bytes)
        BY <3>4
      <4> HIDE DEF bytes
      <4>. QED BY <3>1, <4>1
    <3>. QED BY <3>5, <3>6
  <2>2. UNCHANGED <<targets, found, todo, report, held, refused, alive, next, failures, lost>>
    BY <1>5 DEF Send
  <2>3. stage = "ready" /\ More /\ stage' = "wait" /\ future' = Open
    BY <1>5 DEF Send
  <2>. QED BY <2>1, <2>2, <2>3 DEF Open, Unset
<1>. QED BY <1>2, <1>3, <1>4, <1>5

LEMMA SessionShape ==
    ASSUME IShape, Connect \/ ConnectFails \/ LinkLost \/ Collected \/ Close
    PROVE  IShape'
<1> USE ToolAssumption
    DEF IShape, Shape, Lists, Pending, Session, scanVars, linkVars, streamVars, sessionVars
<1>1. CASE Connect
  BY <1>1, Current DEF Connect, Fresh
<1>2. CASE ConnectFails
  <2>1. Device \in Devices /\ held' \subseteq Devices /\ refused' \subseteq held'
    BY <1>2, Current DEF ConnectFails
  <2>2. report' \in [Devices -> {"none", "data", "failed"}]
    BY <1>2, <2>1 DEF ConnectFails
  <2>3. /\ failures' = 0 /\ next' = 1 /\ stage' = "close" /\ alive' = FALSE /\ wire' = <<>>
        /\ UNCHANGED <<targets, found, todo, lost>> /\ future' = Unset /\ todo # <<>>
    BY <1>2 DEF ConnectFails, Fresh
  <2>4. Shape'
    <3>1. 0 \in 0..MaxFailures /\ 1 \in 1..(Len(Commands) + 1) /\ Len(wire') <= MaxWire
      BY <2>3
    <3>. QED BY <2>1, <2>2, <2>3, <3>1
  <2>5. Lists' /\ Pending'
    BY <2>3
  <2>. QED BY <2>4, <2>5
<1>3. CASE LinkLost
  <2>1. wire' = <<>> /\ alive' \in BOOLEAN
    BY <1>3 DEF LinkLost
  <2>2. UNCHANGED <<stage, targets, found, todo, report, linkVars, next, failures, future, lost>>
    BY <1>3 DEF LinkLost
  <2>. QED BY <2>1, <2>2 DEF More
<1>4. CASE Collected
  BY <1>4, Current DEF Collected
<1>5. CASE Close
  <2>1. Remaining \in Seq(Devices)
    BY <1>5 DEF Close, Remaining
  <2>2. Device \in Devices
    BY <1>5, Current DEF Close
  <2>3. held' \subseteq Devices /\ refused' \subseteq held'
    BY <1>5, <2>2 DEF Close, Disconnect
  <2>. QED BY <1>5, <2>1, <2>3, SetOf DEF Close
<1>. QED BY <1>1, <1>2, <1>3, <1>4, <1>5

LEMMA StreamShape ==
    ASSUME IShape, NEW n \in 1..Len(wire), Deliver(n) \/ Lose(n)
    PROVE  IShape'
<1> USE ToolAssumption
    DEF IShape, Shape, Lists, Pending, More, Session, scanVars, linkVars, streamVars, sessionVars
<1>1. wire' \in Seq(Listed \X Nat) /\ Len(wire') <= MaxWire
  <2>1. wire' = From(wire, n + 1)
    BY DEF Deliver, Lose
  <2>2. wire \in Seq(Listed \X Nat) /\ Len(wire) <= MaxWire
    OBVIOUS
  <2>3. From(wire, n + 1) \in Seq(Listed \X Nat) /\ Len(From(wire, n + 1)) <= Len(wire)
    BY <2>2, FromIsSeq
  <2>4. Len(wire) \in Nat /\ Len(wire') \in Nat
    BY <2>1, <2>2, <2>3
  <2>. QED BY <2>1, <2>2, <2>3, <2>4
<1>2. CASE Deliver(n)
  <2>1. UNCHANGED <<stage, targets, found, todo, report, linkVars, alive, next, failures, lost>>
    BY <1>2 DEF Deliver
  <2>2. future' = future \/ (future = Open /\ \E p : future' = Value(p))
    BY <1>2, Zenon DEF Deliver
  <2>3. future' # Unset <=> future # Unset
    BY <2>2 DEF Open, Value, Unset
  <2>. QED BY <1>1, <2>1, <2>3
<1>3. CASE Lose(n)
  BY <1>1, <1>3 DEF Lose
<1>. QED BY <1>2, <1>3

LEMMA ShapeStep == IShape /\ [Next]_vars => IShape'
<1> SUFFICES ASSUME IShape, [Next]_vars PROVE IShape'
    OBVIOUS
<1>1. CASE UNCHANGED vars
  BY <1>1 DEF vars, IShape, Shape, Lists, Pending, More, Session
<1>2. CASE Next
  BY <1>1, <1>2, ScanShape, SessionShape, CommandShape, StreamShape DEF Next, Finished
<1>. QED BY <1>1, <1>2

(* The bytes on the way are those of answers of the battery that is connected, and the decoder  *)
(* holds bytes that wait for more. *)
OnWire == \A i \in 1..Len(wire) :
              /\ wire[i][1] \in Listed
              /\ wire[i][2] \in 1..Len(Answer[Device][wire[i][1]])

Streams ==
    /\ buffer \in Seq(Byte) /\ Stalled(buffer)
    /\ alive => stage \in Session /\ OnWire

Typed == IShape /\ Streams

Chunk(n) == [i \in 1..n |-> Answer[Device][wire[i][1]][wire[i][2]]]

LEMMA ChunkIsBytes ==
    ASSUME Typed, alive, NEW n \in 1..Len(wire)
    PROVE  Chunk(n) \in Seq(Byte)
<1>1. Device \in Devices
  BY Current DEF Typed, Streams
<1>2. ASSUME NEW i \in 1..n PROVE Answer[Device][wire[i][1]][wire[i][2]] \in Byte
  <2>1. wire[i][1] \in Listed /\ wire[i][2] \in 1..Len(Answer[Device][wire[i][1]])
    BY DEF Typed, Streams, OnWire, IShape, Lists
  <2>2. Answer[Device][wire[i][1]] \in Seq(Byte)
    BY <1>1, <2>1, AnswersAreFrames
  <2>. QED BY <2>1, <2>2, ElementOfSeq
<1>3. n \in Nat
  OBVIOUS
<1>. QED BY <1>2, <1>3, IsASeq DEF Chunk

LEMMA Delivered ==
    ASSUME Typed, NEW n \in 1..Len(wire), Deliver(n)
    PROVE  /\ buffer' = Feed(buffer, Chunk(n))[2]
           /\ got' = got \cup Range(Feed(buffer, Chunk(n))[1])
           /\ Feed(buffer, Chunk(n))[1] \in Seq(Frames)
           /\ buffer' \in Seq(Byte) /\ Stalled(buffer')
<1>1. buffer' = Feed(buffer, Chunk(n))[2] /\ got' = got \cup Range(Feed(buffer, Chunk(n))[1])
  BY Zenon DEF Deliver, Chunk
<1>2. buffer \in Seq(Byte) /\ Chunk(n) \in Seq(Byte)
  BY ChunkIsBytes DEF Deliver, Typed, Streams
<1>. QED BY <1>1, <1>2, FeedCutsFrames

LEMMA FromOnWire ==
    ASSUME IShape, OnWire, NEW n \in 1..Len(wire), wire' = From(wire, n + 1),
           UNCHANGED todo
    PROVE  OnWire'
<1>1. wire \in Seq(Listed \X Nat)
  BY DEF IShape, Lists
<1>2. Len(wire') = Len(wire) - n /\ \A i \in 1..Len(wire') : wire'[i] = wire[i + n]
  BY <1>1, FromIsSeq
<1>3. \A i \in 1..Len(wire') : i + n \in 1..Len(wire)
  BY <1>1, <1>2
<1>. QED BY <1>2, <1>3 DEF OnWire, Device

LEMMA StreamsStep == Typed /\ [Next]_vars => Streams'
<1> SUFFICES ASSUME Typed, [Next]_vars PROVE Streams'
    OBVIOUS
<1> USE DEF scanVars, linkVars, streamVars, sessionVars
<1>1. ASSUME UNCHANGED <<buffer, wire, alive, todo>>, alive => stage' \in Session PROVE Streams'
  BY <1>1 DEF Typed, Streams, OnWire, Device
<1>2. CASE Start \/ ScanDone \/ ScanEnds \/ \E d \in Devices : Advertises(d)
  <2>1. ~alive
    BY <1>2 DEF Typed, Streams, Start, ScanDone, ScanEnds, Query, Advertises, Session
  <2>2. UNCHANGED <<buffer, wire, alive>>
    BY <1>2 DEF Start, ScanDone, ScanEnds, Query, Advertises
  <2>. QED BY <2>1, <2>2 DEF Typed, Streams
<1>3. CASE Fails \/ Expires \/ Succeeds \/ Collected \/ Finished \/ UNCHANGED vars
  BY <1>1, <1>3
     DEF Fails, Expires, Succeeds, Ends, Collected, Finished, vars, Session, Typed, Streams
<1>4. <<>> \in Seq(Byte) /\ Stalled(<<>>)
  BY DEF Stalled
<1>5. CASE Connect \/ ConnectFails
  <2>1. wire' = <<>> /\ buffer' = <<>> /\ stage' \in Session
    BY <1>5 DEF Connect, ConnectFails, Fresh, Session
  <2>2. 1..Len(wire') = {}
    BY <2>1
  <2>. QED BY <1>4, <2>1, <2>2 DEF OnWire, Streams
<1>6. CASE Close \/ LinkLost
  BY <1>6 DEF Close, LinkLost, Typed, Streams
<1>7. CASE Send
  <2> DEFINE answer == Answer[Device][Commands[next]]
             bytes == [i \in 1..Len(answer) |-> <<Commands[next], i>>]
  <2>1. UNCHANGED <<buffer, alive, todo>> /\ stage' = "wait" /\ stage = "ready"
    BY <1>7 DEF Send
  <2>2. Commands[next] \in Listed /\ Device \in Devices
    BY <1>7, ListedIsCommand, Current DEF Send, Session, Typed, More, IShape, Shape
  <2>3. CASE wire' = wire
    BY <1>1, <2>1, <2>3 DEF Session
  <2>4. CASE alive /\ wire' = wire \o bytes
    <3>1. Len(answer) \in Nat /\ wire \in Seq(Listed \X Nat)
      BY <2>2, AnswersAreFrames DEF Typed, IShape, Lists
    <3>2. bytes \in Seq(Listed \X Nat) /\ Len(bytes) = Len(answer)
      BY <2>2, <3>1
    <3>3. ASSUME NEW i \in 1..Len(wire')
          PROVE  wire'[i][1] \in Listed /\ wire'[i][2] \in 1..Len(Answer[Device][wire'[i][1]])
      <4>1. CASE i <= Len(wire)
        <5>1. wire'[i] = wire[i] /\ i \in 1..Len(wire)
          BY <2>4, <3>1, <3>2, <4>1
        <5>. QED BY <2>4, <5>1 DEF Typed, Streams, OnWire
      <4>2. CASE i > Len(wire)
        <5>1. i - Len(wire) \in 1..Len(answer)
          BY <2>4, <3>1, <3>2, <4>2
        <5>2. wire'[i] = bytes[i - Len(wire)]
          BY <2>4, <3>1, <3>2, <4>2, <5>1
        <5>3. wire'[i] = <<Commands[next], i - Len(wire)>>
          BY <5>1, <5>2
        <5>. QED BY <2>2, <5>1, <5>3
      <4>. QED BY <3>1, <4>1, <4>2
    <3>4. OnWire'
      BY <2>1, <3>3 DEF OnWire, Device
    <3>. QED BY <2>1, <3>4 DEF Streams, Typed, Session
  <2>. QED BY <1>7, <2>3, <2>4 DEF Send
<1>8. ASSUME NEW n \in 1..Len(wire), Deliver(n) PROVE Streams'
  <2>1. UNCHANGED <<alive, stage, todo>> /\ wire' = From(wire, n + 1) /\ alive
    BY <1>8 DEF Deliver
  <2>2. OnWire'
    BY <2>1, FromOnWire DEF Typed, Streams
  <2>. QED BY <1>8, <2>1, <2>2, Delivered DEF Typed, Streams
<1>9. ASSUME NEW n \in 1..Len(wire), Lose(n) PROVE Streams'
  <2>1. UNCHANGED <<alive, stage, todo, buffer>> /\ wire' = From(wire, n + 1)
    BY <1>9 DEF Lose
  <2>2. alive => OnWire'
    BY <2>1, FromOnWire DEF Typed, Streams
  <2>. QED BY <2>1, <2>2 DEF Typed, Streams
<1>. QED BY <1>2, <1>3, <1>5, <1>6, <1>7, <1>8, <1>9 DEF Next

LEMMA TypedAlways == Spec => []Typed
<1>1. Init => Typed
  <2> SUFFICES ASSUME Init PROVE Typed
      OBVIOUS
  <2>1. Streams
    BY DEF Init, Streams, Stalled
  <2>. QED BY <2>1, ShapeInit DEF Typed
<1>2. Typed /\ [Next]_vars => Typed'
  BY ShapeStep, StreamsStep DEF Typed
<1>. QED BY <1>1, <1>2, PTL DEF Spec

(* TypeOK: the types of the tool's state, that its parts fit together, and that feed always ends *)
(* with a buffer that only more bytes can help. *)
THEOREM ToolTypeCorrect == Spec => []TypeOK
<1>1. Typed => TypeOK
  BY DEF Typed, IShape, Streams, TypeOK
<1>. QED BY <1>1, TypedAlways, PTL

-----------------------------------------------------------------------------
LEMMA RangeOfTail ==
    ASSUME NEW S, NEW s \in Seq(S), s # <<>>
    PROVE  Range(s) = {Head(s)} \cup Range(Tail(s))
<1>1. Len(s) \in Nat \ {0} /\ Len(Tail(s)) = Len(s) - 1 /\ Head(s) = s[1]
      /\ \A i \in 1..(Len(s) - 1) : Tail(s)[i] = s[i + 1]
  OBVIOUS
<1>2. \A i \in 2..Len(s) : i - 1 \in 1..(Len(s) - 1) /\ s[i] = Tail(s)[i - 1]
  BY <1>1
<1>3. DOMAIN s = 1..Len(s) /\ DOMAIN Tail(s) = 1..(Len(s) - 1)
  BY <1>1
<1>4. Range(s) \subseteq {Head(s)} \cup Range(Tail(s))
  <2> SUFFICES ASSUME NEW i \in 1..Len(s) PROVE s[i] \in {Head(s)} \cup Range(Tail(s))
      BY <1>3 DEF Range
  <2>1. CASE i = 1
    BY <1>1, <2>1
  <2>2. CASE i # 1
    <3>1. i - 1 \in DOMAIN Tail(s) /\ s[i] = Tail(s)[i - 1]
      BY <1>1, <1>2, <1>3, <2>2
    <3>. QED BY <3>1, Zenon DEF Range
  <2>. QED BY <2>1, <2>2
<1>5. Head(s) \in Range(s)
  BY <1>1, <1>3 DEF Range
<1>6. Range(Tail(s)) \subseteq Range(s)
  <2>1. \A i \in 1..(Len(s) - 1) : i + 1 \in 1..Len(s)
    BY <1>1
  <2>. QED BY <1>1, <1>3, <2>1 DEF Range
<1>. QED BY <1>4, <1>5, <1>6

(* Every target is in the report or still in the list. *)
Reporting ==
    /\ stage = "start" => found = <<>>
    /\ stage \in Session \cup {"connect"} =>
           \A d \in Range(targets) : report[d] # "none" \/ d \in Range(todo)
    /\ stage = "close" => report[Device] # "none"
    /\ stage = "done" => TargetsReported

LEMMA ReportingStep == Typed /\ Reporting /\ [Next]_vars => Reporting'
<1> SUFFICES ASSUME Typed, Reporting, [Next]_vars PROVE Reporting'
    OBVIOUS
<1> USE DEF scanVars, linkVars, streamVars, sessionVars
<1>1. /\ targets \in Seq(Devices) /\ todo \in Seq(Devices)
      /\ report \in [Devices -> {"none", "data", "failed"}]
  BY ToolAssumption DEF Typed, IShape, Shape, Lists
<1>2. Range(<<>>) = {}
  BY DEF Range
<1>3. targets # <<>> => Range(targets) # {}
  BY <1>1, RangeOfTail
<1>4. CASE Start
  BY <1>2, <1>3, <1>4 DEF Start, Reporting, TargetsReported, Session
<1>5. ASSUME NEW d \in Devices, Advertises(d) PROVE Reporting'
  BY <1>5 DEF Advertises, Reporting, Session
<1>6. ASSUME NEW devices, Query(devices),
             \/ Range(targets) \subseteq Range(devices)
             \/ devices = <<>> /\ ~(Range(targets) \subseteq Range(found))
      PROVE  Reporting'
  <2>1. CASE devices = <<>>
    BY <1>2, <1>6, <2>1 DEF Query, Reporting, TargetsReported, Session
  <2>2. CASE devices # <<>>
    BY <1>6, <2>2 DEF Query, Reporting, Session
  <2>. QED BY <2>1, <2>2
<1>7. CASE ScanDone
  BY <1>6, <1>7 DEF ScanDone
<1>8. CASE ScanEnds
  <2>1. CASE targets = <<>>
    <3>1. \E devices : Query(devices)
      BY <1>8 DEF ScanEnds
    <3>. QED BY <1>2, <1>6, <2>1, <3>1
  <2>2. CASE targets # <<>> /\ Range(targets) \subseteq Range(found)
    BY <1>6, <1>8, <2>2 DEF ScanEnds
  <2>3. CASE targets # <<>> /\ ~(Range(targets) \subseteq Range(found))
    BY <1>6, <1>8, <2>3 DEF ScanEnds
  <2>. QED BY <2>1, <2>2, <2>3
<1>9. CASE Connect
  BY <1>9 DEF Connect, Reporting, Session
<1>10. ASSUME NEW verdict \in {"data", "failed"},
              stage \in Session \cup {"connect"}, stage' = "close",
              report' = [report EXCEPT ![Device] = verdict], UNCHANGED <<targets, todo>>
       PROVE  Reporting'
  <2>1. Device \in Devices
    BY <1>10, Current DEF Typed
  <2>2. report'[Device] = verdict
    BY <1>1, <1>10, <2>1
  <2>3. \A d \in Devices : report[d] # "none" => report'[d] # "none"
    BY <1>1, <1>10, <2>1
  <2>4. Range(targets) \subseteq Devices
    BY <1>1, SetOf
  <2>. QED BY <1>10, <2>2, <2>3, <2>4 DEF Reporting, Session, Device
<1>11. CASE ConnectFails
  BY <1>10, <1>11 DEF ConnectFails
<1>12. CASE Collected
  BY <1>10, <1>12 DEF Collected, Session
<1>13. CASE Send \/ Expires
  BY <1>13 DEF Send, Expires, Reporting, Session
<1>14. CASE Fails \/ Succeeds
  BY <1>14 DEF Fails, Succeeds, Ends, Reporting, Session
<1>15. ASSUME NEW n \in 1..Len(wire), Deliver(n) \/ Lose(n) PROVE Reporting'
  BY <1>15 DEF Deliver, Lose, Reporting, Session, TargetsReported, Device
<1>16. CASE LinkLost \/ Finished \/ UNCHANGED vars
  BY <1>16 DEF LinkLost, Finished, vars, Reporting, Session, TargetsReported, Device
<1>17. CASE Close
  <2>1. todo # <<>> /\ stage = "close"
    BY <1>17 DEF Close, Typed, IShape, Shape, Session
  <2>2. Range(todo) = {Device} \cup Range(todo')
    BY <1>1, <1>17, <2>1, RangeOfTail DEF Close, Remaining, Device
  <2>3. \A d \in Range(targets) : report[d] # "none" \/ d \in Range(todo')
    BY <2>1, <2>2 DEF Reporting, Session
  <2>4. UNCHANGED <<targets, found, report>> /\ stage' = IF todo' = <<>> THEN "done" ELSE "connect"
    BY <1>17 DEF Close
  <2>. QED BY <1>2, <2>3, <2>4 DEF Reporting, Session, TargetsReported
<1>. QED BY <1>4, <1>5, <1>7, <1>8, <1>9, <1>11, <1>12, <1>13, <1>14, <1>15, <1>16, <1>17 DEF Next

(* The safety half of EveryTargetReported: a run that has ended and had found all of its targets *)
(* has every one of them in its report, whatever failed for which of them. *)
THEOREM EndedRunsReport == Spec => [](stage = "done" => TargetsReported)
<1>1. Init => Reporting
  BY DEF Init, Reporting, Session
<1>2. Reporting => (stage = "done" => TargetsReported)
  BY DEF Reporting
<1>. QED BY <1>1, <1>2, ReportingStep, TypedAlways, PTL DEF Spec

-----------------------------------------------------------------------------
(* Nothing has been cut out that the battery did not send: no frame was pieced together around   *)
(* a loss. *)
OwnFrames == stage \in Session => got \subseteq {Answer[Device][c] : c \in Listed}

(* What a command may end with, and what the one that is waited for has so far. *)
Owned ==
    stage \in Session =>
        /\ results = [c \in Listed |-> results[c]]
        /\ \A c \in Listed : results[c] \in {Unset, Error, Value(Payload[Device][c])}
        /\ stage = "wait" =>
               future \in {Open, Cancelled, Value(Payload[Device][Commands[next]])}

LEMMA OwnedStep == Typed /\ Owned /\ [Next]_vars /\ OwnFrames' => Owned'
<1> SUFFICES ASSUME Typed, Owned, [Next]_vars, OwnFrames' PROVE Owned'
    OBVIOUS
<1> USE DEF scanVars, linkVars, streamVars, sessionVars
<1>1. CASE Start \/ ScanDone \/ ScanEnds \/ \E d \in Devices : Advertises(d)
  BY <1>1 DEF Start, ScanDone, ScanEnds, Query, Advertises, Session, Owned
<1>2. CASE Connect \/ ConnectFails
  BY <1>2 DEF Connect, ConnectFails, Fresh, Owned
<1>3. CASE Close
  BY <1>3 DEF Close, Owned, Session
<1>4. CASE Collected \/ LinkLost \/ Finished \/ UNCHANGED vars
  BY <1>4 DEF Collected, LinkLost, Finished, vars, Owned, Session, Device
<1>5. CASE Send \/ Expires
  BY <1>5 DEF Send, Expires, Owned, Session, Device
<1>6. ASSUME stage = "wait", NEW result, Ends(result),
             result \in {Error, Value(Payload[Device][Commands[next]])}
      PROVE  Owned'
  <2>1. Commands[next] \in Listed
    BY <1>6, ListedIsCommand DEF Typed, IShape, Shape, Pending, More
  <2>2. results' = [results EXCEPT ![Commands[next]] = result] /\ stage' = "ready"
        /\ UNCHANGED todo
    BY <1>6 DEF Ends
  <2>3. \A c \in Listed : results'[c] = IF c = Commands[next] THEN result ELSE results[c]
    BY <1>6, <2>1, <2>2 DEF Owned, Session
  <2>4. results' = [c \in Listed |-> results'[c]]
    BY <1>6, <2>1, <2>2 DEF Owned, Session
  <2>. QED BY <1>6, <2>2, <2>3, <2>4 DEF Owned, Session, Device
<1>7. CASE Fails
  BY <1>6, <1>7 DEF Fails
<1>8. CASE Succeeds
  BY <1>6, <1>8 DEF Succeeds, Owned, Session
<1>9. ASSUME NEW n \in 1..Len(wire), Deliver(n) PROVE Owned'
  <2> DEFINE frames == Range(Feed(buffer, Chunk(n))[1])
  <2>1. UNCHANGED <<stage, todo, next, results>> /\ got' = got \cup frames /\ alive
        /\ future' = IF future = Open /\ Answers(frames) # {}
                     THEN Value(PayloadOf(CHOOSE f \in Answers(frames) : TRUE))
                     ELSE future
    BY <1>9, Zenon DEF Deliver, Chunk
  <2> HIDE DEF frames
  <2>2. stage \in Session /\ Device \in Devices
    BY <2>1, Current DEF Typed, Streams
  <2>3. ASSUME future = Open, Answers(frames) # {}
        PROVE  future' = Value(Payload[Device][Commands[next]])
    <3>1. PICK f \in Answers(frames) : future' = Value(PayloadOf(f))
      BY <2>1, <2>3
    <3>2. f \in frames /\ CommandOf(f) = Commands[next]
      BY <3>1 DEF Answers
    <3>3. PICK c \in Listed : f = Answer[Device][c]
      BY <2>1, <2>2, <3>2 DEF OwnFrames, Device
    <3>. QED BY <2>2, <3>1, <3>2, <3>3, AnswersAreFrames
  <2>4. future' = future \/ future' = Value(Payload[Device][Commands[next]])
    BY <2>1, <2>3
  <2>. QED BY <2>1, <2>2, <2>4 DEF Owned, Device
<1>10. ASSUME NEW n \in 1..Len(wire), Lose(n) PROVE Owned'
  BY <1>10 DEF Lose, Owned, Session, Device
<1>. QED BY <1>1, <1>2, <1>3, <1>4, <1>5, <1>7, <1>8, <1>9, <1>10 DEF Next

(* AnswerIsOwn, of the matching of answers to commands: as long as the checksum keeps out what    *)
(* was pieced together around a loss, a value in the report is what that battery answered to that *)
(* command, however late or split the answers arrive and whatever expires. *)
THEOREM ValuesAreOwn == Spec /\ []OwnFrames => []AnswerIsOwn
<1>1. Init => Owned
  BY DEF Init, Owned, Session
<1>2. Owned => AnswerIsOwn
  BY DEF Owned, AnswerIsOwn
<1>. QED BY <1>1, <1>2, OwnedStep, TypedAlways, PTL DEF Spec

-----------------------------------------------------------------------------
(* A frame at the beginning is cut out, whatever follows it. *)
LEMMA CutAfterFrame ==
    ASSUME NEW A \in Frames, NEW y \in Seq(Byte)
    PROVE  A \o y \in Seq(Byte) /\ Cut[A \o y] = <<<<A>> \o Cut[y][1], Cut[y][2]>>
<1> DEFINE x == A \o y
           n == Len(A)
<1>1. A \in Seq(Byte) /\ FrameAt(A, 1) /\ A[2] = n
  BY DEF Frames
<1>2. /\ A[1 + 1] >= 5 /\ A[1] = StartByte /\ A[1 + 2] = IdentifierByte
      /\ Checksum(SubSeq(A, 1, 1 + A[1 + 1] - 1)) = 0
  BY <1>1, Zenon DEF FrameAt, Shortest
<1>3. 1 + 1 = 2 /\ 1 + 2 = 3 /\ n \in Nat /\ Len(y) \in Nat
  BY <1>1
<1>4. n >= 5 /\ 1 + n - 1 = n
  BY <1>1, <1>2, <1>3
<1>5. SubSeq(A, 1, n) = A
  BY <1>1
<1>6. Checksum(A) = 0 /\ A[3] = IdentifierByte
  BY <1>1, <1>2, <1>3, <1>4, <1>5
<1>7. x \in Seq(Byte) /\ Len(x) = n + Len(y) /\ \A i \in 1..n : x[i] = A[i]
  BY <1>1
<1>8. x[1] = StartByte /\ x[2] = n /\ x[3] = IdentifierByte
  BY <1>1, <1>2, <1>4, <1>6, <1>7
<1>9. SubSeq(x, 1, n) = A
  <2>1. SubSeq(x, 1, n) \in Seq(Byte) /\ Len(SubSeq(x, 1, n)) = n
    BY <1>3, <1>7
  <2>2. \A i \in 1..n : SubSeq(x, 1, n)[i] = A[i]
    BY <1>3, <1>7
  <2>. QED BY <1>1, <2>1, <2>2, SeqEqual
<1>10. From(x, n + 1) = y
  <2>1. \A i \in 1..Len(y) : x[n + i] = y[i] /\ n + 1 + i - 1 = n + i
    BY <1>1, <1>3
  <2>2. From(x, n + 1) \in Seq(Byte) /\ Len(From(x, n + 1)) = Len(y)
    BY <1>3, <1>4, <1>7 DEF From
  <2>3. \A i \in 1..Len(y) : From(x, n + 1)[i] = y[i]
    BY <1>3, <1>4, <1>7, <2>1 DEF From
  <2>. QED BY <2>2, <2>3, SeqEqual
<1> HIDE DEF x
<1>11. FrameAt(x, 1)
  <2>1. Len(x) - 1 + 1 >= Shortest /\ Len(x) - 1 + 1 >= n /\ n >= Shortest
    BY <1>3, <1>4, <1>7 DEF Shortest
  <2>. QED BY <1>3, <1>4, <1>6, <1>8, <1>9, <2>1, Zenon DEF FrameAt
<1>12. ~Stalled(x)
  BY <1>3, <1>4, <1>7, <1>8 DEF Stalled
<1>13. Cut[x] = <<<<SubSeq(x, 1, n)>> \o Cut[From(x, n + 1)][1], Cut[From(x, n + 1)][2]>>
  BY <1>7, <1>8, <1>11, <1>12, CutOfFrame
<1>. QED BY <1>7, <1>9, <1>10, <1>13 DEF x

(* An incomplete frame in which no complete one hides waits for the rest of it. *)
LEMMA PrefixStalls ==
    ASSUME NEW A \in Frames, LaterFrames(A) = {}, NEW j \in 0..(Len(A) - 1)
    PROVE  SubSeq(A, 1, j) \in Seq(Byte) /\ Stalled(SubSeq(A, 1, j))
<1> DEFINE p == SubSeq(A, 1, j)
<1>1. A \in Seq(Byte) /\ FrameAt(A, 1) /\ A[2] = Len(A) /\ Len(A) \in Nat /\ j \in Nat /\ j < Len(A)
  BY DEF Frames
<1>2. p \in Seq(Byte) /\ Len(p) = j /\ \A i \in 1..j : p[i] = A[i]
  BY <1>1
<1>3. A[1] = StartByte /\ A[2] >= Shortest
  <2>1. A[1] = StartByte /\ A[1 + 1] >= Shortest
    BY <1>1, Zenon DEF FrameAt
  <2>2. 1 + 1 = 2
    OBVIOUS
  <2>. QED BY <2>1, <2>2
<1> HIDE DEF p
<1>4. LaterFrames(p) = {}
  <2> SUFFICES ASSUME NEW i \in 2..Len(p), FrameAt(p, i) PROVE FALSE
      BY DEF LaterFrames
  <2>1. /\ Len(p) - i + 1 >= 5 /\ p[i] = StartByte /\ p[i + 2] = IdentifierByte
        /\ p[i + 1] >= 5 /\ Len(p) - i + 1 >= p[i + 1]
        /\ Checksum(SubSeq(p, i, i + p[i + 1] - 1)) = 0
    BY Zenon DEF FrameAt, Shortest
  <2>2. i \in Nat /\ i >= 2 /\ i <= j
    BY <1>1, <1>2
  <2>3. i + 1 \in 1..j /\ i + 2 \in 1..j
    BY <1>1, <1>2, <2>1, <2>2
  <2>4. A[i] = StartByte /\ A[i + 1] = p[i + 1] /\ A[i + 2] = IdentifierByte
    BY <1>1, <1>2, <2>1, <2>2, <2>3
  <2>5. p[i + 1] \in Nat
    BY <1>2, <2>3, ByteIsNat, ElementOfSeq
  <2> DEFINE m == i + p[i + 1] - 1
  <2>6. m \in Nat /\ m <= j /\ i <= m
    BY <1>2, <2>1, <2>2, <2>5
  <2> HIDE DEF m
  <2>7. SubSeq(p, i, m) = SubSeq(A, i, m)
    <3>1. /\ SubSeq(p, i, m) \in Seq(Byte) /\ Len(SubSeq(p, i, m)) = m - i + 1
          /\ SubSeq(A, i, m) \in Seq(Byte) /\ Len(SubSeq(A, i, m)) = m - i + 1
      BY <1>1, <1>2, <2>2, <2>6
    <3>2. ASSUME NEW k \in 1..(m - i + 1) PROVE SubSeq(p, i, m)[k] = SubSeq(A, i, m)[k]
      <4>1. i + k - 1 \in 1..j
        BY <1>1, <2>2, <2>6
      <4>2. SubSeq(p, i, m)[k] = p[i + k - 1] /\ SubSeq(A, i, m)[k] = A[i + k - 1]
        BY <1>1, <1>2, <2>2, <2>6
      <4>. QED BY <1>2, <4>1, <4>2
    <3>. QED BY <3>1, <3>2, SeqEqual
  <2>8. Len(A) - i + 1 >= Shortest /\ Len(A) - i + 1 >= A[i + 1] /\ A[i + 1] >= Shortest
    BY <1>1, <1>2, <2>1, <2>2, <2>4, <2>5 DEF Shortest
  <2>9. FrameAt(A, i)
    BY <2>1, <2>4, <2>7, <2>8, Zenon DEF FrameAt, m
  <2>10. i \in 2..Len(A)
    BY <1>1, <2>2
  <2>. QED BY <2>9, <2>10 DEF LaterFrames
<1>5. Stalled(p)
  <2>1. CASE j < 2
    BY <1>2, <2>1 DEF Stalled
  <2>2. CASE j >= 2
    <3>1. p[1] = StartByte /\ p[2] = Len(A) /\ p[2] >= Shortest /\ Len(p) < p[2]
      BY <1>1, <1>2, <1>3, <2>2
    <3>. QED BY <1>4, <3>1 DEF Stalled
  <2>. QED BY <1>1, <2>1, <2>2
<1>. QED BY <1>2, <1>5 DEF p

(* The bytes w of a battery's answers are one answer after another, the last one complete. *)
Chained(d, w) ==
    /\ w \in Seq(Listed \X Nat)
    /\ \A i \in 1..Len(w) :
         LET c == w[i][1]
             k == w[i][2] IN
           /\ c \in Listed /\ k \in 1..Len(Answer[d][c])
           /\ k < Len(Answer[d][c]) => i < Len(w) /\ w[i + 1] = <<c, k + 1>>
           /\ k = Len(Answer[d][c]) /\ i < Len(w) => w[i + 1][2] = 1

(* What has arrived, before byte s of w, of the answer that byte belongs to. *)
Begun(d, w, s) == IF s \in 1..Len(w) THEN SubSeq(Answer[d][w[s][1]], 1, w[s][2] - 1) ELSE <<>>

BytesOf(d, w, s, n) == [i \in 1..(n + 1 - s) |-> Answer[d][w[s - 1 + i][1]][w[s - 1 + i][2]]]

(* The answers whose last byte is between s and n. *)
Completed(d, w, s, n) ==
    {Answer[d][c] : c \in {c \in Listed : \E i \in s..n : w[i] = <<c, Len(Answer[d][c])>>}}

LEMMA AnswersInFrames ==
    \A d \in Devices, c \in Listed : Answer[d][c] \in Frames /\ Len(Answer[d][c]) \in Nat
<1> SUFFICES ASSUME NEW d \in Devices, NEW c \in Listed
             PROVE  Answer[d][c] \in Frames /\ Len(Answer[d][c]) \in Nat
    OBVIOUS
<1>1. Answer[d][c] \in Seq(Byte) /\ FrameAt(Answer[d][c], 1) /\ Answer[d][c][2] = Len(Answer[d][c])
  BY AnswersAreFrames
<1>. QED BY <1>1 DEF Frames

LEMMA BegunStalls ==
    ASSUME NothingHides, NEW d \in Devices, NEW w, Chained(d, w), NEW s \in Nat
    PROVE  Begun(d, w, s) \in Seq(Byte) /\ Stalled(Begun(d, w, s))
<1>1. CASE s \in 1..Len(w)
  <2> DEFINE A == Answer[d][w[s][1]]
  <2>1. w[s][1] \in Listed /\ w[s][2] \in 1..Len(A)
    BY <1>1 DEF Chained
  <2>2. A \in Frames /\ LaterFrames(A) = {} /\ Len(A) \in Nat
    BY <2>1, AnswersInFrames DEF NothingHides
  <2>3. w[s][2] - 1 \in 0..(Len(A) - 1)
    BY <2>1, <2>2
  <2>. QED BY <1>1, <2>2, <2>3, PrefixStalls DEF Begun
<1>2. CASE s \notin 1..Len(w)
  BY <1>2 DEF Begun, Stalled
<1>. QED BY <1>1, <1>2

LEMMA BytesAreBytes ==
    ASSUME NEW d \in Devices, NEW w, Chained(d, w), NEW n \in 0..Len(w), NEW s \in 1..(n + 1)
    PROVE  /\ BytesOf(d, w, s, n) \in Seq(Byte) /\ Len(BytesOf(d, w, s, n)) = n + 1 - s
           /\ s <= n => /\ Answer[d][w[s][1]][w[s][2]] \in Byte
                        /\ BytesOf(d, w, s, n)
                             = <<Answer[d][w[s][1]][w[s][2]]>> \o BytesOf(d, w, s + 1, n)
<1>1. Len(w) \in Nat /\ n \in Nat /\ s \in Nat /\ n + 1 - s \in Nat
  BY DEF Chained
<1>2. ASSUME NEW i \in 1..Len(w) PROVE Answer[d][w[i][1]][w[i][2]] \in Byte
  <2>1. w[i][1] \in Listed /\ w[i][2] \in 1..Len(Answer[d][w[i][1]])
    BY DEF Chained
  <2>2. Answer[d][w[i][1]] \in Seq(Byte)
    BY <2>1, AnswersAreFrames
  <2>. QED BY <2>1, <2>2, ElementOfSeq
<1>3. ASSUME NEW t \in 1..(n + 1)
      PROVE  /\ BytesOf(d, w, t, n) \in Seq(Byte) /\ Len(BytesOf(d, w, t, n)) = n + 1 - t
             /\ \A i \in 1..(n + 1 - t) :
                  BytesOf(d, w, t, n)[i] = Answer[d][w[t - 1 + i][1]][w[t - 1 + i][2]]
  <2>1. n + 1 - t \in Nat /\ \A i \in 1..(n + 1 - t) : t - 1 + i \in 1..Len(w)
    BY <1>1
  <2>2. \A i \in 1..(n + 1 - t) : Answer[d][w[t - 1 + i][1]][w[t - 1 + i][2]] \in Byte
    BY <1>2, <2>1
  <2>. QED BY <2>1, <2>2 DEF BytesOf
<1>4. ASSUME s <= n
      PROVE  BytesOf(d, w, s, n)
               = <<Answer[d][w[s][1]][w[s][2]]>> \o BytesOf(d, w, s + 1, n)
  <2> DEFINE a == Answer[d][w[s][1]][w[s][2]]
             u == BytesOf(d, w, s, n)
             v == BytesOf(d, w, s + 1, n)
  <2>1. s + 1 \in 1..(n + 1) /\ s \in 1..Len(w) /\ s - 1 + 1 = s
    BY <1>1, <1>4
  <2>2. a \in Byte
    BY <1>2, <2>1
  <2>3. /\ v \in Seq(Byte) /\ Len(v) = n - s /\ u \in Seq(Byte) /\ Len(u) = n + 1 - s
        /\ u[1] = a
    <3>1. Len(v) = n + 1 - (s + 1) /\ v \in Seq(Byte) /\ u \in Seq(Byte) /\ Len(u) = n + 1 - s
      BY <1>3, <2>1
    <3>2. u[1] = Answer[d][w[s - 1 + 1][1]][w[s - 1 + 1][2]]
      BY <1>1, <1>3, <1>4
    <3>. QED BY <1>1, <2>1, <3>1, <3>2
  <2>4. ASSUME NEW i \in 2..(n + 1 - s) PROVE u[i] = v[i - 1]
    <3>1. i - 1 \in 1..(n + 1 - (s + 1)) /\ s + 1 - 1 + (i - 1) = s - 1 + i /\ i \in 1..(n + 1 - s)
      BY <1>1, <1>4
    <3>2. \A k \in 1..(n + 1 - (s + 1)) :
              v[k] = Answer[d][w[s + 1 - 1 + k][1]][w[s + 1 - 1 + k][2]]
      BY DEF BytesOf
    <3>4. v[i - 1] = Answer[d][w[s + 1 - 1 + (i - 1)][1]][w[s + 1 - 1 + (i - 1)][2]]
      <4> HIDE DEF v
      <4>. QED BY <3>1, <3>2
    <3>3. u[i] = Answer[d][w[s - 1 + i][1]][w[s - 1 + i][2]]
      BY <1>3, <3>1
    <3> HIDE DEF u, v
    <3>. QED BY <3>1, <3>3, <3>4
  <2> HIDE DEF a, u, v
  <2>5. /\ <<a>> \o v \in Seq(Byte) /\ Len(<<a>> \o v) = n + 1 - s /\ (<<a>> \o v)[1] = a
        /\ \A i \in 2..(n + 1 - s) : (<<a>> \o v)[i] = v[i - 1]
    BY <1>1, <1>4, <2>2, <2>3
  <2>6. \A i \in 1..Len(u) : u[i] = (<<a>> \o v)[i]
    BY <1>1, <2>3, <2>4, <2>5
  <2>7. u = <<a>> \o v
    BY <2>3, <2>5, <2>6, SeqEqual
  <2>. QED BY <2>7 DEF a, u, v
<1>5. s <= n => s \in 1..Len(w)
  BY <1>1
<1>. QED BY <1>2, <1>3, <1>4, <1>5

(* What is at hand at byte s: the answer begun, and the bytes up to n. *)
AtHand(d, w, s, n) == Begun(d, w, s) \o BytesOf(d, w, s, n)

LEMMA OneMore ==
    \A u \in Seq(Byte), a \in Byte :
        /\ u \o <<a>> \in Seq(Byte) /\ Len(u \o <<a>>) = Len(u) + 1
        /\ (u \o <<a>>)[Len(u) + 1] = a /\ \A i \in 1..Len(u) : (u \o <<a>>)[i] = u[i]
OBVIOUS

LEMMA AnswerGrows ==
    ASSUME NothingHides, NEW d \in Devices, NEW w, Chained(d, w),
           NEW n \in 0..Len(w), NEW s \in 1..n
    PROVE  LET A == Answer[d][w[s][1]] IN
             /\ w[s][2] < Len(A) => AtHand(d, w, s, n) = AtHand(d, w, s + 1, n)
             /\ w[s][2] = Len(A) => AtHand(d, w, s, n) = A \o AtHand(d, w, s + 1, n)
<1> DEFINE A == Answer[d][w[s][1]]
           k == w[s][2]
           v == BytesOf(d, w, s + 1, n)
           a == A[k]
<1>1. Len(w) \in Nat /\ n \in Nat /\ s \in Nat /\ s \in 1..Len(w) /\ s \in 1..(n + 1)
      /\ s + 1 \in 1..(n + 1)
  BY DEF Chained
<1>2. w[s][1] \in Listed /\ k \in 1..Len(A)
  BY <1>1 DEF Chained
<1>3. A \in Seq(Byte) /\ Len(A) \in Nat
  BY <1>2, AnswersAreFrames
<1>4. v \in Seq(Byte) /\ a \in Byte /\ BytesOf(d, w, s, n) = <<a>> \o v
  <2>1. BytesOf(d, w, s + 1, n) \in Seq(Byte)
    BY <1>1, BytesAreBytes
  <2>2. s <= n
    BY <1>1
  <2>3. /\ Answer[d][w[s][1]][w[s][2]] \in Byte
        /\ BytesOf(d, w, s, n) = <<Answer[d][w[s][1]][w[s][2]]>> \o BytesOf(d, w, s + 1, n)
    BY <1>1, <2>2, BytesAreBytes
  <2>. QED BY <2>1, <2>3
<1>5. Begun(d, w, s) = SubSeq(A, 1, k - 1)
  BY <1>1 DEF Begun
<1>6. SubSeq(A, 1, k - 1) \in Seq(Byte) /\ Begun(d, w, s + 1) \in Seq(Byte)
  <2>1. Begun(d, w, s) \in Seq(Byte) /\ Begun(d, w, s + 1) \in Seq(Byte)
    <3>1. s \in Nat /\ s + 1 \in Nat
      BY <1>1
    <3>. QED BY <3>1, BegunStalls
  <2>. QED BY <1>5, <2>1
<1>7. SubSeq(A, 1, k) = SubSeq(A, 1, k - 1) \o <<a>>
  <2> HIDE DEF A
  <2>1. /\ SubSeq(A, 1, k) \in Seq(Byte) /\ Len(SubSeq(A, 1, k)) = k
        /\ \A i \in 1..k : SubSeq(A, 1, k)[i] = A[i]
    BY <1>2, <1>3
  <2>2. /\ Len(SubSeq(A, 1, k - 1)) = k - 1
        /\ \A i \in 1..(k - 1) : SubSeq(A, 1, k - 1)[i] = A[i]
    BY <1>2, <1>3
  <2> DEFINE u == SubSeq(A, 1, k - 1)
  <2> HIDE DEF u
  <2>3. u \in Seq(Byte) /\ Len(u) = k - 1 /\ \A i \in 1..(k - 1) : u[i] = A[i]
    BY <1>6, <2>2 DEF u
  <2>4. /\ u \o <<a>> \in Seq(Byte) /\ Len(u \o <<a>>) = k /\ (u \o <<a>>)[k] = a
        /\ \A i \in 1..(k - 1) : (u \o <<a>>)[i] = A[i]
    <3>1. /\ u \o <<a>> \in Seq(Byte) /\ Len(u \o <<a>>) = Len(u) + 1
          /\ (u \o <<a>>)[Len(u) + 1] = a /\ \A i \in 1..Len(u) : (u \o <<a>>)[i] = u[i]
      BY <1>4, <2>3, OneMore
    <3>2. Len(u) + 1 = k
      BY <1>2, <1>3, <2>3
    <3>. QED BY <2>3, <3>1, <3>2
  <2>5. \A i \in 1..k : SubSeq(A, 1, k)[i] = (u \o <<a>>)[i]
    BY <1>2, <1>3, <2>1, <2>4
  <2>6. SubSeq(A, 1, k) = u \o <<a>>
    BY <2>1, <2>4, <2>5, SeqEqual
  <2>. QED BY <2>6 DEF u
<1>8. AtHand(d, w, s, n) = SubSeq(A, 1, k) \o v
  <2> DEFINE u == SubSeq(A, 1, k - 1)
  <2>1. u \o (<<a>> \o v) = (u \o <<a>>) \o v
    <3>1. u \in Seq(Byte) /\ <<a>> \in Seq(Byte) /\ v \in Seq(Byte)
      BY <1>4, <1>6
    <3> HIDE DEF u, v, a
    <3>. QED BY <3>1, ConcatAssociative
  <2>. QED BY <1>4, <1>5, <1>7, <2>1 DEF AtHand
<1>9. ASSUME k < Len(A) PROVE Begun(d, w, s + 1) = SubSeq(A, 1, k)
  <2>1. s < Len(w) /\ w[s + 1] = <<w[s][1], k + 1>>
    BY <1>1, <1>9 DEF Chained
  <2>2. s + 1 \in 1..Len(w) /\ k + 1 - 1 = k
    BY <1>1, <1>2, <1>3, <2>1
  <2>3. Begun(d, w, s + 1) = SubSeq(Answer[d][w[s + 1][1]], 1, w[s + 1][2] - 1)
    BY <2>2 DEF Begun
  <2>4. w[s + 1][1] = w[s][1] /\ w[s + 1][2] = k + 1
    BY <2>1
  <2>5. w[s + 1][2] - 1 = k
    BY <1>2, <1>3, <2>4
  <2>. QED BY <2>3, <2>4, <2>5, Zenon
<1>10. ASSUME k = Len(A) PROVE Begun(d, w, s + 1) = <<>>
  <2>1. CASE s + 1 \notin 1..Len(w)
    BY <2>1 DEF Begun
  <2>2. CASE s + 1 \in 1..Len(w)
    <3>1. s < Len(w)
      BY <1>1, <2>2
    <3>2. w[s + 1][2] = 1
      BY <1>1, <1>10, <3>1 DEF Chained
    <3>3. Begun(d, w, s + 1) = SubSeq(Answer[d][w[s + 1][1]], 1, 0)
      BY <2>2, <3>2 DEF Begun
    <3>4. Answer[d][w[s + 1][1]] \in Seq(Byte)
      BY <2>2, AnswersAreFrames DEF Chained
    <3>. QED BY <3>3, <3>4
  <2>. QED BY <2>1, <2>2
<1>11. k < Len(A) => AtHand(d, w, s, n) = AtHand(d, w, s + 1, n)
  BY <1>8, <1>9 DEF AtHand
<1>12. ASSUME k = Len(A) PROVE AtHand(d, w, s, n) = A \o AtHand(d, w, s + 1, n)
  <2>1. SubSeq(A, 1, k) = A
    BY <1>3, <1>12
  <2>2. <<>> \o v = v
    BY <1>4
  <2>. QED BY <1>8, <1>10, <1>12, <2>1, <2>2 DEF AtHand
<1>. QED BY <1>11, <1>12

LEMMA PairParts == ASSUME NEW p, NEW q PROVE <<p, q>>[1] = p /\ <<p, q>>[2] = q
OBVIOUS

LEMMA RangeOfCons ==
    ASSUME NEW A \in Frames, NEW q \in Seq(Frames)
    PROVE  Range(<<A>> \o q) = {A} \cup Range(q)
<1>1. <<A>> \o q \in Seq(Frames) /\ <<A>> \o q # <<>> /\ Head(<<A>> \o q) = A
  OBVIOUS
<1>2. Tail(<<A>> \o q) = q
  <2>1. Tail(<<A>> \o q) \in Seq(Frames) /\ Len(Tail(<<A>> \o q)) = Len(q)
    OBVIOUS
  <2>2. \A i \in 1..Len(q) : Tail(<<A>> \o q)[i] = q[i]
    OBVIOUS
  <2>. QED BY <2>1, <2>2, SeqEqual
<1>. QED BY <1>1, <1>2, RangeOfTail

LEMMA CompletedHere ==
    ASSUME NEW d \in Devices, NEW w, Chained(d, w), NEW n \in 0..Len(w), NEW s \in 1..n
    PROVE  LET A == Answer[d][w[s][1]] IN
             /\ w[s][2] < Len(A) => Completed(d, w, s, n) = Completed(d, w, s + 1, n)
             /\ w[s][2] = Len(A) => Completed(d, w, s, n) = {A} \cup Completed(d, w, s + 1, n)
<1> DEFINE A == Answer[d][w[s][1]]
<1>1. s \in s..n /\ (s + 1)..n \subseteq s..n /\ s..n = {s} \cup ((s + 1)..n) /\ s \in 1..Len(w)
  BY DEF Chained
<1>2. w[s][1] \in Listed /\ w \in Seq(Listed \X Nat) /\ w[s][2] \in Nat /\ Len(A) \in Nat
  BY <1>1, AnswersInFrames DEF Chained
<1>3. w[s] = <<w[s][1], w[s][2]>>
  BY <1>1, <1>2
<1>4. \A c \in Listed : w[s] = <<c, Len(Answer[d][c])>> <=> c = w[s][1] /\ w[s][2] = Len(A)
  BY <1>3
<1>5. ASSUME NEW c \in Listed
      PROVE  (\E i \in s..n : w[i] = <<c, Len(Answer[d][c])>>)
               <=> \/ c = w[s][1] /\ w[s][2] = Len(A)
                   \/ \E i \in (s + 1)..n : w[i] = <<c, Len(Answer[d][c])>>
  BY <1>1, <1>4
<1>6. ASSUME w[s][2] < Len(A) PROVE Completed(d, w, s, n) = Completed(d, w, s + 1, n)
  <2>1. w[s][2] # Len(A)
    BY <1>2, <1>6
  <2>. QED BY <1>5, <2>1 DEF Completed
<1>7. ASSUME w[s][2] = Len(A) PROVE Completed(d, w, s, n) = {A} \cup Completed(d, w, s + 1, n)
  <2> DEFINE Later == {c \in Listed : \E i \in (s + 1)..n : w[i] = <<c, Len(Answer[d][c])>>}
  <2>1. {c \in Listed : \E i \in s..n : w[i] = <<c, Len(Answer[d][c])>>} = {w[s][1]} \cup Later
    BY <1>2, <1>5, <1>7
  <2>. QED BY <2>1 DEF Completed
<1>. QED BY <1>6, <1>7

(* Fed with a stream of whole answers, in chunks of any length, feed cuts out the answers that   *)
(* have become complete, and keeps what has been begun.                                         *)
LEMMA ChainIsCut ==
    ASSUME NothingHides, NEW d \in Devices, NEW w, Chained(d, w), NEW n \in 0..Len(w)
    PROVE  \A s \in 1..(n + 1) :
             /\ Cut[AtHand(d, w, s, n)][1] \in Seq(Frames)
             /\ Range(Cut[AtHand(d, w, s, n)][1]) = Completed(d, w, s, n)
             /\ Cut[AtHand(d, w, s, n)][2] = Begun(d, w, n + 1)
<1> DEFINE Good(s) == /\ Cut[AtHand(d, w, s, n)][1] \in Seq(Frames)
                      /\ Range(Cut[AtHand(d, w, s, n)][1]) = Completed(d, w, s, n)
                      /\ Cut[AtHand(d, w, s, n)][2] = Begun(d, w, n + 1)
           Bad == {s \in 1..(n + 1) : ~Good(s)}
           T == {n + 1 - s : s \in Bad}
<1>1. n \in Nat /\ Len(w) \in Nat
  BY DEF Chained
<1> SUFFICES ASSUME Bad # {} PROVE FALSE
    OBVIOUS
<1> HIDE DEF Good
<1>2. T \in SUBSET Nat /\ T # {}
  BY <1>1
<1>3. PICK m \in T : \A j \in T : m <= j
  BY <1>2, Least
<1>4. PICK s \in Bad : m = n + 1 - s
  OBVIOUS
<1>7. ~Good(s) /\ s \in 1..(n + 1)
  OBVIOUS
<1>5. CASE s = n + 1
  <2>1. BytesOf(d, w, s, n) = <<>>
    <3>1. BytesOf(d, w, s, n) \in Seq(Byte) /\ Len(BytesOf(d, w, s, n)) = n + 1 - s
      BY <1>7, BytesAreBytes
    <3>2. n + 1 - s = 0
      BY <1>1, <1>5
    <3>. QED BY <3>1, <3>2, EmptySeq
  <2>2. Begun(d, w, s) \in Seq(Byte) /\ Stalled(Begun(d, w, s))
    BY <1>1, <1>5, BegunStalls
  <2>3. AtHand(d, w, s, n) = Begun(d, w, s)
    BY <2>1, <2>2 DEF AtHand
  <2>4. Cut[AtHand(d, w, s, n)] = <<<<>>, Begun(d, w, n + 1)>>
    BY <1>5, <2>2, <2>3, CutOfStalled
  <2>5. s..n = {}
    BY <1>1, <1>5
  <2>6. Range(<<>>) = {} /\ Completed(d, w, s, n) = {} /\ <<>> \in Seq(Frames)
    BY <2>5 DEF Range, Completed
  <2>7. Good(s)
    BY <2>4, <2>6 DEF Good
  <2>. QED BY <1>7, <2>7
<1>6. CASE s # n + 1
  <2>1. s \in 1..n /\ s + 1 \in 1..(n + 1)
    BY <1>1, <1>6
  <2>2. n + 1 - (s + 1) < m /\ n + 1 - (s + 1) \in Nat /\ m \in Nat
    BY <1>1, <1>4, <2>1
  <2>3. Good(s + 1)
    <3>1. s + 1 \in Bad => n + 1 - (s + 1) \in T
      OBVIOUS
    <3>2. n + 1 - (s + 1) \notin T
      <4>1. \A j \in T : m <= j
        BY <1>3
      <4> HIDE DEF T
      <4>. QED BY <2>2, <4>1
    <3>. QED BY <2>1, <3>1, <3>2
  <2> DEFINE A == Answer[d][w[s][1]]
             y == AtHand(d, w, s + 1, n)
  <2>4. w[s][2] \in 1..Len(A) /\ A \in Frames /\ Len(A) \in Nat
    BY <1>1, <2>1, AnswersInFrames DEF Chained
  <2>5. CASE w[s][2] < Len(A)
    <3>1. AtHand(d, w, s, n) = y /\ Completed(d, w, s, n) = Completed(d, w, s + 1, n)
      BY <2>1, <2>5, AnswerGrows, CompletedHere
    <3>2. Good(s)
      BY <2>3, <3>1 DEF Good
    <3>. QED BY <1>7, <3>2
  <2>6. CASE w[s][2] = Len(A)
    <3>1. AtHand(d, w, s, n) = A \o y /\ Completed(d, w, s, n) = {A} \cup Completed(d, w, s + 1, n)
      BY <2>1, <2>6, AnswerGrows, CompletedHere
    <3>2. y \in Seq(Byte)
      <4>1. BytesOf(d, w, s + 1, n) \in Seq(Byte)
        BY <2>1, BytesAreBytes
      <4>2. s + 1 \in Nat
        BY <2>1
      <4>3. Begun(d, w, s + 1) \in Seq(Byte)
        BY <4>2, BegunStalls
      <4>. QED BY <4>1, <4>3 DEF AtHand
    <3> HIDE DEF A, y
    <3>3. Cut[A \o y] = <<<<A>> \o Cut[y][1], Cut[y][2]>>
      BY <2>4, <3>2, CutAfterFrame
    <3>4. /\ Cut[y][1] \in Seq(Frames) /\ Range(Cut[y][1]) = Completed(d, w, s + 1, n)
          /\ Cut[y][2] = Begun(d, w, n + 1)
      BY <2>3 DEF Good, y
    <3>5. /\ <<A>> \o Cut[y][1] \in Seq(Frames)
          /\ Range(<<A>> \o Cut[y][1]) = {A} \cup Range(Cut[y][1])
      BY <2>4, <3>4, RangeOfCons
    <3>6. Cut[AtHand(d, w, s, n)][1] = <<A>> \o Cut[y][1] /\ Cut[AtHand(d, w, s, n)][2] = Cut[y][2]
      <4>1. Cut[AtHand(d, w, s, n)] = <<<<A>> \o Cut[y][1], Cut[y][2]>>
        BY <3>1, <3>3, Zenon
      <4>2. /\ <<<<A>> \o Cut[y][1], Cut[y][2]>>[1] = <<A>> \o Cut[y][1]
            /\ <<<<A>> \o Cut[y][1], Cut[y][2]>>[2] = Cut[y][2]
        BY PairParts, Zenon
      <4>. QED BY <4>1, <4>2, Zenon
    <3>7. Good(s)
      BY <3>1, <3>4, <3>5, <3>6 DEF Good
    <3>. QED BY <1>7, <3>7
  <2>. QED BY <2>4, <2>5, <2>6
<1>. QED BY <1>5, <1>6

(* What the decoder holds and what is on the way, while nothing is lost, make up whole answers. *)
Clean ==
    /\ whole \subseteq Listed
    /\ alive /\ hurt = {} => Chained(Device, wire) /\ buffer = Begun(Device, wire, 1)

Lossless == Clean /\ NothingElseIsCut

LEMMA ChainShrinks ==
    ASSUME NEW d \in Devices, NEW w, Chained(d, w), NEW n \in 1..Len(w)
    PROVE  /\ Chained(d, From(w, n + 1))
           /\ Begun(d, From(w, n + 1), 1) = Begun(d, w, n + 1)
<1> DEFINE v == From(w, n + 1)
<1>1. w \in Seq(Listed \X Nat) /\ Len(w) \in Nat /\ n \in Nat
  BY DEF Chained
<1>2. v \in Seq(Listed \X Nat) /\ Len(v) = Len(w) - n /\ \A i \in 1..Len(v) : v[i] = w[i + n]
  BY <1>1, FromIsSeq
<1> HIDE DEF v
<1>3. ASSUME NEW i \in 1..Len(v)
      PROVE  LET c == v[i][1]
                 k == v[i][2] IN
               /\ c \in Listed /\ k \in 1..Len(Answer[d][c])
               /\ k < Len(Answer[d][c]) => i < Len(v) /\ v[i + 1] = <<c, k + 1>>
               /\ k = Len(Answer[d][c]) /\ i < Len(v) => v[i + 1][2] = 1
  <2>1. Len(v) = Len(w) - n /\ Len(v) \in Nat
    BY <1>1, <1>2
  <2>2. i + n \in 1..Len(w) /\ (i + n < Len(w) <=> i < Len(v))
    BY <1>1, <2>1
  <2>3. v[i] = w[i + n]
    BY <1>2
  <2>4. i < Len(v) => v[i + 1] = w[i + n + 1]
    <3>1. i < Len(v) => i + 1 \in 1..Len(v) /\ i + 1 + n = i + n + 1
      BY <1>1, <2>1
    <3>. QED BY <1>2, <3>1
  <2>. QED BY <2>2, <2>3, <2>4 DEF Chained
<1>4. Chained(d, v)
  BY <1>2, <1>3, Zenon DEF Chained
<1>5. Begun(d, v, 1) = Begun(d, w, n + 1)
  <2>1. CASE n = Len(w)
    <3>1. 1 \notin 1..Len(v) /\ n + 1 \notin 1..Len(w)
      BY <1>1, <1>2, <2>1
    <3>. QED BY <3>1 DEF Begun
  <2>2. CASE n # Len(w)
    <3>1. 1 \in 1..Len(v) /\ n + 1 \in 1..Len(w) /\ 1 + n = n + 1
      BY <1>1, <1>2, <2>2
    <3>2. v[1] = w[n + 1]
      BY <1>2, <3>1
    <3>. QED BY <3>1, <3>2 DEF Begun
  <2>. QED BY <2>1, <2>2
<1>. QED BY <1>4, <1>5 DEF v

LEMMA ConcatIs ==
    ASSUME NEW S, NEW s \in Seq(S), NEW t \in Seq(S)
    PROVE  /\ s \o t \in Seq(S) /\ Len(s \o t) = Len(s) + Len(t)
           /\ \A i \in 1..Len(s) : (s \o t)[i] = s[i]
           /\ \A i \in 1..Len(t) : (s \o t)[Len(s) + i] = t[i]
OBVIOUS

LEMMA ChainGrows ==
    ASSUME NEW d \in Devices, NEW w, Chained(d, w), NEW c \in Listed, NEW v,
           v = w \o [i \in 1..Len(Answer[d][c]) |-> <<c, i>>]
    PROVE  Chained(d, v) /\ Begun(d, v, 1) = Begun(d, w, 1)
<1> DEFINE A == Answer[d][c]
           b == [i \in 1..Len(A) |-> <<c, i>>]
<1>1. A \in Seq(Byte) /\ Len(A) \in Nat /\ Len(A) >= 1
  BY AnswersAreFrames DEF Shortest
<1>2. w \in Seq(Listed \X Nat) /\ Len(w) \in Nat
  BY DEF Chained
<1>3. b \in Seq(Listed \X Nat) /\ Len(b) = Len(A) /\ \A i \in 1..Len(A) : b[i] = <<c, i>>
  BY <1>1
<1>4. v = w \o b
  OBVIOUS
<1> HIDE DEF A, b
<1>5. /\ v \in Seq(Listed \X Nat) /\ Len(v) = Len(w) + Len(A)
      /\ \A i \in 1..Len(w) : v[i] = w[i]
      /\ \A i \in 1..Len(A) : v[Len(w) + i] = b[i]
  <2>1. /\ w \o b \in Seq(Listed \X Nat) /\ Len(w \o b) = Len(w) + Len(b)
        /\ \A i \in 1..Len(w) : (w \o b)[i] = w[i]
        /\ \A i \in 1..Len(b) : (w \o b)[Len(w) + i] = b[i]
    <3>1. b \in Seq(Listed \X Nat)
      BY <1>3
    <3>. QED BY <1>2, <3>1, ConcatIs
  <2>2. Len(b) = Len(A)
    BY <1>3
  <2>. QED BY <1>4, <2>1, <2>2
<1>6. \A i \in 1..Len(A) : v[Len(w) + i] = <<c, i>>
  BY <1>3, <1>5
<1>7. ASSUME NEW i \in 1..Len(v)
      PROVE  LET e == v[i][1]
                 k == v[i][2] IN
               /\ e \in Listed /\ k \in 1..Len(Answer[d][e])
               /\ k < Len(Answer[d][e]) => i < Len(v) /\ v[i + 1] = <<e, k + 1>>
               /\ k = Len(Answer[d][e]) /\ i < Len(v) => v[i + 1][2] = 1
  <2>1. CASE i < Len(w)
    <3>1. i \in 1..Len(w) /\ i + 1 \in 1..Len(w) /\ i < Len(v)
      BY <1>1, <1>2, <1>5, <2>1
    <3>2. v[i] = w[i] /\ v[i + 1] = w[i + 1]
      BY <1>5, <3>1
    <3>. QED BY <2>1, <3>1, <3>2 DEF Chained
  <2>2. CASE i = Len(w)
    <3>1. i \in 1..Len(w) /\ ~(i < Len(w)) /\ v[i] = w[i]
      BY <1>2, <1>5, <2>2
    <3>2. w[i][1] \in Listed /\ w[i][2] \in 1..Len(Answer[d][w[i][1]])
          /\ ~(w[i][2] < Len(Answer[d][w[i][1]]))
      BY <3>1 DEF Chained
    <3>3. v[i + 1] = <<c, 1>>
      <4>1. 1 \in 1..Len(A)
        BY <1>1
      <4>. QED BY <1>6, <2>2, <4>1
    <3>. QED BY <3>1, <3>2, <3>3
  <2>3. CASE i > Len(w)
    <3> DEFINE j == i - Len(w)
    <3>1. j \in 1..Len(A) /\ i = Len(w) + j /\ (i < Len(v) <=> j < Len(A))
      BY <1>1, <1>2, <1>5, <2>3
    <3>2. v[i] = <<c, j>>
      BY <1>6, <3>1
    <3>3. j < Len(A) => v[i + 1] = <<c, j + 1>>
      <4>1. j < Len(A) => j + 1 \in 1..Len(A) /\ i + 1 = Len(w) + (j + 1)
        BY <1>1, <1>2, <3>1
      <4> HIDE DEF j
      <4>. QED BY <1>6, <4>1
    <3> HIDE DEF j
    <3>4. v[i][1] = c /\ v[i][2] = j
      <4>1. <<c, j>>[1] = c /\ <<c, j>>[2] = j
        OBVIOUS
      <4>. QED BY <3>2, <4>1, Zenon
    <3>6. Len(Answer[d][c]) = Len(A)
      BY DEF A
    <3>5. ~(j = Len(A) /\ i < Len(v))
      BY <1>1, <3>1
    <3>7. /\ c \in Listed /\ j \in 1..Len(Answer[d][c])
          /\ j < Len(Answer[d][c]) => i < Len(v) /\ v[i + 1] = <<c, j + 1>>
          /\ j = Len(Answer[d][c]) /\ i < Len(v) => v[i + 1][2] = 1
      BY <3>1, <3>3, <3>5, <3>6
    <3>. QED BY <3>4, <3>7, Zenon
  <2>4. i < Len(w) \/ i = Len(w) \/ i > Len(w)
    BY <1>1, <1>2, <1>5
  <2>. QED BY <2>1, <2>2, <2>3, <2>4, Zenon
<1>8. Chained(d, v)
  BY <1>5, <1>7, Zenon DEF Chained
<1>9. Begun(d, v, 1) = Begun(d, w, 1)
  <2>1. CASE Len(w) = 0
    <3>1. 1 \in 1..Len(v) /\ 1 \notin 1..Len(w) /\ Len(w) + 1 = 1 /\ 1 \in 1..Len(A)
      BY <1>1, <1>2, <1>5, <2>1
    <3>2. v[1] = <<c, 1>>
      BY <1>6, <3>1
    <3>3. Begun(d, v, 1) = SubSeq(A, 1, 0)
      BY <3>1, <3>2 DEF Begun, A
    <3>. QED BY <1>1, <3>1, <3>3 DEF Begun
  <2>2. CASE Len(w) # 0
    <3>1. 1 \in 1..Len(v) /\ 1 \in 1..Len(w)
      BY <1>1, <1>2, <1>5, <2>2
    <3>2. v[1] = w[1]
      BY <1>5, <3>1
    <3>. QED BY <3>1, <3>2 DEF Begun
  <2>. QED BY <2>1, <2>2
<1>. QED BY <1>8, <1>9

LEMMA ChainDelivered ==
    ASSUME NothingHides, Typed, Lossless, NEW n \in 1..Len(wire), Deliver(n), hurt = {}
    PROVE  /\ Chained(Device, wire') /\ buffer' = Begun(Device, wire', 1)
           /\ got' = {Answer[Device][c] : c \in whole'}
<1> DEFINE d == Device
           Now == {c \in Listed : \E i \in 1..n : wire[i] = <<c, Len(Answer[d][c])>>}
<1>1. /\ alive /\ wire' = From(wire, n + 1)
      /\ whole' = whole \cup Now
  BY DEF Deliver
<1>2. stage \in Session /\ d \in Devices
  BY <1>1, Current DEF Typed, Streams
<1>3. /\ Chained(d, wire) /\ buffer = Begun(d, wire, 1)
      /\ got = {Answer[d][c] : c \in whole}
  BY <1>1, <1>2 DEF Lossless, Clean, NothingElseIsCut
<1>4. n \in 0..Len(wire) /\ 1 \in 1..(n + 1) /\ n \in Nat /\ n + 1 - 1 = n /\ Len(wire) \in Nat
  BY <1>3 DEF Chained
<1> HIDE DEF d
<1>5. Chunk(n) = BytesOf(d, wire, 1, n)
  <2>1. ASSUME NEW i \in 1..n PROVE 1 - 1 + i = i
    BY <1>4
  <2>. QED BY <1>4, <2>1 DEF Chunk, BytesOf, d
<1>6. Feed(buffer, Chunk(n)) = Cut[AtHand(d, wire, 1, n)]
  BY <1>3, <1>5 DEF Feed, AtHand
<1>7. /\ Range(Cut[AtHand(d, wire, 1, n)][1]) = Completed(d, wire, 1, n)
      /\ Cut[AtHand(d, wire, 1, n)][2] = Begun(d, wire, n + 1)
  BY <1>2, <1>3, <1>4, ChainIsCut
<1>8. /\ buffer' = Feed(buffer, Chunk(n))[2]
      /\ got' = got \cup Range(Feed(buffer, Chunk(n))[1])
  BY Delivered
<1>9. Chained(d, wire') /\ Begun(d, wire', 1) = Begun(d, wire, n + 1)
  BY <1>1, <1>2, <1>3, ChainShrinks
<1>10. got' = {Answer[d][c] : c \in whole} \cup {Answer[d][c] : c \in Now}
  BY <1>3, <1>6, <1>7, <1>8, Zenon DEF Completed
<1>. QED BY <1>1, <1>6, <1>7, <1>8, <1>9, <1>10 DEF d

LEMMA LosslessStep ==
    ASSUME NothingHides, Typed, Lossless, [Next]_vars
    PROVE  Lossless'
<1> USE DEF scanVars, linkVars, streamVars, sessionVars
<1>1. ASSUME UNCHANGED <<todo, alive, wire, buffer, hurt, whole, got>>,
             stage' \in Session => stage \in Session
      PROVE  Lossless'
  BY <1>1 DEF Lossless, Clean, NothingElseIsCut, Device
<1>2. ASSUME ~alive', stage' \notin Session, whole' = whole
      PROVE  Lossless'
  BY <1>2 DEF Lossless, Clean, NothingElseIsCut
<1>3. CASE Start \/ ScanDone \/ ScanEnds \/ \E d \in Devices : Advertises(d)
  <2>1. stage \in {"start", "scan"} /\ UNCHANGED <<alive, whole>>
    BY <1>3 DEF Start, ScanDone, ScanEnds, Query, Advertises
  <2>2. stage' \notin Session
    BY <1>3, <2>1 DEF Start, ScanDone, ScanEnds, Query, Advertises, Session
  <2>3. ~alive
    BY <2>1 DEF Typed, Streams, Session
  <2>. QED BY <1>2, <2>1, <2>2, <2>3
<1>4. CASE Fails \/ Expires \/ Succeeds \/ Collected \/ Finished \/ UNCHANGED vars
  BY <1>1, <1>4 DEF Fails, Expires, Succeeds, Ends, Collected, Finished, vars, Session
<1>5. CASE Connect \/ ConnectFails
  <2>1. /\ wire' = <<>> /\ buffer' = <<>> /\ whole' = {} /\ got' = {}
    BY <1>5 DEF Connect, ConnectFails, Fresh
  <2>2. Chained(Device, <<>>)' /\ Begun(Device, <<>>, 1)' = <<>>
    BY DEF Chained, Begun
  <2>. QED BY <2>1, <2>2 DEF Lossless, Clean, NothingElseIsCut
<1>6. CASE Close
  <2>1. ~alive' /\ stage' \notin Session /\ whole' = whole
    BY <1>6 DEF Close, Session
  <2>. QED BY <1>2, <2>1
<1>7. CASE LinkLost
  BY <1>7 DEF LinkLost, Lossless, Clean, NothingElseIsCut, Device
<1>8. CASE Send
  <2>1. UNCHANGED <<todo, alive, buffer, hurt, whole, got>> /\ stage = "ready"
    BY <1>8 DEF Send
  <2>2. Commands[next] \in Listed /\ Device \in Devices
    BY <1>8, ListedIsCommand, Current DEF Send, Session, Typed, More, IShape, Shape
  <2>3. CASE wire' = wire
    BY <1>1, <2>1, <2>3 DEF Session
  <2>4. CASE wire' = wire \o [i \in 1..Len(Answer[Device][Commands[next]])
                                 |-> <<Commands[next], i>>]
    <3>1. Chained(Device, wire)
            => Chained(Device, wire') /\ Begun(Device, wire', 1) = Begun(Device, wire, 1)
      BY <2>2, <2>4, ChainGrows
    <3>2. Clean'
      BY <2>1, <3>1 DEF Lossless, Clean, Device
    <3>3. NothingElseIsCut'
      BY <2>1 DEF Lossless, NothingElseIsCut, Device, Session
    <3>. QED BY <3>2, <3>3 DEF Lossless
  <2>. QED BY <1>8, <2>3, <2>4 DEF Send
<1>9. ASSUME NEW n \in 1..Len(wire), Deliver(n) PROVE Lossless'
  <2>1. UNCHANGED <<todo, alive, hurt, stage>>
    BY <1>9 DEF Deliver
  <2>2. whole' \subseteq Listed
    BY <1>9 DEF Deliver, Lossless, Clean
  <2>3. hurt = {} => /\ Chained(Device, wire') /\ buffer' = Begun(Device, wire', 1)
                     /\ got' = {Answer[Device][c] : c \in whole'}
    BY <1>9, ChainDelivered
  <2>. QED BY <2>1, <2>2, <2>3 DEF Lossless, Clean, NothingElseIsCut, Device
<1>10. ASSUME NEW n \in 1..Len(wire), Lose(n) PROVE Lossless'
  <2>1. whole' = whole /\ hurt' = hurt \cup {wire[i][1] : i \in 1..n}
    BY <1>10 DEF Lose
  <2>2. 1 \in 1..n
    BY DEF Typed, IShape, Lists
  <2>3. hurt' # {}
    BY <2>1, <2>2
  <2>. QED BY <2>1, <2>3 DEF Lossless, Clean, NothingElseIsCut
<1>. QED BY <1>3, <1>4, <1>5, <1>6, <1>7, <1>8, <1>9, <1>10 DEF Next

LEMMA LosslessAlways == ASSUME NothingHides PROVE Spec => []Lossless
<1>1. Init => Lossless
  BY DEF Init, Lossless, Clean, NothingElseIsCut, Session
<1>2. Typed /\ Lossless /\ [Next]_vars => Lossless'
  BY LosslessStep
<1>. QED BY <1>1, <1>2, TypedAlways, PTL DEF Spec

(* Between a battery and the reports nothing is made up and nothing goes missing unless the radio *)
(* loses it: as long as no chunk of a session is lost, feed cuts out of the notifications the     *)
(* answers that have arrived in full, and nothing else, in whatever chunks they come and for      *)
(* every payload that hides no frame of its own.                                                  *)
THEOREM LosslessStreams == ASSUME NothingHides PROVE Spec => []NothingElseIsCut
<1>1. Lossless => NothingElseIsCut
  BY DEF Lossless
<1>. QED BY <1>1, LosslessAlways, PTL

(* AnswerIsOwn without a hypothesis on the frames: in a session that has lost nothing, a value is *)
(* what that battery answered to that command, however late or split the answers arrive.          *)
THEOREM LosslessAnswersAreOwn ==
    ASSUME NothingHides PROVE Spec => [](hurt = {} => AnswerIsOwn)
<1> DEFINE Inv == hurt = {} => Owned
<1>1. Init => Inv
  BY DEF Init, Owned, Session
<1>2. Typed /\ Lossless /\ Inv /\ [Next]_vars => Inv'
  <2> SUFFICES ASSUME Typed, Lossless, Inv, [Next]_vars, hurt' = {} PROVE Owned'
      OBVIOUS
  <2>1. Lossless'
    BY LosslessStep
  <2>2. OwnFrames'
    BY <2>1 DEF Lossless, Clean, NothingElseIsCut, OwnFrames
  <2>3. CASE hurt = {}
    BY <2>2, <2>3, OwnedStep
  <2>4. CASE hurt # {}
    <3>1. Connect \/ ConnectFails
      <4> USE DEF scanVars, linkVars, streamVars, sessionVars
      <4>1. CASE UNCHANGED hurt
        BY <2>4, <4>1
      <4>2. ASSUME NEW n \in 1..Len(wire), Lose(n) PROVE FALSE
        BY <2>4, <4>2 DEF Lose
      <4>. QED BY <4>1, <4>2, Zenon
           DEF Next, vars, Start, ScanDone, ScanEnds, Query, Advertises, Send, Fails, Succeeds,
               Ends, Expires, Deliver, LinkLost, Collected, Close, Finished
    <3>. QED BY <3>1 DEF Connect, ConnectFails, Fresh, Owned, Session
  <2>. QED BY <2>3, <2>4
<1>3. Inv => (hurt = {} => AnswerIsOwn)
  BY DEF Owned, AnswerIsOwn
<1> HIDE DEF Inv
<1>. QED BY <1>1, <1>2, <1>3, LosslessAlways, TypedAlways, PTL DEF Spec

-----------------------------------------------------------------------------
(* The first k bytes of a lie in b behind its first p bytes. *)
Lies(a, k, b, p) == p + k <= Len(b) /\ \A j \in 1..k : b[p + j] = a[j]

(* A frame is one wherever its bytes lie. *)
LEMMA FrameMoves ==
    ASSUME NEW x \in Seq(Byte), NEW y \in Seq(Byte), NEW p \in Nat, NEW q \in Nat,
           p < Len(x), FrameAt(x, p + 1), q + x[p + 2] <= Len(y),
           \A j \in 1..x[p + 2] : y[q + j] = x[p + j]
    PROVE  FrameAt(y, q + 1)
<1> DEFINE n == x[p + 2]
<1>1. /\ Len(x) - (p + 1) + 1 >= 5 /\ x[p + 1] = StartByte /\ x[p + 1 + 2] = IdentifierByte
      /\ x[p + 1 + 1] >= 5 /\ Len(x) - (p + 1) + 1 >= x[p + 1 + 1]
      /\ Checksum(SubSeq(x, p + 1, p + 1 + x[p + 1 + 1] - 1)) = 0
  BY Zenon DEF FrameAt, Shortest
<1>2. p + 1 + 1 = p + 2 /\ p + 1 + 2 = p + 3 /\ Len(x) \in Nat /\ Len(y) \in Nat
  OBVIOUS
<1>3. p + 2 \in 1..Len(x)
  BY <1>1, <1>2
<1>4. n \in Nat /\ n >= 5 /\ p + n <= Len(x) /\ q + n <= Len(y)
  <2>1. n \in Nat
    BY <1>3, ByteIsNat, ElementOfSeq
  <2>2. q + n <= Len(y) /\ n >= 5 /\ Len(x) - (p + 1) + 1 >= n
    BY <1>1, <1>2
  <2> HIDE DEF n
  <2>. QED BY <1>2, <2>1, <2>2
<1>5. y[q + 1] = StartByte /\ y[q + 2] = n /\ y[q + 3] = IdentifierByte
  <2>1. 1 \in 1..n /\ 2 \in 1..n /\ 3 \in 1..n
    BY <1>4
  <2>. QED BY <1>1, <1>2, <2>1
<1>6. SubSeq(y, q + 1, q + n) = SubSeq(x, p + 1, p + n)
  <2>1. /\ SubSeq(x, p + 1, p + n) \in Seq(Byte) /\ Len(SubSeq(x, p + 1, p + n)) = n
        /\ SubSeq(y, q + 1, q + n) \in Seq(Byte) /\ Len(SubSeq(y, q + 1, q + n)) = n
    <3> HIDE DEF n
    <3>. QED BY <1>2, <1>4
  <2>2. ASSUME NEW j \in 1..n
        PROVE  SubSeq(y, q + 1, q + n)[j] = SubSeq(x, p + 1, p + n)[j]
    <3> HIDE DEF n
    <3>1. SubSeq(y, q + 1, q + n)[j] = y[q + j] /\ SubSeq(x, p + 1, p + n)[j] = x[p + j]
      BY <1>2, <1>4
    <3>2. y[q + j] = x[p + j]
      BY DEF n
    <3>. QED BY <3>1, <3>2
  <2>. QED BY <2>1, <2>2, SeqEqual
<1>7. q + 1 + 1 = q + 2 /\ q + 1 + 2 = q + 3 /\ q + 1 + n - 1 = q + n /\ p + 1 + n - 1 = p + n
  <2> HIDE DEF n
  <2>. QED BY <1>4
<1>8. Len(y) - (q + 1) + 1 >= Shortest /\ Len(y) - (q + 1) + 1 >= n /\ n >= Shortest
  BY <1>2, <1>4 DEF Shortest
<1> HIDE DEF n
<1>9. Checksum(SubSeq(y, q + 1, q + n)) = 0
  BY <1>1, <1>2, <1>6, <1>7, Zenon DEF n
<1>. QED BY <1>5, <1>7, <1>8, <1>9, Zenon DEF FrameAt

(* What is assumed of a set of frames: none hides a frame behind its first byte, and none ends in *)
(* bytes that another, or it itself, begins with. *)
Distinct(A) ==
    /\ A \subseteq Frames
    /\ \A a \in A : LaterFrames(a) = {}
    /\ \A f, a \in A : \A n \in 1..(Len(f) - 1) :
         n < Len(a) => ~\A j \in 1..n : f[Len(f) - n + j] = a[j]

FrameFacts(a) ==
    /\ a \in Seq(Byte) /\ Len(a) \in Nat /\ Len(a) >= 5 /\ FrameAt(a, 1)
    /\ a[1] = StartByte /\ a[2] = Len(a)

LEMMA FactsOfFrame == \A a \in Frames : FrameFacts(a)
<1> SUFFICES ASSUME NEW a \in Frames PROVE FrameFacts(a)
    OBVIOUS
<1>1. a \in Seq(Byte) /\ FrameAt(a, 1) /\ Len(a) = a[2]
  BY DEF Frames
<1>2. a[1] = StartByte /\ a[1 + 1] >= 5
  BY <1>1, Zenon DEF FrameAt, Shortest
<1>. QED BY <1>1, <1>2 DEF FrameFacts

(* Where such a frame lies in a buffer, a frame begins. *)
LEMMA FrameLies ==
    ASSUME NEW b \in Seq(Byte), NEW a \in Frames, NEW p \in Nat, Lies(a, Len(a), b, p)
    PROVE  FrameAt(b, p + 1)
<1>1. FrameFacts(a) /\ 0 + 2 = 2 /\ 0 + 1 = 1
  BY FactsOfFrame
<1>2. \A j \in 1..Len(a) : 0 + j = j
  OBVIOUS
<1>3. p + Len(a) <= Len(b) /\ \A j \in 1..Len(a) : b[p + j] = a[0 + j]
  BY <1>2 DEF Lies
<1>4. /\ a \in Seq(Byte) /\ 0 < Len(a) /\ FrameAt(a, 0 + 1) /\ 0 \in Nat /\ a[0 + 2] = Len(a)
  BY <1>1 DEF FrameFacts
<1>5. p + a[0 + 2] <= Len(b) /\ \A j \in 1..a[0 + 2] : b[p + j] = a[0 + j]
  BY <1>3, <1>4
<1>. QED BY <1>4, <1>5, FrameMoves

(* In what has arrived of such a frame at the end of a buffer, none begins. *)
LEMMA NoneLaterInPart ==
    ASSUME NEW b \in Seq(Byte), NEW a \in Frames, LaterFrames(a) = {},
           NEW p \in Nat, NEW k \in 1..(Len(a) - 1), Lies(a, k, b, p), p + k = Len(b),
           NEW i \in (p + 2)..Len(b)
    PROVE  ~FrameAt(b, i)
<1> SUFFICES ASSUME FrameAt(b, i) PROVE FALSE
    OBVIOUS
<1>1. FrameFacts(a) /\ k \in Nat /\ k < Len(a) /\ Len(b) \in Nat /\ i \in Nat
  BY FactsOfFrame DEF FrameFacts
<1> DEFINE s == i - 1
           q == i - 1 - p
<1>2. s \in Nat /\ q \in Nat /\ q >= 1 /\ s + 1 = i /\ s < Len(b) /\ p + q = s
  BY <1>1
<1>3. FrameAt(b, s + 1)
  BY <1>2
<1>4. Len(b) - (s + 1) + 1 >= 5 /\ Len(b) - (s + 1) + 1 >= b[s + 1 + 1]
  BY <1>3, Zenon DEF FrameAt, Shortest
<1> HIDE DEF s, q
<1>5. s + 1 + 1 = s + 2 /\ s + 2 \in 1..Len(b)
  BY <1>1, <1>2, <1>4
<1>6. b[s + 2] \in Nat /\ s + b[s + 2] <= Len(b)
  <2>1. b[s + 2] \in Nat
    BY <1>5, ByteIsNat, ElementOfSeq
  <2>2. Len(b) - (s + 1) + 1 >= b[s + 2]
    BY <1>4, <1>5
  <2>. QED BY <1>1, <1>2, <2>1, <2>2
<1>7. q + b[s + 2] <= Len(a)
  BY <1>1, <1>2, <1>6
<1>8. ASSUME NEW j \in 1..b[s + 2] PROVE a[q + j] = b[s + j]
  <2>1. q + j \in 1..k /\ p + (q + j) = s + j
    BY <1>1, <1>2, <1>6
  <2>. QED BY <2>1 DEF Lies
<1>9. FrameAt(a, q + 1)
  BY <1>1, <1>2, <1>3, <1>6, <1>7, <1>8, FrameMoves DEF FrameFacts
<1>10. q + 1 \in 2..Len(a)
  BY <1>1, <1>2, <1>6, <1>7, <1>4, <1>5
<1>. QED BY <1>9, <1>10 DEF LaterFrames

(* What has arrived of an answer: k bytes of it, the last of the buffer unless it is complete. *)
Occurs(a, k, b, p) ==
    /\ p \in Nat /\ k \in 0..Len(a) /\ Lies(a, k, b, p)
    /\ k < Len(a) => p + k = Len(b)

LEMMA OccursAfter ==
    ASSUME NEW b \in Seq(Byte), NEW a, NEW k, NEW p, Occurs(a, k, b, p),
           NEW m \in 1..Len(b), m <= p
    PROVE  Occurs(a, k, From(b, m + 1), p - m)
<1> DEFINE r == From(b, m + 1)
<1>1. Len(r) = Len(b) - m /\ Len(b) \in Nat /\ \A i \in 1..(Len(b) - m) : r[i] = b[i + m]
  <2>1. /\ Len(From(b, m + 1)) = Len(b) - m
        /\ \A i \in 1..(Len(b) - m) : From(b, m + 1)[i] = b[i + m]
    BY FromIsSeq
  <2>. QED BY <2>1
<1>2. p \in Nat /\ k \in Nat /\ m \in Nat /\ p - m \in Nat /\ p + k <= Len(b)
  BY DEF Occurs, Lies
<1> HIDE DEF r
<1>3. ASSUME NEW j \in 1..k PROVE r[p - m + j] = a[j]
  <2>1. p - m + j \in 1..(Len(b) - m) /\ p - m + j + m = p + j
    BY <1>1, <1>2
  <2>2. b[p + j] = a[j]
    BY DEF Occurs, Lies
  <2>. QED BY <1>1, <2>1, <2>2
<1>4. p - m + k <= Len(r) /\ (p + k = Len(b) => p - m + k = Len(r))
  BY <1>1, <1>2
<1>5. Occurs(a, k, r, p - m)
  BY <1>2, <1>3, <1>4 DEF Occurs, Lies
<1>. QED BY <1>5 DEF r

LEMMA TailIsFrom == \A b \in Seq(Byte) : Len(b) >= 2 => Tail(b) = From(b, 1 + 1)
<1> SUFFICES ASSUME NEW b \in Seq(Byte), Len(b) >= 2 PROVE Tail(b) = From(b, 1 + 1)
    OBVIOUS
<1>1. 1 \in 1..Len(b) /\ Len(b) \in Nat
  OBVIOUS
<1>2. /\ From(b, 1 + 1) \in Seq(Byte) /\ Len(From(b, 1 + 1)) = Len(b) - 1
      /\ \A i \in 1..(Len(b) - 1) : From(b, 1 + 1)[i] = b[i + 1]
  BY <1>1, FromIsSeq
<1>3. /\ Tail(b) \in Seq(Byte) /\ Len(Tail(b)) = Len(b) - 1
      /\ \A i \in 1..(Len(b) - 1) : Tail(b)[i] = b[i + 1]
  BY <1>1
<1>. QED BY <1>2, <1>3, SeqEqual

LEMMA LeastBelow ==
    ASSUME NEW T \in SUBSET Nat, T # {} PROVE Min(T) \in T /\ \A m \in T : ~(m < Min(T))
<1>1. PICK n \in T : \A m \in T : n <= m
  BY Least
<1>2. \A m \in T : n <= m /\ ~(m < n)
  BY <1>1
<1>3. \E k \in T : \A m \in T : k <= m
  BY <1>1
<1>4. Min(T) \in T /\ \A m \in T : Min(T) <= m
  BY <1>3, Zenon DEF Min
<1>5. \A m \in T : m \in Nat /\ Min(T) \in Nat
  BY <1>4
<1>6. ASSUME NEW m \in T PROVE ~(m < Min(T))
  <2>1. Min(T) <= m
    BY <1>4
  <2>. QED BY <1>5, <2>1
<1>. QED BY <1>4, <1>6

(* What is left of a buffer that begins with no frame still holds all that has arrived. *)
LEMMA SkippingKeeps ==
    ASSUME NEW b \in Seq(Byte), ~Stalled(b), ~FrameAt(b, 1),
           NEW a \in Frames, LaterFrames(a) = {}, NEW k \in Nat \ {0}, NEW p, Occurs(a, k, b, p)
    PROVE  \E q \in Nat : Occurs(a, k, Skipped(b), q)
<1>1. FrameFacts(a) /\ p \in Nat /\ k \in 1..Len(a) /\ p + k <= Len(b) /\ Len(b) \in Nat
      /\ (\A j \in 1..k : b[p + j] = a[j]) /\ (k < Len(a) => p + k = Len(b))
      /\ a \in Seq(Byte) /\ Len(a) \in Nat /\ Len(a) >= 5 /\ a[1] = StartByte /\ a[2] = Len(a)
  BY FactsOfFrame DEF Occurs, Lies, FrameFacts
<1>2. Len(b) >= 2
  BY <1>1 DEF Stalled
<1>3. b[p + 1] = StartByte /\ p + 1 \in 1..Len(b)
  <2>1. 1 \in 1..k
    BY <1>1
  <2>. QED BY <1>1, <2>1
<1>4. ASSUME NEW m \in 2..Len(b), m <= p + 1, Skipped(b) = From(b, m)
      PROVE  \E q \in Nat : Occurs(a, k, Skipped(b), q)
  <2>1. m - 1 \in 1..Len(b) /\ m - 1 <= p /\ m - 1 + 1 = m /\ p - (m - 1) \in Nat
    BY <1>1, <1>4
  <2>2. Occurs(a, k, From(b, m - 1 + 1), p - (m - 1))
    BY <2>1, OccursAfter
  <2>3. Occurs(a, k, Skipped(b), p - (m - 1))
    BY <1>4, <2>1, <2>2
  <2>. QED BY <2>1, <2>3
<1>5. ASSUME p = 0 PROVE b[1] = StartByte /\ (k >= 2 => b[2] = Len(a))
  <2>1. p + 1 = 1 /\ p + 2 = 2 /\ (k >= 2 => 2 \in 1..k)
    BY <1>1, <1>5
  <2>. QED BY <1>1, <1>3, <2>1
<1>6. k = Len(a) => FrameAt(b, p + 1)
  BY <1>1, FrameLies DEF Lies
<1>7. k = Len(a) => p # 0
  <2>1. 0 + 1 = 1
    OBVIOUS
  <2>. QED BY <1>6, <2>1
<1>8. CASE b[1] # StartByte
  <2>1. p + 1 \in StartsIn(b) /\ StartsIn(b) \in SUBSET Nat /\ 1 \notin StartsIn(b)
        /\ StartsIn(b) \subseteq 1..Len(b)
    BY <1>3, <1>8 DEF StartsIn
  <2>2. Skipped(b) = From(b, Min(StartsIn(b)))
    BY <1>8, <2>1, Zenon DEF Skipped
  <2>3. Min(StartsIn(b)) \in StartsIn(b) /\ ~(p + 1 < Min(StartsIn(b)))
    BY <2>1, LeastBelow
  <2> DEFINE m == Min(StartsIn(b))
  <2> HIDE DEF m
  <2>4. m \in 2..Len(b) /\ m <= p + 1
    BY <1>1, <2>1, <2>3 DEF m
  <2>. QED BY <1>4, <2>2, <2>4 DEF m
<1>9. CASE b[1] = StartByte /\ (b[2] < Shortest \/ LaterFrames(b) = {})
  <2>1. Skipped(b) = From(b, 1 + 1)
    BY <1>2, <1>9, TailIsFrom, Zenon DEF Skipped
  <2>2. ASSUME p = 0 PROVE FALSE
    <3>1. k < Len(a) /\ k = Len(b) /\ k >= 2
      BY <1>1, <1>2, <1>7, <2>2
    <3>2. b[2] = Len(a) /\ b[2] >= Shortest /\ ~(b[2] < Shortest) /\ Len(b) < b[2]
      BY <1>1, <1>5, <2>2, <3>1 DEF Shortest
    <3>. QED BY <1>9, <3>2 DEF Stalled
  <2>3. 1 + 1 \in 2..Len(b) /\ 1 + 1 <= p + 1
    BY <1>1, <1>2, <2>2
  <2>. QED BY <1>4, <2>1, <2>3
<1>10. CASE b[1] = StartByte /\ ~(b[2] < Shortest) /\ LaterFrames(b) # {}
  <2>1. LaterFrames(b) \in SUBSET Nat /\ LaterFrames(b) \subseteq 2..Len(b)
    BY <1>1 DEF LaterFrames
  <2>2. Skipped(b) = From(b, Min(LaterFrames(b)))
    BY <1>10, Zenon DEF Skipped
  <2> DEFINE m == Min(LaterFrames(b))
  <2>3. m \in LaterFrames(b) /\ \A i \in LaterFrames(b) : ~(i < m)
    BY <1>10, <2>1, LeastBelow
  <2> HIDE DEF m
  <2>4. m \in 2..Len(b) /\ FrameAt(b, m)
    BY <2>3 DEF LaterFrames
  <2>5. CASE k = Len(a)
    <3>1. p + 1 \in 2..Len(b)
      BY <1>1, <1>3, <1>7, <2>5
    <3>2. p + 1 \in LaterFrames(b)
      BY <1>6, <2>5, <3>1 DEF LaterFrames
    <3>3. m <= p + 1
      BY <1>1, <2>3, <2>4, <3>2
    <3>. QED BY <1>4, <2>2, <2>4, <3>3 DEF m
  <2>6. CASE k # Len(a)
    <3>1. k \in 1..(Len(a) - 1) /\ p + k = Len(b) /\ Lies(a, k, b, p)
      BY <1>1, <2>6 DEF Lies
    <3>2. m \notin (p + 2)..Len(b)
      BY <1>1, <2>4, <3>1, NoneLaterInPart
    <3>3. m <= p + 1
      BY <1>1, <2>4, <3>2
    <3>. QED BY <1>4, <2>2, <2>4, <3>3 DEF m
  <2>. QED BY <2>5, <2>6
<1>. QED BY <1>8, <1>9, <1>10

(* The bytes of a complete frame that feed waits with are not all there. *)
LEMMA StalledIsPart ==
    ASSUME NEW b \in Seq(Byte), Stalled(b), NEW a \in Frames, NEW k, NEW p, Occurs(a, k, b, p)
    PROVE  k < Len(a)
<1>1. FrameFacts(a) /\ p \in Nat /\ k \in 0..Len(a) /\ p + k <= Len(b) /\ Len(b) \in Nat
      /\ Len(a) \in Nat /\ Len(a) >= 5 /\ a[2] = Len(a) /\ Lies(a, k, b, p)
      /\ \A j \in 1..k : b[p + j] = a[j]
  BY FactsOfFrame DEF Occurs, Lies, FrameFacts
<1> SUFFICES ASSUME k = Len(a) PROVE FALSE
    BY <1>1
<1>2. FrameAt(b, p + 1) /\ Len(b) >= 5
  BY <1>1, FrameLies
<1>3. Len(b) < b[2] /\ LaterFrames(b) = {}
  BY <1>1, <1>2 DEF Stalled
<1>4. CASE p = 0
  <2>1. p + 2 = 2 /\ 2 \in 1..k
    BY <1>1, <1>4
  <2>2. b[2] = Len(a)
    BY <1>1, <2>1
  <2>. QED BY <1>1, <1>3, <1>4, <2>2
<1>5. CASE p # 0
  <2>1. p + 1 \in 2..Len(b)
    BY <1>1, <1>5
  <2>. QED BY <1>2, <1>3, <2>1 DEF LaterFrames
<1>. QED BY <1>4, <1>5

(* Nor does cutting a frame out touch what has arrived of another, or of the same once more. *)
LEMMA CuttingKeeps ==
    ASSUME NEW A, Distinct(A), NEW b \in Seq(Byte), FrameAt(b, 1), SubSeq(b, 1, b[2]) \in A,
           NEW a \in A, NEW k \in Nat \ {0}, NEW p, Occurs(a, k, b, p)
    PROVE  \/ k = Len(a) /\ SubSeq(b, 1, b[2]) = a
           \/ \E q \in Nat : Occurs(a, k, From(b, b[2] + 1), q)
<1> DEFINE n == b[2]
           f == SubSeq(b, 1, n)
<1>1. /\ n \in 5..Len(b) /\ f \in Frames /\ Len(f) = n /\ Len(b) \in Nat
      /\ f \in Seq(Byte) /\ \A i \in 1..n : f[i] = b[i]
  <2>1. b[2] \in 5..Len(b) /\ SubSeq(b, 1, b[2]) \in Frames /\ Len(SubSeq(b, 1, b[2])) = b[2]
    BY FirstFrame
  <2> HIDE DEF n
  <2>2. n \in 5..Len(b) /\ f \in Frames /\ Len(f) = n
    BY <2>1 DEF n
  <2>3. f \in Seq(Byte) /\ \A i \in 1..n : f[i] = b[i]
    BY <2>2
  <2>. QED BY <2>2, <2>3
<1>2. f \in A
  OBVIOUS
<1> HIDE DEF f, n
<1>3. a \in Frames /\ LaterFrames(f) = {}
  BY <1>2 DEF Distinct
<1>4. p \in Nat /\ k \in 1..Len(a) /\ p + k <= Len(b) /\ (k < Len(a) => p + k = Len(b))
      /\ Len(a) \in Nat /\ Len(a) >= 5 /\ a[2] = Len(a) /\ a \in Seq(Byte) /\ FrameAt(a, 1)
      /\ \A j \in 1..k : b[p + j] = a[j]
  BY <1>3, FactsOfFrame DEF Occurs, Lies, FrameFacts
<1>5. CASE p >= n
  <2>1. n \in 1..Len(b) /\ n <= p /\ p - n \in Nat
    BY <1>1, <1>4, <1>5
  <2>2. Occurs(a, k, From(b, n + 1), p - n)
    BY <2>1, OccursAfter
  <2>. QED BY <2>1, <2>2 DEF n
<1>6. CASE p = 0
  <2>1. k >= 5
    BY <1>1, <1>4, <1>6
  <2>2. \A j \in 1..k : b[j] = a[j]
    <3>1. \A j \in 1..k : p + j = j
      BY <1>4, <1>6
    <3>. QED BY <1>4, <3>1
  <2>3. n = Len(a)
    <3>1. 2 \in 1..k
      BY <1>4, <2>1
    <3>. QED BY <1>4, <2>2, <3>1 DEF n
  <2>4. k = Len(a)
    BY <1>1, <1>4, <1>6, <2>3
  <2>5. \A j \in 1..Len(a) : f[j] = a[j]
    BY <1>1, <2>2, <2>3, <2>4
  <2>6. f = a
    BY <1>1, <1>4, <2>3, <2>5, SeqEqual
  <2>. QED BY <2>4, <2>6 DEF f, n
<1>7. CASE p # 0 /\ p < n
  <2>1. CASE p + k <= n /\ k = Len(a)
    <3>1. 0 < Len(a) /\ FrameAt(a, 0 + 1) /\ 0 \in Nat /\ a[0 + 2] = Len(a)
      BY <1>4
    <3>2. p + a[0 + 2] <= Len(f) /\ \A j \in 1..a[0 + 2] : f[p + j] = a[0 + j]
      <4>1. ASSUME NEW j \in 1..k PROVE p + j \in 1..n /\ 0 + j = j
        BY <1>1, <1>4, <2>1
      <4>2. ASSUME NEW j \in 1..k PROVE f[p + j] = a[0 + j]
        BY <1>1, <1>4, <4>1
      <4>. QED BY <1>1, <2>1, <3>1, <4>2
    <3>3. FrameAt(f, p + 1)
      BY <1>1, <1>4, <3>1, <3>2, FrameMoves
    <3>4. p + 1 \in 2..Len(f)
      BY <1>1, <1>4, <1>7
    <3>. QED BY <1>3, <3>3, <3>4 DEF LaterFrames
  <2>2. CASE ~(p + k <= n /\ k = Len(a))
    <3> DEFINE m == n - p
    <3>1. m \in 1..(Len(f) - 1) /\ m < Len(a) /\ m <= k /\ Len(f) - m = p
      BY <1>1, <1>4, <1>7, <2>2
    <3>2. ASSUME NEW j \in 1..m PROVE f[Len(f) - m + j] = a[j]
      <4>1. p + j \in 1..n /\ j \in 1..k
        BY <1>1, <1>4, <1>7, <3>1
      <4>2. f[p + j] = a[j]
        BY <1>1, <1>4, <4>1
      <4>. QED BY <3>1, <4>2
    <3> HIDE DEF m
    <3>. QED BY <1>2, <3>1, <3>2 DEF Distinct
  <2>. QED BY <2>1, <2>2
<1>8. p >= n \/ p = 0 \/ (p # 0 /\ p < n)
  BY <1>1, <1>4
<1>. QED BY <1>5, <1>6, <1>7, <1>8

LEMMA CutsFrames == \A b \in Seq(Byte) : Cut[b][1] \in Seq(Frames)
<1> SUFFICES ASSUME NEW b \in Seq(Byte) PROVE Cut[b][1] \in Seq(Frames)
    OBVIOUS
<1>1. <<>> \in Seq(Byte) /\ b \o <<>> = b
  OBVIOUS
<1>2. Feed(b, <<>>)[1] \in Seq(Frames)
  BY <1>1, FeedCutsFrames
<1>. QED BY <1>1, <1>2 DEF Feed

(* What feed makes of what has arrived of an answer: it cuts it out, or keeps it. *)
Kept(a, k, cut) ==
    /\ k = Len(a) => a \in Range(cut[1])
    /\ k < Len(a) => \E q \in Nat : Occurs(a, k, cut[2], q)

(* As long as feed cuts out nothing but answers, it cuts out every one that is there. *)
LEMMA AnswersSurvive ==
    ASSUME NEW A, Distinct(A)
    PROVE  \A b \in Seq(Byte) : Range(Cut[b][1]) \subseteq A =>
             \A a \in A, k \in Nat \ {0}, p \in Nat : Occurs(a, k, b, p) => Kept(a, k, Cut[b])
<1> DEFINE Good(b) == Range(Cut[b][1]) \subseteq A =>
             \A a \in A, k \in Nat \ {0}, p \in Nat : Occurs(a, k, b, p) => Kept(a, k, Cut[b])
           Bad == {b \in Seq(Byte) : ~Good(b)}
           T == {Len(b) : b \in Bad}
<1> SUFFICES ASSUME Bad # {} PROVE FALSE
    OBVIOUS
<1> HIDE DEF Good
<1>1. T \in SUBSET Nat /\ T # {}
  <2>1. \A b \in Bad : b \in Seq(Byte)
    OBVIOUS
  <2>2. \A b \in Seq(Byte) : Len(b) \in Nat
    OBVIOUS
  <2> HIDE DEF Bad
  <2>. QED BY <2>1, <2>2
<1>2. PICK n \in T : \A j \in T : n <= j
  BY <1>1, Least
<1>3. PICK b \in Bad : Len(b) = n
  OBVIOUS
<1>4. ASSUME NEW r \in Seq(Byte), Len(r) < Len(b) PROVE Good(r)
  <2>1. r \in Bad => Len(r) \in T
    OBVIOUS
  <2>2. Len(r) \in Nat /\ Len(b) \in Nat
    OBVIOUS
  <2>3. r \notin Bad
    BY <1>2, <1>3, <1>4, <2>1, <2>2
  <2>. QED BY <2>3
<1>5. b \in Seq(Byte) /\ ~Good(b)
  OBVIOUS
<1>6. SUFFICES ASSUME Range(Cut[b][1]) \subseteq A, NEW a \in A, NEW k \in Nat \ {0}, NEW p \in Nat,
                      Occurs(a, k, b, p)
               PROVE  Kept(a, k, Cut[b])
  BY <1>5 DEF Good
<1>7. a \in Frames /\ LaterFrames(a) = {}
  BY DEF Distinct
<1>8. CASE Stalled(b)
  <2>1. Cut[b] = <<<<>>, b>>
    BY <1>5, <1>8, CutOfStalled
  <2>2. k < Len(a) /\ Len(a) \in Nat
    BY <1>5, <1>6, <1>7, <1>8, StalledIsPart, FactsOfFrame DEF FrameFacts
  <2>3. k # Len(a)
    BY <2>2
  <2>. QED BY <1>6, <2>1, <2>3 DEF Kept
<1>9. CASE ~Stalled(b) /\ FrameAt(b, 1)
  <2> DEFINE f == SubSeq(b, 1, b[2])
             r == From(b, b[2] + 1)
  <2>1. r \in Seq(Byte) /\ Len(r) < Len(b) /\ f \in Frames
    BY <1>5, <1>9, PassShrinks, FirstFrame DEF Rests
  <2>2. Cut[b] = <<<<f>> \o Cut[r][1], Cut[r][2]>>
    BY <1>5, <1>9, CutOfFrame
  <2>3. (k = Len(a) /\ f = a) \/ \E q \in Nat : Occurs(a, k, r, q)
    <3>1. f \in Range(Cut[b][1])
      <4>1. Cut[r][1] \in Seq(Frames)
        BY <2>1, CutsFrames
      <4> HIDE DEF f, r
      <4>. QED BY <2>1, <2>2, <4>1, RangeOfCons
    <3>2. f \in A
      BY <1>6, <3>1
    <3>. QED BY <1>5, <1>6, <1>9, <3>2, CuttingKeeps
  <2> HIDE DEF f, r
  <2>4. Range(Cut[b][1]) = {f} \cup Range(Cut[r][1]) /\ Cut[b][2] = Cut[r][2]
    BY <2>1, <2>2, CutsFrames, RangeOfCons
  <2>5. CASE k = Len(a) /\ f = a
    <3>1. ~(k < Len(a))
      BY <2>5, <1>7, FactsOfFrame DEF FrameFacts
    <3>. QED BY <2>4, <2>5, <3>1 DEF Kept
  <2>6. CASE \E q \in Nat : Occurs(a, k, r, q)
    <3>1. Good(r)
      BY <1>4, <2>1
    <3>2. Kept(a, k, Cut[r])
      BY <1>6, <2>4, <2>6, <3>1 DEF Good
    <3>. QED BY <2>4, <3>2 DEF Kept
  <2>. QED BY <2>3, <2>5, <2>6
<1>10. CASE ~Stalled(b) /\ ~FrameAt(b, 1)
  <2>1. Good(Skipped(b)) /\ Cut[b] = Cut[Skipped(b)]
    BY <1>4, <1>5, <1>10, PassShrinks, CutOfNoise DEF Rests
  <2>2. \E q \in Nat : Occurs(a, k, Skipped(b), q)
    BY <1>5, <1>6, <1>7, <1>10, SkippingKeeps
  <2>. QED BY <1>6, <2>1, <2>2 DEF Good
<1>. QED BY <1>8, <1>9, <1>10

(* The answers of a battery. *)
AnswersOf(d) == {Answer[d][c] : c \in Listed}

LEMMA AnswersDiffer ==
    ASSUME NothingHides, NothingOverlaps, NEW d \in Devices
    PROVE  Distinct(AnswersOf(d))
<1>1. AnswersOf(d) \subseteq Frames
  BY AnswersInFrames DEF AnswersOf
<1>2. \A a \in AnswersOf(d) : LaterFrames(a) = {}
  BY DEF AnswersOf, NothingHides
<1>3. ASSUME NEW f \in AnswersOf(d), NEW a \in AnswersOf(d), NEW n \in 1..(Len(f) - 1), n < Len(a)
      PROVE  ~\A j \in 1..n : f[Len(f) - n + j] = a[j]
  <2>1. PICK c \in Listed : f = Answer[d][c]
    BY DEF AnswersOf
  <2>2. PICK e \in Listed : a = Answer[d][e]
    BY DEF AnswersOf
  <2>. QED BY <1>3, <2>1, <2>2 DEF NothingOverlaps
<1>. QED BY <1>1, <1>2, <1>3 DEF Distinct

(* On the way, a byte follows the one before it in its answer. *)
LEMMA ByteBefore ==
    ASSUME NEW d, NEW w, Chained(d, w), NEW i \in 1..Len(w), i < Len(w), w[i + 1][2] # 1
    PROVE  /\ w[i][1] = w[i + 1][1] /\ w[i + 1][2] = w[i][2] + 1
           /\ w[i][2] < Len(Answer[d][w[i][1]])
<1> DEFINE c == w[i][1]
           k == w[i][2]
<1>1. /\ k \in 1..Len(Answer[d][c])
      /\ k < Len(Answer[d][c]) => w[i + 1] = <<c, k + 1>>
      /\ k = Len(Answer[d][c]) => w[i + 1][2] = 1
  BY DEF Chained
<1> HIDE DEF c, k
<1>2. k < Len(Answer[d][c])
  BY <1>1
<1>3. w[i + 1] = <<c, k + 1>>
  BY <1>1, <1>2
<1>4. w[i + 1][1] = c /\ w[i + 1][2] = k + 1
  BY <1>3
<1>. QED BY <1>2, <1>4 DEF c, k

(* What the decoder has of the answer the next byte on the way belongs to. *)
Awaits(d, w, buf, H) ==
    w # <<>> /\ w[1][1] \notin H => \E q \in Nat : Occurs(Answer[d][w[1][1]], w[1][2] - 1, buf, q)

LEMMA NothingOccurs ==
    ASSUME NEW b \in Seq(Byte), NEW a \in Frames
    PROVE  Occurs(a, 0, b, Len(b))
BY FactsOfFrame DEF Occurs, Lies, FrameFacts

LEMMA OneMoreLies ==
    ASSUME NEW a, NEW k \in Nat \ {0}, NEW b, NEW q \in Nat, \A j \in 1..(k - 1) : b[q + j] = a[j],
           q + k <= Len(b), b[q + k] = a[k]
    PROVE  Lies(a, k, b, q)
<1>1. \A j \in 1..k : j \in 1..(k - 1) \/ j = k
  OBVIOUS
<1>. QED BY <1>1 DEF Lies

LEMMA ArrivedLies ==
    ASSUME NEW d \in Devices, NEW w, Chained(d, w), NEW H, NEW buf \in Seq(Byte),
           Awaits(d, w, buf, H), NEW n \in 1..Len(w), NEW b, b = buf \o BytesOf(d, w, 1, n)
    PROVE  \A i \in 1..n : w[i][1] \notin H =>
             \E q \in Nat : /\ q + w[i][2] = Len(buf) + i
                            /\ Lies(Answer[d][w[i][1]], w[i][2], b, q)
<1> DEFINE Good(i) == w[i][1] \notin H =>
             \E q \in Nat : /\ q + w[i][2] = Len(buf) + i
                            /\ Lies(Answer[d][w[i][1]], w[i][2], b, q)
           Bad == {i \in 1..n : ~Good(i)}
<1> SUFFICES ASSUME Bad # {} PROVE FALSE
    OBVIOUS
<1> HIDE DEF Good
<1>1. Bad \in SUBSET Nat
  OBVIOUS
<1>2. PICK i \in Bad : \A j \in Bad : i <= j
  BY <1>1, Least
<1>3. i \in 1..n /\ ~Good(i) /\ i \in 1..Len(w) /\ n \in Nat /\ Len(w) \in Nat /\ Len(buf) \in Nat
  BY DEF Chained
<1> DEFINE c == w[i][1]
           k == w[i][2]
           a == Answer[d][c]
           N == Len(buf)
<1>4. c \in Listed /\ k \in 1..Len(a) /\ a \in Frames /\ Len(a) \in Nat
  BY <1>3, AnswersInFrames DEF Chained
<1>5. /\ Len(b) = N + n /\ (\A j \in 1..N : b[j] = buf[j])
      /\ \A j \in 1..n : b[N + j] = Answer[d][w[j][1]][w[j][2]]
  <2> DEFINE t == BytesOf(d, w, 1, n)
  <2>1. t \in Seq(Byte) /\ Len(t) = n
    <3>1. n \in 0..Len(w) /\ 1 \in 1..(n + 1) /\ n + 1 - 1 = n
      BY <1>3
    <3>. QED BY <3>1, BytesAreBytes
  <2>2. \A j \in 1..n : t[j] = Answer[d][w[j][1]][w[j][2]]
    <3>1. n + 1 - 1 = n /\ \A j \in 1..n : 1 - 1 + j = j
      BY <1>3
    <3>. QED BY <3>1 DEF BytesOf
  <2> HIDE DEF t
  <2>3. /\ Len(buf \o t) = N + n /\ (\A j \in 1..N : (buf \o t)[j] = buf[j])
        /\ \A j \in 1..n : (buf \o t)[N + j] = t[j]
    <3>1. /\ Len(buf \o t) = Len(buf) + Len(t)
          /\ \A j \in 1..Len(buf) : (buf \o t)[j] = buf[j]
          /\ \A j \in 1..Len(t) : (buf \o t)[Len(buf) + j] = t[j]
      <4>1. buf \in Seq(Byte) /\ t \in Seq(Byte)
        BY <2>1
      <4>. QED BY <4>1, ConcatIs
    <3>. QED BY <2>1, <3>1
  <2>. QED BY <2>2, <2>3 DEF t
<1>6. SUFFICES ASSUME c \notin H
               PROVE  \E q \in Nat : q + k = N + i /\ Lies(a, k, b, q)
  BY <1>3 DEF Good
<1> HIDE DEF c, k, a, N
<1>7. N \in Nat /\ b[N + i] = a[k] /\ N + i <= Len(b) /\ k \in Nat \ {0} /\ i \in Nat
  <2>1. N \in Nat
    BY <1>3 DEF N
  <2>2. b[N + i] = a[k]
    BY <1>3, <1>5 DEF a, c, k
  <2>. QED BY <1>3, <1>4, <1>5, <2>1, <2>2
<1>8. ASSUME NEW q \in Nat, q + (k - 1) = N + i - 1, \A j \in 1..(k - 1) : b[q + j] = a[j]
      PROVE  \E r \in Nat : r + k = N + i /\ Lies(a, k, b, r)
  <2>1. q + k = N + i
    BY <1>7, <1>8
  <2>2. Lies(a, k, b, q)
    BY <1>7, <1>8, <2>1, OneMoreLies
  <2>. QED BY <2>1, <2>2
<1>9. CASE i = 1
  <2>1. w # <<>>
    BY <1>3
  <2>2. PICK q \in Nat : Occurs(a, k - 1, buf, q)
    BY <1>6, <1>9, <2>1 DEF Awaits, a, c, k
  <2>3. q + (k - 1) = N /\ \A j \in 1..(k - 1) : buf[q + j] = a[j]
    BY <1>4, <1>7, <2>2 DEF Occurs, Lies, N
  <2>4. ASSUME NEW j \in 1..(k - 1) PROVE b[q + j] = a[j]
    <3>1. q + j \in 1..N
      BY <1>7, <2>3
    <3>. QED BY <1>5, <2>3, <3>1 DEF N
  <2>5. q + (k - 1) = N + i - 1
    BY <1>7, <1>9, <2>3
  <2>. QED BY <1>8, <2>4, <2>5
<1>10. CASE i # 1 /\ k = 1
  <2>1. N + i - 1 \in Nat /\ N + i - 1 + (k - 1) = N + i - 1 /\ 1..(k - 1) = {}
    BY <1>3, <1>7, <1>10
  <2>. QED BY <1>8, <2>1
<1>11. CASE i # 1 /\ k # 1
  <2> DEFINE h == i - 1
  <2>1. h \in 1..Len(w) /\ h < Len(w) /\ h + 1 = i /\ h \in 1..n /\ h \in Nat /\ h < i
    BY <1>3, <1>11
  <2> HIDE DEF h
  <2>2. w[h][1] = c /\ k = w[h][2] + 1
    <3>1. w[h + 1][1] = c /\ w[h + 1][2] = k
      BY <2>1 DEF c, k
    <3>2. w[h + 1][2] # 1
      BY <1>11, <3>1
    <3>. QED BY <2>1, <3>1, <3>2, ByteBefore
  <2>3. w[h][2] = k - 1
    <3>1. w[h][2] \in Nat
      BY <2>1 DEF Chained
    <3>. QED BY <2>2, <3>1
  <2>4. Good(h)
    <3>1. h \notin Bad
      <4>1. ~(i <= h)
        BY <1>3, <2>1
      <4> HIDE DEF Bad
      <4>. QED BY <1>2, <4>1
    <3>. QED BY <2>1, <3>1
  <2>5. PICK q \in Nat : q + (k - 1) = N + h /\ Lies(a, k - 1, b, q)
    BY <1>6, <2>2, <2>3, <2>4 DEF Good, a, N
  <2>6. q + (k - 1) = N + i - 1
    BY <1>7, <2>1, <2>5
  <2>. QED BY <1>8, <2>5, <2>6 DEF Lies
<1>. QED BY <1>9, <1>10, <1>11

(* As long as only answers have been cut out, every answer that has lost nothing has been, or is *)
(* in the buffer and on the way.                                                                 *)
Through == stage \in Session => {Answer[Device][c] : c \in whole} \subseteq got

Unhurt ==
    /\ whole \subseteq Listed
    /\ alive => Chained(Device, wire)
    /\ got \subseteq AnswersOf(Device) =>
         /\ alive => Awaits(Device, wire, buffer, hurt)
         /\ Through

(* The next byte on the way, after the first n: it is the first of its answer, or the byte before *)
(* it is among them.                                                                              *)
LEMMA AwaitsAfter ==
    ASSUME NEW d \in Devices, NEW w, Chained(d, w), NEW n \in 1..Len(w), NEW buf \in Seq(Byte),
           NEW H,
           LET c == w[n][1]
               k == w[n][2] IN
             c \notin H /\ k < Len(Answer[d][c]) => \E q \in Nat : Occurs(Answer[d][c], k, buf, q)
    PROVE  Awaits(d, From(w, n + 1), buf, H)
<1> DEFINE v == From(w, n + 1)
<1>1. w \in Seq(Listed \X Nat) /\ Len(w) \in Nat /\ n \in Nat
  BY DEF Chained
<1>2. Chained(d, v)
  BY ChainShrinks
<1>3. v \in Seq(Listed \X Nat) /\ Len(v) = Len(w) - n /\ \A i \in 1..(Len(w) - n) : v[i] = w[i + n]
  BY <1>1, FromIsSeq
<1> HIDE DEF v
<1> DEFINE a == Answer[d][v[1][1]]
<1>4. SUFFICES ASSUME v # <<>>, v[1][1] \notin H
               PROVE  \E q \in Nat : Occurs(a, v[1][2] - 1, buf, q)
  BY DEF Awaits, v
<1>5. 1 \in 1..Len(v) /\ n < Len(w) /\ v[1] = w[n + 1]
  <2>1. Len(v) # 0
    BY <1>3, <1>4, EmptySeq
  <2>2. 1 \in 1..Len(v) /\ n < Len(w) /\ 1 + n = n + 1 /\ 1 \in 1..(Len(w) - n)
    BY <1>1, <1>3, <2>1
  <2>. QED BY <1>3, <2>2
<1>6. v[1][1] \in Listed /\ a \in Frames
  BY <1>2, <1>5, AnswersInFrames DEF Chained
<1>7. CASE v[1][2] = 1
  <2>1. Occurs(a, 0, buf, Len(buf)) /\ Len(buf) \in Nat /\ 1 - 1 = 0
    BY <1>6, NothingOccurs
  <2>. QED BY <1>7, <2>1
<1>8. CASE v[1][2] # 1
  <2>1. /\ w[n][1] = v[1][1] /\ v[1][2] = w[n][2] + 1 /\ w[n][2] < Len(Answer[d][w[n][1]])
    BY <1>5, <1>8, ByteBefore
  <2>2. w[n][2] \in Nat
    BY DEF Chained
  <2>3. v[1][2] - 1 = w[n][2]
    BY <2>1, <2>2
  <2>. QED BY <1>4, <2>1, <2>3
<1>. QED BY <1>7, <1>8

LEMMA UnhurtDelivered ==
    ASSUME NothingHides, NothingOverlaps, Typed, Unhurt, NEW n \in 1..Len(wire), Deliver(n),
           got' \subseteq AnswersOf(Device)
    PROVE  Awaits(Device, wire', buffer', hurt) /\ {Answer[Device][c] : c \in whole'} \subseteq got'
<1> DEFINE d == Device
           Now == {c \in Listed \ hurt : \E i \in 1..n : wire[i] = <<c, Len(Answer[d][c])>>}
           b == buffer \o BytesOf(d, wire, 1, n)
<1>1. alive /\ wire' = From(wire, n + 1) /\ whole' = whole \cup Now
  BY DEF Deliver
<1>2. stage \in Session /\ d \in Devices /\ buffer \in Seq(Byte)
  BY <1>1, Current DEF Typed, Streams
<1>3. Chained(d, wire) /\ n \in Nat /\ Len(wire) \in Nat
  <2>1. Chained(d, wire)
    BY <1>1 DEF Unhurt
  <2>2. wire \in Seq(Listed \X Nat)
    BY <2>1 DEF Chained
  <2>. QED BY <2>1, <2>2
<1>4. BytesOf(d, wire, 1, n) \in Seq(Byte) /\ Len(BytesOf(d, wire, 1, n)) = n
  <2>1. n \in 0..Len(wire) /\ 1 \in 1..(n + 1) /\ n + 1 - 1 = n
    BY <1>3
  <2>. QED BY <1>2, <1>3, <2>1, BytesAreBytes
<1>5. b \in Seq(Byte) /\ Len(b) = Len(buffer) + n /\ Len(buffer) \in Nat
  <2> HIDE DEF d
  <2>. QED BY <1>2, <1>4, <1>3, ConcatIs
<1> HIDE DEF d, b
<1>6. Cut[b][2] = buffer' /\ got' = got \cup Range(Cut[b][1])
  <2>1. Chunk(n) = BytesOf(d, wire, 1, n)
    <3>1. \A i \in 1..n : 1 - 1 + i = i /\ n + 1 - 1 = n
      BY <1>3
    <3>2. n + 1 - 1 = n
      BY <1>3
    <3>. QED BY <3>1, <3>2 DEF Chunk, BytesOf, d
  <2>. QED BY <2>1, Delivered DEF Feed, b
<1>7. /\ got \subseteq AnswersOf(d) /\ Range(Cut[b][1]) \subseteq AnswersOf(d)
      /\ Awaits(d, wire, buffer, hurt) /\ {Answer[d][c] : c \in whole} \subseteq got
  BY <1>1, <1>2, <1>6 DEF Unhurt, Through, d
<1>8. Distinct(AnswersOf(d))
  BY <1>2, AnswersDiffer
<1>9. ASSUME NEW i \in 1..n, wire[i][1] \notin hurt,
             wire[i][2] = Len(Answer[d][wire[i][1]]) \/ i = n
      PROVE  Kept(Answer[d][wire[i][1]], wire[i][2], Cut[b])
  <2> DEFINE c == wire[i][1]
             k == wire[i][2]
             a == Answer[d][c]
  <2>1. c \in Listed /\ k \in 1..Len(a) /\ a \in AnswersOf(d) /\ Len(a) \in Nat
    BY <1>2, <1>3, AnswersInFrames DEF Chained, AnswersOf
  <2>2. PICK q \in Nat : q + k = Len(buffer) + i /\ Lies(a, k, b, q)
    BY <1>2, <1>3, <1>7, <1>9, ArrivedLies DEF b
  <2>3. k = Len(a) \/ i = n
    BY <1>9
  <2> HIDE DEF c, k, a
  <2>4. k < Len(a) => q + k = Len(b)
    BY <1>5, <2>1, <2>2, <2>3
  <2>5. Occurs(a, k, b, q) /\ k \in Nat \ {0}
    BY <2>1, <2>2, <2>4 DEF Occurs
  <2>6. Kept(a, k, Cut[b])
    BY <1>5, <1>7, <1>8, <2>1, <2>5, AnswersSurvive
  <2>. QED BY <2>6 DEF c, k, a
<1>10. ASSUME NEW c \in Now PROVE Answer[d][c] \in got'
  <2>1. PICK i \in 1..n : wire[i] = <<c, Len(Answer[d][c])>>
    OBVIOUS
  <2>2. wire[i][1] = c /\ wire[i][2] = Len(Answer[d][c]) /\ c \notin hurt
    BY <2>1
  <2>3. Kept(Answer[d][c], Len(Answer[d][c]), Cut[b])
    BY <1>9, <2>2
  <2>. QED BY <1>6, <2>3 DEF Kept
<1>11. Awaits(d, From(wire, n + 1), buffer', hurt)
  <2> DEFINE c == wire[n][1]
             k == wire[n][2]
  <2>1. ASSUME c \notin hurt, k < Len(Answer[d][c])
        PROVE  \E q \in Nat : Occurs(Answer[d][c], k, buffer', q)
    <3>1. n \in 1..n
      BY <1>3
    <3>2. Kept(Answer[d][c], k, Cut[b])
      BY <1>9, <2>1, <3>1
    <3>. QED BY <1>6, <2>1, <3>2 DEF Kept
  <2>2. buffer' \in Seq(Byte)
    BY Delivered
  <2> HIDE DEF d
  <2>. QED BY <1>2, <1>3, <2>1, <2>2, AwaitsAfter
<1>12. {Answer[d][c] : c \in whole'} \subseteq got'
  BY <1>1, <1>6, <1>7, <1>10
<1>. QED BY <1>1, <1>11, <1>12 DEF d

LEMMA UnhurtStep ==
    ASSUME NothingHides, NothingOverlaps, Typed, Unhurt, [Next]_vars
    PROVE  Unhurt'
<1> USE DEF scanVars, linkVars, streamVars, sessionVars
<1>1. ASSUME UNCHANGED <<todo, alive, wire, buffer, hurt, whole, got>>,
             stage' \in Session => stage \in Session
      PROVE  Unhurt'
  BY <1>1 DEF Unhurt, Through, AnswersOf, Device
<1>2. ASSUME ~alive', stage' \notin Session, whole' = whole
      PROVE  Unhurt'
  BY <1>2 DEF Unhurt, Through
<1>3. CASE Start \/ ScanDone \/ ScanEnds \/ \E d \in Devices : Advertises(d)
  <2>1. stage \in {"start", "scan"} /\ UNCHANGED <<alive, whole>>
    BY <1>3 DEF Start, ScanDone, ScanEnds, Query, Advertises
  <2>2. stage' \notin Session
    BY <1>3, <2>1 DEF Start, ScanDone, ScanEnds, Query, Advertises, Session
  <2>3. ~alive
    BY <2>1 DEF Typed, Streams, Session
  <2>. QED BY <1>2, <2>1, <2>2, <2>3
<1>4. CASE Fails \/ Expires \/ Succeeds \/ Collected \/ Finished \/ UNCHANGED vars
  BY <1>1, <1>4 DEF Fails, Expires, Succeeds, Ends, Collected, Finished, vars, Session
<1>5. CASE Connect \/ ConnectFails
  <2>1. wire' = <<>> /\ whole' = {} /\ got' = {}
    BY <1>5 DEF Connect, ConnectFails, Fresh
  <2>2. Chained(Device, <<>>)'
    BY DEF Chained
  <2>. QED BY <2>1, <2>2 DEF Unhurt, Awaits, Through
<1>6. CASE Close
  <2>1. ~alive' /\ stage' \notin Session /\ whole' = whole
    BY <1>6 DEF Close, Session
  <2>. QED BY <1>2, <2>1
<1>7. CASE LinkLost
  BY <1>7 DEF LinkLost, Unhurt, Through, AnswersOf, Device
<1>8. CASE Send
  <2>1. UNCHANGED <<todo, alive, buffer, hurt, whole, got>> /\ stage = "ready"
    BY <1>8 DEF Send
  <2>2. Commands[next] \in Listed /\ Device \in Devices
    BY <1>8, ListedIsCommand, Current DEF Send, Session, Typed, More, IShape, Shape
  <2>3. CASE wire' = wire
    BY <1>1, <2>1, <2>3 DEF Session
  <2>4. CASE alive /\ wire' = wire \o [i \in 1..Len(Answer[Device][Commands[next]])
                                          |-> <<Commands[next], i>>]
    <3> DEFINE a == Answer[Device][Commands[next]]
               bytes == [i \in 1..Len(a) |-> <<Commands[next], i>>]
    <3>1. Chained(Device, wire) /\ Chained(Device, wire')
      BY <2>2, <2>4, ChainGrows DEF Unhurt
    <3>2. a \in Frames /\ Len(a) \in Nat /\ Len(a) >= 1
      BY <2>2, AnswersInFrames, FactsOfFrame DEF FrameFacts
    <3>3. bytes \in Seq(Listed \X Nat) /\ Len(bytes) = Len(a) /\ bytes[1] = <<Commands[next], 1>>
      BY <2>2, <3>2
    <3>4. wire \in Seq(Listed \X Nat)
      BY <3>1 DEF Chained
    <3>5. wire' = wire \o bytes
      BY <2>4
    <3> HIDE DEF bytes
    <3>6. Awaits(Device, wire, buffer, hurt) => Awaits(Device, wire', buffer, hurt)
      <4>1. CASE wire = <<>>
        <5>1. wire' = bytes
          BY <3>3, <3>5, <4>1
        <5>2. wire'[1][1] = Commands[next] /\ wire'[1][2] - 1 = 0
          BY <3>3, <5>1
        <5>3. Occurs(a, 0, buffer, Len(buffer)) /\ Len(buffer) \in Nat
          BY <3>2, NothingOccurs DEF Typed, Streams
        <5>. QED BY <5>2, <5>3 DEF Awaits
      <4>2. CASE wire # <<>>
        <5>1. 1 \in 1..Len(wire)
          BY <3>4, <4>2
        <5>2. wire'[1] = wire[1]
          BY <3>3, <3>4, <3>5, <5>1, ConcatIs
        <5>. QED BY <4>2, <5>2 DEF Awaits
      <4>. QED BY <4>1, <4>2
    <3>7. stage \in Session
      BY <2>1 DEF Session
    <3> HIDE DEF a
    <3>. QED BY <2>1, <2>4, <3>1, <3>6, <3>7 DEF Unhurt, Through, AnswersOf, Device
  <2>. QED BY <1>8, <2>3, <2>4 DEF Send
<1>9. ASSUME NEW n \in 1..Len(wire), Deliver(n) PROVE Unhurt'
  <2>1. UNCHANGED <<todo, alive, hurt, stage>> /\ alive /\ wire' = From(wire, n + 1)
    BY <1>9 DEF Deliver
  <2>2. whole' \subseteq Listed
    BY <1>9 DEF Deliver, Unhurt
  <2>3. Device \in Devices
    BY <2>1, Current DEF Typed, Streams
  <2>4. Chained(Device, wire')
    BY <2>1, <2>3, ChainShrinks DEF Unhurt
  <2>5. got' \subseteq AnswersOf(Device) =>
          Awaits(Device, wire', buffer', hurt) /\ {Answer[Device][c] : c \in whole'} \subseteq got'
    BY <1>9, UnhurtDelivered
  <2>. QED BY <2>1, <2>2, <2>4, <2>5 DEF Unhurt, Through, AnswersOf, Device
<1>10. ASSUME NEW n \in 1..Len(wire), Lose(n) PROVE Unhurt'
  <2>1. /\ UNCHANGED <<todo, alive, stage, buffer, whole, got>> /\ wire' = From(wire, n + 1)
        /\ hurt' = hurt \cup {wire[i][1] : i \in 1..n}
    BY <1>10 DEF Lose
  <2>2. CASE ~alive
    BY <2>1, <2>2 DEF Unhurt, Through, AnswersOf, Device
  <2>3. CASE alive
    <3>1. Device \in Devices /\ Chained(Device, wire) /\ buffer \in Seq(Byte)
      BY <2>3, Current DEF Typed, Streams, Unhurt
    <3>2. Chained(Device, wire')
      BY <2>1, <3>1, ChainShrinks
    <3>3. wire[n][1] \in hurt'
      <4>1. n \in 1..n
        BY <3>1 DEF Chained
      <4>. QED BY <2>1, <4>1
    <3>4. Awaits(Device, From(wire, n + 1), buffer, hurt')
      BY <3>1, <3>3, AwaitsAfter
    <3>. QED BY <2>1, <3>2, <3>4 DEF Unhurt, Through, AnswersOf, Device
  <2>. QED BY <2>2, <2>3
<1>. QED BY <1>3, <1>4, <1>5, <1>6, <1>7, <1>8, <1>9, <1>10 DEF Next

LEMMA UnhurtAlways == ASSUME NothingHides, NothingOverlaps PROVE Spec => []Unhurt
<1>1. Init => Unhurt
  BY DEF Init, Unhurt, Through, Session
<1>2. Typed /\ Unhurt /\ [Next]_vars => Unhurt'
  BY UnhurtStep
<1>. QED BY <1>1, <1>2, TypedAlways, PTL DEF Spec

(* An answer of which nothing is lost gets through whatever is lost around it: in every state the *)
(* frames cut out of a session's notifications include each answer that has arrived in full,      *)
(* unless the XOR has let a frame pass that is no answer, and without a loss they include nothing *)
(* else.  For any payloads that hide no frame and do not end as an answer begins, and any chunks. *)
THEOREM IntactAnswersGetThrough ==
    ASSUME NothingHides, NothingOverlaps PROVE Spec => []IntactFramesGetThrough
<1>1. Unhurt /\ NothingElseIsCut => IntactFramesGetThrough
  BY DEF Unhurt, Through, AnswersOf, IntactFramesGetThrough
<1>. QED BY <1>1, UnhurtAlways, LosslessStreams, PTL
-----------------------------------------------------------------------------
(* Nothing is to be queried unless the run is at querying. *)
Querying == todo # <<>> => stage \in Session \cup {"connect"}

LEMMA QueryingStep == Typed /\ Querying /\ [Next]_vars => Querying'
<1> SUFFICES ASSUME Typed, Querying, [Next]_vars PROVE Querying'
    OBVIOUS
<1> USE DEF scanVars, linkVars, streamVars, sessionVars, Querying, Session
<1>1. CASE Start
  BY <1>1 DEF Start
<1>2. ASSUME NEW d \in Devices, Advertises(d) PROVE Querying'
  BY <1>2 DEF Advertises
<1>3. ASSUME NEW devices, Query(devices) PROVE Querying'
  BY <1>3 DEF Query
<1>4. CASE ScanDone
  BY <1>3, <1>4 DEF ScanDone
<1>5. CASE ScanEnds
  <2>1. \E devices : Query(devices)
    BY <1>5 DEF ScanEnds
  <2>. QED BY <1>3, <2>1
<1>6. CASE Connect \/ ConnectFails
  BY <1>6 DEF Connect, ConnectFails
<1>7. CASE Send \/ Expires
  BY <1>7 DEF Send, Expires
<1>8. CASE Fails \/ Succeeds
  BY <1>8 DEF Fails, Succeeds, Ends
<1>9. ASSUME NEW n \in 1..Len(wire), Deliver(n) \/ Lose(n) PROVE Querying'
  BY <1>9 DEF Deliver, Lose
<1>10. CASE LinkLost \/ Finished \/ UNCHANGED vars
  BY <1>10 DEF LinkLost, Finished, vars
<1>11. CASE Collected
  BY <1>11 DEF Collected
<1>12. CASE Close
  BY <1>12 DEF Close
<1>. QED BY <1>1, <1>2, <1>4, <1>5, <1>6, <1>7, <1>8, <1>9, <1>10, <1>11, <1>12 DEF Next

(* A step within a session: the same batteries, and fewer steps ahead with this one. *)
LEMMA ShorterAhead ==
    ASSUME todo' = todo, StepsAhead \in Nat, StepsAhead' \in Nat, StepsAhead' < StepsAhead,
           todo \in Seq(Devices)
    PROVE  StepsLeft' < StepsLeft
<1> DEFINE rest == Len(todo) * (3 * Len(Commands) + 4)
<1>1. Len(Commands) \in Nat /\ Len(todo) \in Nat
  BY ToolAssumption
<1>2. rest \in Nat
  BY <1>1
<1>3. StepsLeft = rest + StepsAhead /\ StepsLeft' = rest + StepsAhead'
  BY DEF StepsLeft
<1>4. ASSUME NEW r \in Nat, NEW a \in Nat, NEW b \in Nat, b < a PROVE r + b < r + a
  BY <1>4
<1> HIDE DEF rest
<1>5. rest + StepsAhead' < rest + StepsAhead
  BY <1>2, <1>4
<1>. QED BY <1>3, <1>5

(* A battery done with: what is ahead with the next one was counted for it before. *)
LEMMA ShorterQueue ==
    ASSUME todo \in Seq(Devices), todo # <<>>, todo' = Tail(todo), StepsAhead = 1,
           StepsAhead' \in 0..(3 * Len(Commands) + 3)
    PROVE  StepsLeft' < StepsLeft
<1> DEFINE stretch == 3 * Len(Commands) + 4
           others == Len(Tail(todo)) * stretch
<1>1. Len(Commands) \in Nat /\ Len(todo) \in Nat
  BY ToolAssumption
<1>2. Len(Tail(todo)) \in Nat /\ Len(todo) = Len(Tail(todo)) + 1
  OBVIOUS
<1>3. stretch \in Nat
  BY <1>1
<1>4. ASSUME NEW k \in Nat, NEW s \in Nat PROVE (k + 1) * s = k * s + s /\ k * s \in Nat
  BY <1>4
<1>5. StepsLeft = Len(todo) * stretch + 1 /\ StepsLeft' = others + StepsAhead'
  BY DEF StepsLeft
<1>6. StepsAhead' < stretch /\ StepsAhead' \in Nat
  BY <1>1
<1> HIDE DEF stretch
<1>7. Len(todo) * stretch = others + stretch /\ others \in Nat
  BY <1>2, <1>3, <1>4
<1> HIDE DEF others
<1>. QED BY <1>3, <1>5, <1>6, <1>7

LEMMA ShorterStep ==
    Typed /\ Querying /\ [Next]_vars =>
        (todo # <<>> => StepsLeft' < StepsLeft \/ UNCHANGED <<stage, todo, next, future>>)
<1> DEFINE Shorter == StepsLeft' < StepsLeft \/ UNCHANGED <<stage, todo, next, future>>
<1> SUFFICES ASSUME Typed, Querying, [Next]_vars, todo # <<>> PROVE Shorter
    OBVIOUS
<1> USE DEF scanVars, linkVars, streamVars, sessionVars, Session
<1>1. /\ todo \in Seq(Devices) /\ Len(Commands) \in Nat /\ next \in 1..(Len(Commands) + 1)
      /\ stage \in Session \cup {"connect"}
      /\ stage = "wait" => next <= Len(Commands)
  BY ToolAssumption DEF Typed, IShape, Shape, Lists, Pending, More, Querying
<1>2. /\ stage = "connect" => StepsAhead = 3 * Len(Commands) + 3
      /\ stage = "ready" => StepsAhead = 3 * (Len(Commands) + 1 - next) + 2
      /\ stage = "wait" => StepsAhead = 3 * (Len(Commands) + 1 - next)
                                        + (IF future = Open THEN 1 ELSE 0)
      /\ stage = "close" => StepsAhead = 1
  BY Zenon DEF StepsAhead
<1>3. /\ stage' = "connect" => StepsAhead' = 3 * Len(Commands) + 3
      /\ stage' = "ready" => StepsAhead' = 3 * (Len(Commands) + 1 - next') + 2
      /\ stage' = "wait" => StepsAhead' = 3 * (Len(Commands) + 1 - next')
                                          + (IF future' = Open THEN 1 ELSE 0)
      /\ stage' = "close" => StepsAhead' = 1
      /\ stage' = "done" => StepsAhead' = 0
  BY DEF StepsAhead
<1>4. CASE Connect \/ ConnectFails
  <2>1. stage = "connect" /\ todo' = todo /\ next' = 1 /\ stage' \in {"ready", "close"}
    BY <1>4 DEF Connect, ConnectFails, Fresh
  <2>. QED BY <1>1, <1>2, <1>3, <2>1, ShorterAhead
<1>5. CASE Send
  <2>1. /\ stage = "ready" /\ stage' = "wait" /\ next' = next /\ todo' = todo
        /\ next <= Len(Commands)
    BY <1>5 DEF Send, More
  <2>. QED BY <1>1, <1>2, <1>3, <2>1, ShorterAhead
<1>6. CASE Expires
  <2>1. Open # Cancelled
    BY DEF Open, Cancelled
  <2>2. /\ stage = "wait" /\ stage' = "wait" /\ next' = next /\ todo' = todo
        /\ future = Open /\ future' # Open
    BY <1>6, <2>1 DEF Expires
  <2>. QED BY <1>1, <1>2, <1>3, <2>2, ShorterAhead
<1>7. CASE Fails \/ Succeeds
  <2>1. stage = "wait" /\ stage' = "ready" /\ next' = next + 1 /\ todo' = todo /\ future # Open
    BY <1>7 DEF Fails, Succeeds, Ends, Open, Cancelled
  <2>. QED BY <1>1, <1>2, <1>3, <2>1, ShorterAhead
<1>8. ASSUME NEW n \in 1..Len(wire), Deliver(n) PROVE Shorter
  <2>1. CASE future' = future
    BY <1>8, <2>1 DEF Deliver
  <2>2. CASE future' # future
    <3>1. future = Open /\ future' # Open /\ stage' = stage /\ next' = next /\ todo' = todo
      BY <1>8, <2>2 DEF Deliver, Open, Value
    <3>2. stage = "wait"
      BY <3>1 DEF Typed, IShape, Shape, Open, Unset
    <3>. QED BY <1>1, <1>2, <1>3, <3>1, <3>2, ShorterAhead
  <2>. QED BY <2>1, <2>2
<1>9. ASSUME NEW n \in 1..Len(wire), Lose(n) PROVE Shorter
  BY <1>9 DEF Lose
<1>10. CASE LinkLost \/ Finished \/ UNCHANGED vars
  BY <1>10 DEF LinkLost, Finished, vars
<1>11. CASE Collected
  <2>1. stage = "ready" /\ stage' = "close" /\ todo' = todo
    BY <1>11 DEF Collected
  <2>. QED BY <1>1, <1>2, <1>3, <2>1, ShorterAhead
<1>12. CASE Close
  <2>1. stage = "close" /\ stage' \in {"done", "connect"} /\ todo' = Tail(todo)
    BY <1>12 DEF Close, Remaining
  <2>. QED BY <1>1, <1>2, <1>3, <2>1, ShorterQueue
<1>13. ~(Start \/ ScanDone \/ ScanEnds) /\ \A d \in Devices : ~Advertises(d)
  BY <1>1 DEF Start, ScanDone, ScanEnds, Advertises
<1>. QED BY <1>4, <1>5, <1>6, <1>7, <1>8, <1>9, <1>10, <1>11, <1>12, <1>13 DEF Next

(* The safety half of "every run ends" (EveryTargetReported): whatever the batteries send and
   whatever fails, a step of the queries that is not just the arrival or loss of bytes brings the
   end of the run nearer, by a measure that the numbers of batteries and commands bound. *)
THEOREM RunsGetShorter == Spec => QueriesGetShorter
<1>1. Init => Querying
  BY DEF Init, Querying
<1>2. Typed /\ Querying /\ [Next]_vars =>
          [todo # <<>> =>
               StepsLeft' < StepsLeft \/ UNCHANGED <<stage, todo, next, future>>]_vars
  BY ShorterStep
<1>. QED BY <1>1, <1>2, QueryingStep, TypedAlways, PTL DEF Spec, QueriesGetShorter
=============================================================================
