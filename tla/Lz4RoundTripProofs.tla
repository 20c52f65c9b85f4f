-------------------------- MODULE Lz4RoundTripProofs --------------------------
(***************************************************************************)
(* The encoder's safety properties, for every base, alphabet, hash, input  *)
(* and destination, and that the decoder undoes the encoder, whatever the  *)
(* window it is given.                                                     *)
(*                                                                         *)
(* The encoder.  Nothing is needed of what head and chain hold but that it *)
(* is a position or Nil: a walk compares the texts of every candidate it   *)
(* takes from them, so stale and self-referring entries do no harm.  The   *)
(* invariant carries the compared texts from the walk to the match, and    *)
(* Spent, what the bytes written so far cost.                              *)
(*                                                                         *)
(* The round trip.  What the two agree on is the grammar of a block, on    *)
(* its bytes: Literals and Match say what the halves of a sequence at a    *)
(* source position are, and Encodes that from some position the block is a *)
(* chain of such sequences that spells the rest of the input.  The encoder *)
(* keeps a chain that ends where it writes; the decoder, wherever it       *)
(* stands in a sequence, has a chain from where it reads.                  *)
(***************************************************************************)
EXTENDS Lz4RoundTrip, SequenceTheorems, WellFoundedInduction, TLAPS

(* The text of length bytes at p repeats the text at start. *)
IsMatch(p, start, length) ==
  /\ MinMatch <= length
  /\ start < p /\ p - start <= MaxOffset
  /\ p + length <= MatchLimit
  /\ \A k \in 0 .. length - 1 : At(start + k) = At(p + k)

Positions ==
  /\ epc \in {"walk", "emit"} => i + MfLimit <= N
  /\ epc = "lazyWalk" => i + 1 + MfLimit <= N
  /\ epc = "walk" => walk.at = i
  /\ epc = "lazyWalk" => walk.at = i + 1

WalkIsMatch ==
  epc \in {"walk", "lazyWalk"} =>
    walk.len = 0 \/ IsMatch(walk.at, walk.start, walk.len)

FoundIsMatch == epc \in {"lazyWalk", "emit"} => IsMatch(i, found.start, found.len)

(* ByteMax bytes of input have cost at most Byte bytes of output. *)
Spent == epc \in EncStages \ {"ok", "tooSmall"} => ByteMax * Len(enc) <= Byte * anchor

IInv ==
  /\ TypeOK
  /\ Positions
  /\ WalkIsMatch
  /\ FoundIsMatch
  /\ Spent
  /\ NeverTooSmall

-----------------------------------------------------------------------------
(* The numbers of the format and of the encoder, without their definitions. *)
LEMMA Numbers ==
  /\ Nibble \in Nat /\ Nibble >= 2
  /\ Byte \in Nat /\ ByteMax \in Nat /\ ByteMax >= RunMask
  /\ Byte = ByteMax + 1 /\ Byte = Nibble * Nibble
  /\ RunMask \in Nat /\ RunMask >= 1 /\ RunMask = Nibble - 1
  /\ MinMatch \in Nat /\ MinMatch >= 1 /\ Slack \in Nat /\ Slack >= 2
  /\ LastLiterals \in Nat /\ LastLiterals >= 1 /\ LastLiterals >= MinMatch - 1
  /\ MfLimit \in Nat /\ MfLimit >= MinMatch + LastLiterals
  /\ MaxOffset \in Nat /\ MaxOffset >= 1 /\ MaxOffset < Byte * Byte
  /\ ChainSize \in Nat /\ ChainSize >= 1
  /\ Attempts \in Nat /\ Attempts >= 1
  /\ Nil \in Int /\ Nil = -1
<1>1. Nibble \in Nat /\ Nibble >= 2
  BY FormatAssumption
<1>2. Nibble * Nibble \in Nat /\ Nibble * Nibble >= 2 /\ Nibble * Nibble >= Nibble
  BY <1>1
<1> QED
  BY <1>1, <1>2, FormatAssumption, EncodeAssumption
     DEF Byte, ByteMax, RunMask, ChainSize, Nil

LEMMA DivisionFacts ==
  ASSUME NEW n \in Nat, NEW d \in Nat, d >= 1
  PROVE  /\ n \div d \in Nat /\ n % d \in 0 .. d - 1
         /\ d * (n \div d) <= n /\ n < d * (n \div d) + d
  OBVIOUS

LEMMA DivisionGrows ==
  ASSUME NEW m \in Nat, NEW n \in Nat, m <= n, NEW d \in Nat, d >= 1
  PROVE  m \div d <= n \div d
<1> DEFINE a == m \div d
           b == n \div d
<1>1. a \in Nat /\ b \in Nat /\ d * a <= m /\ n < d * b + d
  BY DivisionFacts
<1> HIDE DEF a, b
<1>2. ASSUME a >= b + 1 PROVE FALSE
  <2>1. d * a >= d * (b + 1)
    BY <1>1, <1>2
  <2>2. d * (b + 1) = d * b + d
    BY <1>1
  <2> QED
    BY <1>1, <2>1, <2>2
<1>3. a <= b
  BY <1>1, <1>2
<1> QED
  BY <1>3 DEF a, b

(* A set of numbers that is not empty has a least one, *)
LEMMA LeastExists ==
  ASSUME NEW S \in SUBSET Nat, S # {}
  PROVE  \E n \in S : \A m \in S : n <= m
<1> DEFINE R == { pair \in Nat \X Nat : pair[1] < pair[2] }
<1>1. IsWellFoundedOn(R, Nat)
  BY NatLessThanWellFounded DEF OpToRel
<1>2. ASSUME NEW m \in Nat, NEW n \in Nat, m < n PROVE << m, n >> \in R
  BY <1>2
<1> HIDE DEF R
<1>3. PICK n \in S : \A m \in S : ~ (<< m, n >> \in R)
  BY <1>1, WFMin
<1>4. ASSUME NEW m \in S PROVE n <= m
  <2>1. m \in Nat /\ n \in Nat
    OBVIOUS
  <2>2. << m, n >> \notin R
    BY <1>3
  <2>3. ~ (m < n)
    BY <1>2, <2>1, <2>2
  <2> QED
    BY <2>1, <2>3
<1> QED
  BY <1>4

(* and a newest one, if there is an upper bound. *)
LEMMA NewestExists ==
  ASSUME NEW b \in Nat, NEW S \in SUBSET (0 .. b), S # {}
  PROVE  Newest(S) \in S
<1> DEFINE T == { b - p : p \in S }
<1>1. T \in SUBSET Nat /\ T # {}
  OBVIOUS
<1>2. PICK n \in T : \A m \in T : n <= m
  BY <1>1, LeastExists
<1>3. PICK p \in S : n = b - p
  BY <1>2
<1>4. \A q \in S : q <= p
  <2> SUFFICES ASSUME NEW q \in S PROVE q <= p
    OBVIOUS
  <2>1. b - q \in T
    OBVIOUS
  <2>2. n <= b - q
    BY <1>2, <2>1
  <2> QED
    BY <1>3, <2>2
<1> QED
  BY <1>4 DEF Newest

(* The first number of a range that is its last or differs there. *)
LEMMA FirstExists ==
  ASSUME NEW low \in Nat, NEW high \in Nat, low <= high, NEW differ \in SUBSET Nat
  PROVE  \E l \in low .. high :
           /\ \A k \in low .. l - 1 : k \notin differ
           /\ l = high \/ l \in differ
<1> DEFINE S == { l \in low .. high : l = high \/ l \in differ }
<1>1. S \in SUBSET Nat /\ high \in S
  OBVIOUS
<1>2. PICK l \in S : \A m \in S : l <= m
  BY <1>1, LeastExists
<1>3. l \in low .. high /\ (l = high \/ l \in differ)
  OBVIOUS
<1>4. ASSUME NEW k \in low .. l - 1 PROVE k \notin differ
  <2>1. k \in low .. high /\ ~ (l <= k)
    BY <1>3
  <2> QED
    BY <1>2, <2>1
<1> QED
  BY <1>3, <1>4

-----------------------------------------------------------------------------
LEMMA InputFacts ==
  ASSUME input \in Inputs
  PROVE  /\ N \in Nat /\ input \in [1 .. N -> Alphabet]
         /\ MatchLimit \in Nat /\ MatchLimit <= N
         /\ \A k \in 0 .. N - 1 : At(k) \in Alphabet /\ At(k) \in Bytes
<1>1. PICK k \in 0 .. MaxInput : input \in [1 .. k -> Alphabet]
  BY DEF Inputs
<1>2. k \in Nat
  BY EncodeAssumption
<1>3. input \in Seq(Alphabet)
  BY <1>1, <1>2
<1>4. N \in Nat /\ input \in [1 .. N -> Alphabet]
  BY <1>3, LenProperties DEF N
<1>5. \A j \in 0 .. N - 1 : At(j) \in Alphabet /\ At(j) \in Bytes
  BY <1>4, EncodeAssumption DEF At
<1>6. MatchLimit \in Nat /\ MatchLimit <= N
  BY <1>4, Numbers DEF MatchLimit
<1> QED
  BY <1>4, <1>5, <1>6

LEMMA BucketInRange ==
  ASSUME input \in Inputs, NEW p \in Nat, p + MinMatch <= N
  PROVE  Bucket(p) \in Buckets
<1>1. \A j \in 1 .. MinMatch : At(p + j - 1) \in Alphabet
  <2> SUFFICES ASSUME NEW j \in 1 .. MinMatch PROVE At(p + j - 1) \in Alphabet
    OBVIOUS
  <2>1. p + j - 1 \in 0 .. N - 1
    BY Numbers, InputFacts
  <2> QED
    BY <2>1, InputFacts
<1>2. Probe(p) \in [1 .. MinMatch -> Alphabet]
  BY <1>1 DEF Probe
<1> QED
  BY <1>2, EncodeAssumption DEF Bucket

-----------------------------------------------------------------------------
(* What the parts of a block are, and what they cost. *)
LEMMA TokenIsByte ==
  ASSUME NEW m \in Nat, NEW n \in Nat
  PROVE  Token(m, n) \in Bytes
<1>1. Capped(m) \in 0 .. RunMask /\ Capped(n) \in 0 .. RunMask
  BY Numbers DEF Capped
<1>2. ASSUME NEW a \in 0 .. RunMask, NEW b \in 0 .. RunMask
      PROVE  a * Nibble + b \in 0 .. Byte - 1
  <2>1. a \in Nat /\ b \in Nat /\ Nibble \in Nat /\ a <= Nibble - 1 /\ b <= Nibble - 1
    BY Numbers
  <2>2. a * Nibble \in Nat /\ a * Nibble <= (Nibble - 1) * Nibble
    BY <2>1
  <2>3. (Nibble - 1) * Nibble = Byte - Nibble
    BY <2>1, Numbers
  <2>4. Byte \in Nat
    BY Numbers
  <2> DEFINE x == a * Nibble
             y == (Nibble - 1) * Nibble
  <2>5. x \in Nat /\ x <= y /\ y = Byte - Nibble
    BY <2>2, <2>3
  <2> HIDE DEF x, y
  <2>6. x + b \in 0 .. Byte - 1
    BY <2>1, <2>4, <2>5
  <2> QED
    BY <2>6 DEF x
<1> QED
  BY <1>1, <1>2, Numbers DEF Token, Bytes

LEMMA OffsetIsBytes ==
  ASSUME NEW n \in 0 .. MaxOffset
  PROVE  OffsetBytes(n) \in Seq(Bytes) /\ Len(OffsetBytes(n)) = 2
<1>1. n \in Nat /\ Byte \in Nat /\ Byte >= 1 /\ n < Byte * Byte
  BY Numbers
<1>2. n % Byte \in 0 .. Byte - 1 /\ n \div Byte \in Nat /\ Byte * (n \div Byte) <= n
  BY <1>1, DivisionFacts
<1>3. n \div Byte < Byte
  <2>1. ASSUME NEW q \in Nat, Byte * q <= n, q >= Byte PROVE FALSE
    <3>1. Byte * q >= Byte * Byte
      BY <1>1, <2>1
    <3> QED
      BY <1>1, <2>1, <3>1
  <2> QED
    BY <1>1, <1>2, <2>1
<1>4. n % Byte \in Bytes /\ n \div Byte \in Bytes
  BY <1>1, <1>2, <1>3, Numbers DEF Bytes
<1> QED
  BY <1>4 DEF OffsetBytes

(* Length bytes are needed from RunMask on, one and one more for every ByteMax. *)
LEMMA ExtensionIsShort ==
  ASSUME NEW n \in Nat
  PROVE  /\ Extension(n) \in Seq(Bytes) /\ Len(Extension(n)) \in Nat
         /\ n < RunMask => Len(Extension(n)) = 0
         /\ n >= RunMask => ByteMax * Len(Extension(n)) <= n - RunMask + ByteMax
<1>1. CASE n < RunMask
  BY <1>1, Numbers DEF Extension
<1>2. CASE n >= RunMask
  <2> DEFINE m == n - RunMask
             full == [k \in 1 .. m \div ByteMax |-> ByteMax]
  <2>1. m \in Nat /\ ByteMax \in Nat /\ ByteMax >= 1
    BY <1>2, Numbers
  <2>2. /\ m \div ByteMax \in Nat /\ m % ByteMax \in 0 .. ByteMax - 1
        /\ ByteMax * (m \div ByteMax) <= m
    BY <2>1, DivisionFacts
  <2>3. full \in Seq(Bytes) /\ Len(full) = m \div ByteMax
    BY <2>1, <2>2 DEF Bytes
  <2>4. << m % ByteMax >> \in Seq(Bytes) /\ Len(<< m % ByteMax >>) = 1
    BY <2>1, <2>2 DEF Bytes
  <2>5. Extension(n) = full \o << m % ByteMax >>
    BY <1>2, Numbers DEF Extension, LengthBytes
  <2>6. Extension(n) \in Seq(Bytes) /\ Len(Extension(n)) = m \div ByteMax + 1
    <3> HIDE DEF m, full
    <3>1. /\ full \o << m % ByteMax >> \in Seq(Bytes)
          /\ Len(full \o << m % ByteMax >>) = Len(full) + Len(<< m % ByteMax >>)
      BY <2>3, <2>4, ConcatProperties
    <3> QED
      BY <2>3, <2>4, <2>5, <3>1
  <2> DEFINE q == m \div ByteMax
  <2>7. q \in Nat /\ ByteMax * q <= m /\ Len(Extension(n)) = q + 1
    BY <2>2, <2>6
  <2> HIDE DEF q
  <2>8. ByteMax * (q + 1) = ByteMax * q + ByteMax /\ ByteMax * q \in Int
    BY <2>1, <2>7
  <2>9. ByteMax * Len(Extension(n)) <= n - RunMask + ByteMax
    <3> DEFINE x == ByteMax * q
    <3>1. x \in Int /\ x <= n - RunMask
      BY <2>7, <2>8
    <3>2. ByteMax * Len(Extension(n)) = x + ByteMax
      BY <2>7, <2>8
    <3> HIDE DEF x
    <3> QED
      BY <2>1, <3>1, <3>2, Numbers
  <2>10. ~ (n < RunMask) /\ q + 1 \in Nat
    BY <1>2, <2>7, Numbers
  <2> QED
    BY <2>6, <2>7, <2>9, <2>10
<1> QED
  BY <1>1, <1>2, Numbers

-----------------------------------------------------------------------------
(* The choices of the matcher: each has something to choose. *)
LEMMA AgreementFacts ==
  ASSUME input \in Inputs, NEW c \in Nat, NEW p \in Nat, c < p,
         p + MinMatch <= MatchLimit, Probe(c) = Probe(p)
  PROVE  /\ Agreement(c, p) \in MinMatch .. MatchLimit - p
         /\ \A k \in 0 .. Agreement(c, p) - 1 : At(c + k) = At(p + k)
<1> DEFINE differ == { k \in Nat : At(c + k) # At(p + k) }
           high == MatchLimit - p
<1>1. high \in Nat /\ MinMatch \in Nat /\ MinMatch <= high
  BY InputFacts, Numbers
<1>2. PICK l \in MinMatch .. high :
        /\ \A k \in MinMatch .. l - 1 : k \notin differ
        /\ l = high \/ l \in differ
  <2> HIDE DEF differ, high
  <2>1. differ \in SUBSET Nat
    BY DEF differ
  <2> QED
    BY <1>1, <2>1, FirstExists
<1>3. \A k \in MinMatch .. l - 1 : At(c + k) = At(p + k)
  BY <1>1, <1>2
<1>4. p + l = MatchLimit \/ At(c + l) # At(p + l)
  BY <1>1, <1>2, InputFacts
<1>5. /\ Agreement(c, p) \in MinMatch .. MatchLimit - p
      /\ \A k \in MinMatch .. Agreement(c, p) - 1 : At(c + k) = At(p + k)
  BY <1>3, <1>4 DEF Agreement
<1>6. \A k \in 0 .. MinMatch - 1 : At(c + k) = At(p + k)
  <2> SUFFICES ASSUME NEW k \in 0 .. MinMatch - 1 PROVE At(c + k) = At(p + k)
    OBVIOUS
  <2>1. k + 1 \in 1 .. MinMatch
    BY <1>1
  <2>2. Probe(c)[k + 1] = Probe(p)[k + 1]
    OBVIOUS
  <2>3. At(c + (k + 1) - 1) = At(p + (k + 1) - 1)
    BY <2>1, <2>2 DEF Probe
  <2>4. c + (k + 1) - 1 = c + k /\ p + (k + 1) - 1 = p + k
    OBVIOUS
  <2> QED
    BY <2>3, <2>4
<1> QED
  BY <1>1, <1>5, <1>6

LEMMA BackwardsFacts ==
  ASSUME TypeOK, FoundIsMatch, epc = "emit"
  PROVE  /\ Backwards \in 0 .. i - anchor /\ Backwards <= found.start
         /\ \A k \in 1 .. Backwards : At(found.start - k) = At(i - k)
<1> DEFINE room == IF found.start < i - anchor THEN found.start ELSE i - anchor
           differ == { b \in Nat : At(found.start - b - 1) # At(i - b - 1) }
<1>1. /\ room \in Nat /\ room <= i - anchor /\ room <= found.start
      /\ i \in Nat /\ anchor \in Nat /\ found.start \in Nat
  BY InputFacts DEF TypeOK
<1>2. PICK b \in 0 .. room :
        /\ \A k \in 0 .. b - 1 : k \notin differ
        /\ b = room \/ b \in differ
  <2> HIDE DEF room, differ
  <2>1. differ \in SUBSET Nat
    BY DEF differ
  <2>2. 0 \in Nat /\ room \in Nat /\ 0 <= room
    BY <1>1
  <2> QED
    BY <2>1, <2>2, FirstExists
<1>3. \A k \in 1 .. b : At(found.start - k) = At(i - k)
  <2> SUFFICES ASSUME NEW k \in 1 .. b PROVE At(found.start - k) = At(i - k)
    OBVIOUS
  <2>1. k - 1 \in 0 .. b - 1 /\ k - 1 \in Nat
    BY <1>1
  <2>2. k - 1 \notin differ
    BY <1>2, <2>1
  <2>3. At(found.start - (k - 1) - 1) = At(i - (k - 1) - 1)
    BY <2>1, <2>2
  <2>4. found.start - (k - 1) - 1 = found.start - k /\ i - (k - 1) - 1 = i - k
    BY <1>1
  <2> QED
    BY <2>3, <2>4
<1>4. b = room \/ At(found.start - b - 1) # At(i - b - 1)
  BY <1>2
<1>5. /\ Backwards \in 0 .. room
      /\ \A k \in 1 .. Backwards : At(found.start - k) = At(i - k)
  BY <1>3, <1>4 DEF Backwards
<1> QED
  <2> HIDE DEF room
  <2> QED
    BY <1>1, <1>5

-----------------------------------------------------------------------------
(***************************************************************************)
(* A sequence of m literals and a match of n bytes pays for itself: token, *)
(* offset and length bytes cost no more than the match saves and a byte    *)
(* for every ByteMax of input.                                             *)
(***************************************************************************)
LEMMA SequencePays ==
  ASSUME NEW m \in Nat, NEW n \in Nat, n >= MinMatch,
         NEW x \in Nat, NEW y \in Nat,
         m < RunMask => x = 0,
         m >= RunMask => ByteMax * x <= m - RunMask + ByteMax,
         n - MinMatch < RunMask => y = 0,
         n - MinMatch >= RunMask => ByteMax * y <= n - MinMatch - RunMask + ByteMax
  PROVE  ByteMax * (3 + m + x + y) <= Byte * (m + n)
<1> DEFINE B == ByteMax
           Bm == B * m
           Bn == B * n
           Bx == B * x
           By == B * y
           Bmin == B * MinMatch
<1>1. /\ B \in Nat /\ RunMask \in Nat /\ RunMask >= 1 /\ B >= RunMask
      /\ MinMatch \in Nat /\ Byte = B + 1
  BY Numbers
<1>2. /\ Bm \in Nat /\ Bn \in Nat /\ Bx \in Nat /\ By \in Nat /\ Bmin \in Nat
      /\ x = 0 => Bx = 0
      /\ y = 0 => By = 0
  BY <1>1
<1>3. B * (3 + m + x + y) = 3 * B + Bm + Bx + By
  BY <1>1
<1>4. Byte * (m + n) = Bm + Bn + m + n
  BY <1>1
<1>5. 4 * B <= Bmin + MinMatch + RunMask
  BY <1>1, EncodeAssumption
<1>6. Bx <= m + B - RunMask
  <2> HIDE DEF B
  <2>1. m < RunMask \/ B * x <= m - RunMask + B
    BY <1>1 DEF B
  <2> HIDE DEF Bx
  <2>2. m < RunMask \/ Bx <= m - RunMask + B
    BY <2>1 DEF Bx
  <2> QED
    BY <1>1, <1>2, <2>2
<1>7. Bn >= Bmin
  <2>1. ASSUME NEW a \in Nat, NEW b \in Nat, NEW c \in Nat, b >= c PROVE a * b >= a * c
    BY <2>1
  <2> QED
    BY <1>1, <2>1
<1>8. n - MinMatch >= RunMask => Bn >= Bmin + B
  <2>1. ASSUME NEW a \in Nat, NEW b \in Nat, NEW c \in Nat, b >= c + 1 PROVE a * b >= a * c + a
    <3>1. a * b >= a * (c + 1)
      BY <2>1
    <3> QED
      BY <3>1
  <2> QED
    BY <1>1, <2>1
<1>9. By = 0 \/ (By <= n - MinMatch - RunMask + B /\ Bn >= Bmin + B)
  <2>1. n - MinMatch < RunMask => By = 0
    BY <1>2
  <2>2. n - MinMatch >= RunMask => By <= n - MinMatch - RunMask + B
    OBVIOUS
  <2> HIDE DEF B, Bm, Bn, Bx, By, Bmin
  <2> QED
    BY <1>1, <1>8, <2>1, <2>2
<1>10. 3 * B + Bm + Bx + By <= Bm + Bn + m + n
  <2> HIDE DEF B, Bm, Bn, Bx, By, Bmin
  <2> QED
    BY <1>1, <1>2, <1>5, <1>6, <1>7, <1>9
<1> QED
  BY <1>3, <1>4, <1>10

(***************************************************************************)
(* The match that is emitted is one the decoder can undo, and ends at a    *)
(* later position.                                                         *)
(***************************************************************************)
LEMMA EmittedMatch ==
  ASSUME TypeOK, Positions, FoundIsMatch, epc = "emit"
  PROVE  /\ MatchStart \in anchor .. i /\ MatchSource \in Nat /\ MatchLength \in Nat
         /\ MatchEnd \in i + 1 .. N - LastLiterals
         /\ MatchIsValid
<1> DEFINE b == Backwards
<1>1. /\ b \in 0 .. i - anchor /\ b <= found.start
      /\ \A k \in 1 .. b : At(found.start - k) = At(i - k)
  BY BackwardsFacts
<1>2. MatchStart = i - b /\ MatchSource = found.start - b /\ MatchLength = found.len + b
  BY DEF MatchStart, MatchSource, MatchLength
<1> HIDE DEF b
<1>3. /\ i \in Nat /\ anchor \in Nat /\ anchor <= i /\ N \in Nat
      /\ found.start \in Nat /\ found.len \in Nat
  BY InputFacts DEF TypeOK
<1>4. MatchLimit = N - LastLiterals
  BY <1>3, Numbers DEF Positions, MatchLimit
<1>5. /\ MinMatch <= found.len
      /\ found.start < i /\ i - found.start <= MaxOffset
      /\ i + found.len <= N - LastLiterals
      /\ \A k \in 0 .. found.len - 1 : At(found.start + k) = At(i + k)
  BY <1>4 DEF FoundIsMatch, IsMatch
<1>6. MatchEnd = i + found.len
  BY <1>1, <1>2, <1>3 DEF MatchEnd
<1>7. ASSUME NEW k \in 0 .. MatchLength - 1
      PROVE  At(MatchSource + k) = At(MatchStart + k)
  <2>1. CASE k < b
    <3>1. b - k \in 1 .. b
      BY <1>1, <1>3, <2>1
    <3>2. At(found.start - (b - k)) = At(i - (b - k))
      BY <1>1, <3>1
    <3>3. found.start - (b - k) = MatchSource + k /\ i - (b - k) = MatchStart + k
      BY <1>1, <1>2, <1>3
    <3> QED
      BY <3>2, <3>3
  <2>2. CASE k >= b
    <3>1. k - b \in 0 .. found.len - 1
      BY <1>1, <1>2, <1>3, <2>2
    <3>2. At(found.start + (k - b)) = At(i + (k - b))
      BY <1>5, <3>1
    <3>3. found.start + (k - b) = MatchSource + k /\ i + (k - b) = MatchStart + k
      BY <1>1, <1>2, <1>3
    <3> QED
      BY <3>2, <3>3
  <2> QED
    BY <1>1, <1>3, <2>1, <2>2
<1>8. /\ MatchStart \in anchor .. i /\ MatchSource \in Nat /\ MatchLength \in Nat
      /\ MatchEnd \in i + 1 .. N - LastLiterals
  BY <1>1, <1>2, <1>3, <1>5, <1>6, Numbers
<1>9. /\ anchor <= MatchStart /\ MatchLength >= MinMatch
      /\ MatchEnd <= N - LastLiterals
      /\ 0 <= MatchSource /\ MatchSource < MatchStart
      /\ MatchStart - MatchSource <= MaxOffset
  BY <1>1, <1>2, <1>3, <1>5, <1>6, <1>8, Numbers
<1> QED
  BY <1>7, <1>8, <1>9 DEF MatchIsValid

-----------------------------------------------------------------------------
(* The three parts of the last sequence, or five of another, in a row. *)
LEMMA ThreeInARow ==
  ASSUME NEW a \in Seq(Bytes), NEW b \in Seq(Bytes), NEW c \in Seq(Bytes)
  PROVE  /\ a \o b \o c \in Seq(Bytes)
         /\ Len(a \o b \o c) = Len(a) + Len(b) + Len(c)
<1>1. a \o b \in Seq(Bytes) /\ Len(a \o b) = Len(a) + Len(b)
  BY ConcatProperties
<1>2. a \o b \o c \in Seq(Bytes) /\ Len(a \o b \o c) = Len(a \o b) + Len(c)
  BY <1>1, ConcatProperties
<1> QED
  BY <1>1, <1>2

LEMMA FiveInARow ==
  ASSUME NEW a \in Seq(Bytes), NEW b \in Seq(Bytes), NEW c \in Seq(Bytes),
         NEW d \in Seq(Bytes), NEW e \in Seq(Bytes)
  PROVE  /\ a \o b \o c \o d \o e \in Seq(Bytes)
         /\ Len(a \o b \o c \o d \o e) = Len(a) + Len(b) + Len(c) + Len(d) + Len(e)
<1>1. a \o b \o c \in Seq(Bytes) /\ Len(a \o b \o c) = Len(a) + Len(b) + Len(c)
  BY ThreeInARow
<1>2. a \o b \o c \o d \in Seq(Bytes) /\ Len(a \o b \o c \o d) = Len(a \o b \o c) + Len(d)
  BY <1>1, ConcatProperties
<1>3. /\ a \o b \o c \o d \o e \in Seq(Bytes)
      /\ Len(a \o b \o c \o d \o e) = Len(a \o b \o c \o d) + Len(e)
  BY <1>2, ConcatProperties
<1> QED
  BY <1>1, <1>2, <1>3

LEMMA LiteralsFacts ==
  ASSUME input \in Inputs, NEW a \in Nat, NEW b \in Nat, a <= b, b <= N
  PROVE  /\ SubSeq(input, a + 1, b) \in Seq(Bytes)
         /\ Len(SubSeq(input, a + 1, b)) = b - a
<1>1. \A k \in a + 1 .. b : input[k] \in Bytes
  <2> SUFFICES ASSUME NEW k \in a + 1 .. b PROVE input[k] \in Bytes
    OBVIOUS
  <2>1. k \in 1 .. N
    BY InputFacts
  <2> QED
    BY <2>1, InputFacts, EncodeAssumption
<1>2. a + 1 \in Int /\ b \in Int
  OBVIOUS
<1>3. /\ SubSeq(input, a + 1, b) \in Seq(Bytes)
      /\ Len(SubSeq(input, a + 1, b)) = IF a + 1 <= b THEN b - (a + 1) + 1 ELSE 0
  BY <1>1, <1>2, SubSeqProperties
<1> QED
  BY <1>3

LEMMA SequenceIsPaid ==
  ASSUME TypeOK, Positions, FoundIsMatch, epc = "emit"
  PROVE  /\ SequenceBytes \in Seq(Bytes) /\ Len(SequenceBytes) \in Nat
         /\ ByteMax * Len(SequenceBytes) <= Byte * (MatchEnd - anchor)
<1> DEFINE m == MatchStart - anchor
           code == MatchLength - MinMatch
           token == << Token(m, code) >>
           literals == SubSeq(input, anchor + 1, MatchStart)
           offset == OffsetBytes(MatchStart - MatchSource)
<1>1. /\ MatchStart \in anchor .. i /\ MatchSource \in Nat /\ MatchLength \in Nat
      /\ MatchEnd \in i + 1 .. N - LastLiterals
      /\ MatchLength >= MinMatch
      /\ MatchStart - MatchSource \in 0 .. MaxOffset
      /\ anchor \in Nat /\ i \in Nat /\ i <= N /\ N \in Nat /\ input \in Inputs
  <2>1. anchor \in Nat /\ i \in Nat /\ i <= N /\ N \in Nat /\ input \in Inputs
    BY InputFacts DEF TypeOK
  <2>2. /\ MatchStart \in anchor .. i /\ MatchSource \in Nat /\ MatchLength \in Nat
        /\ MatchEnd \in i + 1 .. N - LastLiterals
        /\ MatchLength >= MinMatch
        /\ MatchSource < MatchStart /\ MatchStart - MatchSource <= MaxOffset
    BY EmittedMatch DEF MatchIsValid
  <2>3. MatchStart - MatchSource \in 0 .. MaxOffset
    BY <2>1, <2>2, Numbers
  <2> QED
    BY <2>1, <2>2, <2>3
<1>2. m \in Nat /\ code \in Nat /\ m + MatchLength = MatchEnd - anchor
  BY <1>1, Numbers DEF MatchEnd
<1>3. token \in Seq(Bytes) /\ Len(token) = 1
  BY <1>2, TokenIsByte
<1>4. literals \in Seq(Bytes) /\ Len(literals) = m
  <2>1. MatchStart \in Nat /\ anchor <= MatchStart /\ MatchStart <= N
    BY <1>1
  <2> QED
    BY <1>1, <2>1, LiteralsFacts
<1>5. offset \in Seq(Bytes) /\ Len(offset) = 2
  BY <1>1, OffsetIsBytes
<1>6. /\ Extension(m) \in Seq(Bytes) /\ Len(Extension(m)) \in Nat
      /\ m < RunMask => Len(Extension(m)) = 0
      /\ m >= RunMask => ByteMax * Len(Extension(m)) <= m - RunMask + ByteMax
  <2> HIDE DEF m
  <2> QED
    BY <1>2, ExtensionIsShort
<1>7. /\ Extension(code) \in Seq(Bytes) /\ Len(Extension(code)) \in Nat
      /\ code < RunMask => Len(Extension(code)) = 0
      /\ code >= RunMask => ByteMax * Len(Extension(code)) <= code - RunMask + ByteMax
  <2> HIDE DEF code
  <2> QED
    BY <1>2, ExtensionIsShort
<1>8. SequenceBytes = token \o Extension(m) \o literals \o offset \o Extension(code)
  BY DEF SequenceBytes
<1>9. /\ SequenceBytes \in Seq(Bytes)
      /\ Len(SequenceBytes) = 3 + m + Len(Extension(m)) + Len(Extension(code))
  <2> HIDE DEF m, code, token, literals, offset
  <2> DEFINE x == Extension(m)
             y == Extension(code)
  <2>1. /\ token \in Seq(Bytes) /\ x \in Seq(Bytes) /\ literals \in Seq(Bytes)
        /\ offset \in Seq(Bytes) /\ y \in Seq(Bytes)
    BY <1>3, <1>4, <1>5, <1>6, <1>7
  <2> HIDE DEF x, y
  <2>2. /\ token \o x \o literals \o offset \o y \in Seq(Bytes)
        /\ Len(token \o x \o literals \o offset \o y)
             = Len(token) + Len(x) + Len(literals) + Len(offset) + Len(y)
    BY <2>1, FiveInARow
  <2> QED
    BY <1>2, <1>3, <1>4, <1>5, <1>6, <1>7, <1>8, <2>2 DEF x, y
<1>10. ByteMax * (3 + m + Len(Extension(m)) + Len(Extension(code))) <= Byte * (m + MatchLength)
  <2> HIDE DEF m
  <2> QED
    BY <1>1, <1>2, <1>6, <1>7, SequencePays
<1>11. Len(SequenceBytes) \in Nat
  BY <1>2, <1>6, <1>7, <1>9
<1> QED
  BY <1>2, <1>9, <1>10, <1>11

(* The last sequence has no match to pay for its token and length bytes. *)
LEMMA LastIsPaid ==
  ASSUME TypeOK
  PROVE  /\ LastBytes \in Seq(Bytes) /\ Len(LastBytes) \in Nat
         /\ ByteMax * Len(LastBytes) <= Byte * (N - anchor) + 2 * ByteMax
<1> DEFINE m == N - anchor
           token == << Token(m, 0) >>
           literals == SubSeq(input, anchor + 1, N)
<1>1. anchor \in Nat /\ N \in Nat /\ anchor <= N /\ m \in Nat /\ input \in Inputs
  BY InputFacts DEF TypeOK
<1>2. token \in Seq(Bytes) /\ Len(token) = 1
  BY <1>1, TokenIsByte
<1>3. literals \in Seq(Bytes) /\ Len(literals) = m
  <2>1. N <= N
    BY <1>1
  <2> QED
    BY <1>1, <2>1, LiteralsFacts
<1> HIDE DEF m, token, literals
<1>4. /\ Extension(m) \in Seq(Bytes) /\ Len(Extension(m)) \in Nat
      /\ m < RunMask => Len(Extension(m)) = 0
      /\ m >= RunMask => ByteMax * Len(Extension(m)) <= m - RunMask + ByteMax
  BY <1>1, ExtensionIsShort
<1>5. LastBytes = token \o Extension(m) \o literals
  BY DEF LastBytes, m, token, literals
<1>6. /\ LastBytes \in Seq(Bytes)
      /\ Len(LastBytes) = 1 + m + Len(Extension(m))
  <2>1. /\ token \o Extension(m) \o literals \in Seq(Bytes)
        /\ Len(token \o Extension(m) \o literals) = Len(token) + Len(Extension(m)) + Len(literals)
    BY <1>2, <1>3, <1>4, ThreeInARow, Zenon
  <2> QED
    BY <1>1, <1>2, <1>3, <1>4, <1>5, <2>1
<1> DEFINE x == Len(Extension(m))
           Bx == ByteMax * x
           Bm == ByteMax * m
<1>7. ByteMax \in Nat /\ RunMask \in Nat /\ ByteMax >= RunMask /\ Byte = ByteMax + 1
  BY Numbers
<1>8. x \in Nat /\ Bx \in Nat /\ Bm \in Nat /\ (x = 0 => Bx = 0)
  BY <1>1, <1>4, <1>7
<1>9. ByteMax * (1 + m + x) = ByteMax + Bm + Bx /\ Byte * m = Bm + m
  <2> HIDE DEF x
  <2> QED
    BY <1>1, <1>7, <1>8
<1>10. m < RunMask \/ Bx <= m - RunMask + ByteMax
  BY <1>1, <1>4, <1>7
<1>11. ByteMax + Bm + Bx <= Bm + m + 2 * ByteMax
  <2>1. m < RunMask => Bx = 0
    BY <1>4, <1>8
  <2> HIDE DEF x, Bx, Bm
  <2> QED
    BY <1>1, <1>7, <1>8, <1>10, <2>1
<1>12. ByteMax * Len(LastBytes) <= Byte * m + 2 * ByteMax
  BY <1>6, <1>9, <1>11
<1> QED
  BY <1>1, <1>4, <1>6, <1>12 DEF m

-----------------------------------------------------------------------------
(* What two stretches of the input cost together; what the whole may cost. *)
LEMMA CostsAdd ==
  ASSUME NEW x \in Nat, NEW y \in Nat, NEW a \in Nat, NEW b \in Nat, a <= b, NEW c \in Nat,
         ByteMax * x <= Byte * a, ByteMax * y <= Byte * (b - a) + c
  PROVE  ByteMax * (x + y) <= Byte * b + c
<1>1. ByteMax \in Nat /\ Byte \in Nat
  BY Numbers
<1>2. ByteMax * (x + y) = ByteMax * x + ByteMax * y /\ Byte * (b - a) = Byte * b - Byte * a
  BY <1>1
<1> DEFINE Bx == ByteMax * x
           By == ByteMax * y
           Ca == Byte * a
           Cb == Byte * b
<1>3. /\ Bx \in Int /\ By \in Int /\ Ca \in Int /\ Cb \in Int
      /\ Bx <= Ca /\ By <= (Cb - Ca) + c
  BY <1>1, <1>2
<1>4. Bx + By <= Cb + c
  <2> HIDE DEF Bx, By, Ca, Cb
  <2> QED
    BY <1>3
<1> QED
  BY <1>2, <1>4

LEMMA WorstCase ==
  ASSUME NEW t \in Nat, NEW n \in Nat, ByteMax * t <= Byte * n + 2 * ByteMax
  PROVE  t <= n + n \div ByteMax + Slack
<1> DEFINE q == n \div ByteMax
<1>1. ByteMax \in Nat /\ ByteMax >= 1 /\ Byte = ByteMax + 1 /\ Slack \in Nat /\ Slack >= 2
  BY Numbers
<1>2. q \in Nat /\ n < ByteMax * q + ByteMax
  BY <1>1, DivisionFacts
<1> HIDE DEF q
<1>3. Byte * n = ByteMax * n + n
  BY <1>1
<1>4. ByteMax * (n + q + 3) = ByteMax * n + ByteMax * q + 3 * ByteMax
  BY <1>1, <1>2
<1>5. ByteMax * t < ByteMax * (n + q + 3)
  <2> DEFINE Bt == ByteMax * t
             Bn == ByteMax * n
             Bq == ByteMax * q
  <2>1. Bt \in Int /\ Bn \in Int /\ Bq \in Int /\ Bt <= Bn + n + 2 * ByteMax /\ n < Bq + ByteMax
    BY <1>1, <1>2, <1>3
  <2>2. Bt < Bn + Bq + 3 * ByteMax
    <3> HIDE DEF Bt, Bn, Bq
    <3> QED
      BY <1>1, <2>1
  <2> QED
    BY <1>4, <2>2
<1>6. t < n + q + 3
  <2>1. ASSUME NEW u \in Nat, t >= u PROVE ByteMax * t >= ByteMax * u
    BY <1>1, <2>1
  <2>2. n + q + 3 \in Nat
    BY <1>2
  <2>3. ByteMax * t \in Int /\ ByteMax * (n + q + 3) \in Int
    BY <1>1, <1>2
  <2> QED
    BY <1>5, <2>1, <2>2, <2>3
<1>7. t <= n + q + Slack
  BY <1>1, <1>2, <1>6
<1> QED
  BY <1>7 DEF q

-----------------------------------------------------------------------------
LEMMA SameInput ==
  ASSUME input' = input
  PROVE  N' = N /\ MatchLimit' = MatchLimit /\ LargeEnough' = LargeEnough
  BY DEF N, MatchLimit, LargeEnough

LEMMA InitEstablishes == Init => IInv
<1> SUFFICES ASSUME Init PROVE IInv
  OBVIOUS
<1>1. input \in Inputs /\ N \in Nat /\ cap \in Nat /\ cap \in Caps
  BY InputFacts, EncodeAssumption DEF Init
<1>2. epc \in {"ok", "loop"}
  BY DEF Init
<1>3. TypeOK
  <2>1. enc \in Seq(Bytes) /\ Len(enc) <= cap
    BY <1>1 DEF Init
  <2>2. anchor \in 0 .. N /\ i \in anchor .. N
    BY <1>1 DEF Init
  <2>3. head \in [Buckets -> 0 .. N \cup {Nil}]
    BY DEF Init
  <2>4. chain \in [0 .. ChainSize - 1 -> 0 .. N \cup {Nil}]
    BY DEF Init
  <2>5. walk \in [at : 0 .. N, cand : 0 .. N \cup {Nil}, tries : 0 .. Attempts,
                  start : 0 .. N, len : 0 .. N]
    BY <1>1, Numbers DEF Init, NoWalk
  <2>6. found \in [start : 0 .. N, len : 0 .. N] /\ promise \in [at : 0 .. N, len : 0 .. N]
    BY <1>1 DEF Init, NoMatch, NoPromise
  <2> QED
    BY <1>1, <1>2, <2>1, <2>2, <2>3, <2>4, <2>5, <2>6 DEF TypeOK, EncStages
<1>4. ByteMax * Len(enc) <= Byte * anchor
  <2>1. Len(enc) = 0 /\ anchor = 0
    BY DEF Init
  <2> QED
    BY <2>1, Numbers
<1> QED
  BY <1>2, <1>3, <1>4
     DEF IInv, Positions, WalkIsMatch, FoundIsMatch, Spent, NeverTooSmall, EncStages

(* What the arrays hold of a position is a position no newer, or Nil. *)
LEMMA StoredInRange ==
  ASSUME NEW n \in Nat, NEW p \in 0 .. n
  PROVE  Stored(p) \in 0 .. n \cup {Nil}
<1>1. U32 \in Nat \ {0}
  BY EncodeAssumption
<1>2. p % U32 \in 0 .. p
  BY <1>1
<1>3. p % U32 \in 0 .. n
  BY <1>2
<1>4. CASE p % U32 = U32 - 1
  <2>1. Stored(p) = Nil
    BY <1>4 DEF Stored
  <2> QED
    BY <2>1
<1>5. CASE p % U32 # U32 - 1
  <2>1. Stored(p) = p % U32
    BY <1>5 DEF Stored
  <2> QED
    BY <1>3, <2>1
<1> QED
  BY <1>4, <1>5

(* A walk starts at p with no match yet, from a candidate that is a position or Nil. *)
LEMMA WalkStarts ==
  ASSUME TypeOK, input' = input, NEW p \in Nat, p + MfLimit <= N, InsertAndWalk(p)
  PROVE  /\ head' \in [Buckets -> 0 .. N \cup {Nil}]
         /\ chain' \in [0 .. ChainSize - 1 -> 0 .. N \cup {Nil}]
         /\ walk' \in [at : 0 .. N, cand : 0 .. N \cup {Nil}, tries : 0 .. Attempts,
                       start : 0 .. N, len : 0 .. N]
         /\ walk'.at = p /\ walk'.len = 0
<1>1. N \in Nat /\ p \in 0 .. N /\ 0 \in 0 .. N /\ 0 \in 0 .. Attempts
  BY InputFacts, Numbers DEF TypeOK
<1>2. Bucket(p) \in Buckets
  <2>1. p + MinMatch <= N
    BY <1>1, Numbers
  <2> QED
    BY <2>1, BucketInRange DEF TypeOK
<1>3. head[Bucket(p)] \in 0 .. N \cup {Nil}
  BY <1>2 DEF TypeOK
<1>4. head' \in [Buckets -> 0 .. N \cup {Nil}]
  <2>1. Stored(p) \in 0 .. N \cup {Nil}
    BY <1>1, StoredInRange
  <2> QED
    BY <1>2, <2>1 DEF InsertAndWalk, TypeOK
<1>5. chain' \in [0 .. ChainSize - 1 -> 0 .. N \cup {Nil}]
  BY <1>3 DEF InsertAndWalk, TypeOK
<1> QED
  BY <1>1, <1>3, <1>4, <1>5 DEF InsertAndWalk

-----------------------------------------------------------------------------
(* Until something is written, what is spent stays, and no stage is a refusal. *)
LEMMA NothingWritten ==
  ASSUME IInv, UNCHANGED << input, cap, enc, anchor >>,
         epc \in EncStages \ {"ok", "tooSmall"}, epc' \in EncStages \ {"ok", "tooSmall"}
  PROVE  Spent' /\ NeverTooSmall'
  BY DEF IInv, Spent, NeverTooSmall

LEMMA SearchKeeps ==
  ASSUME IInv, SearchPosition
  PROVE  IInv'
<1>1. input' = input /\ N' = N /\ MatchLimit' = MatchLimit
  BY SameInput DEF SearchPosition
<1>2. i \in Nat /\ i + MfLimit <= N /\ i' = i /\ epc' = "walk"
  BY InputFacts DEF SearchPosition, IInv, TypeOK
<1>3. /\ head' \in [Buckets -> 0 .. N \cup {Nil}]
      /\ chain' \in [0 .. ChainSize - 1 -> 0 .. N \cup {Nil}]
      /\ walk' \in [at : 0 .. N, cand : 0 .. N \cup {Nil}, tries : 0 .. Attempts,
                    start : 0 .. N, len : 0 .. N]
      /\ walk'.at = i /\ walk'.len = 0
  BY <1>1, <1>2, WalkStarts DEF SearchPosition, IInv
<1>4. TypeOK'
  BY <1>1, <1>2, <1>3 DEF SearchPosition, IInv, TypeOK, EncStages
<1>5. Positions' /\ WalkIsMatch' /\ FoundIsMatch'
  BY <1>1, <1>2, <1>3 DEF Positions, WalkIsMatch, FoundIsMatch
<1>6. Spent' /\ NeverTooSmall'
  BY <1>2, NothingWritten DEF SearchPosition, EncStages
<1> QED
  BY <1>4, <1>5, <1>6 DEF IInv

LEMMA EndSearchKeeps ==
  ASSUME IInv, EndSearch
  PROVE  IInv'
<1>1. N' = N /\ MatchLimit' = MatchLimit /\ epc' = "last"
  BY SameInput DEF EndSearch
<1>2. TypeOK'
  BY <1>1 DEF EndSearch, IInv, TypeOK, EncStages
<1>3. Positions' /\ WalkIsMatch' /\ FoundIsMatch'
  BY <1>1 DEF Positions, WalkIsMatch, FoundIsMatch
<1>4. Spent' /\ NeverTooSmall'
  BY <1>1, NothingWritten DEF EndSearch, EncStages
<1> QED
  BY <1>2, <1>3, <1>4 DEF IInv

(* The longest match of a walk, after one candidate more. *)
LEMMA CandidateCompared ==
  ASSUME IInv, WalkStep
  PROVE  /\ walk' \in [at : 0 .. N, cand : 0 .. N \cup {Nil}, tries : 0 .. Attempts,
                       start : 0 .. N, len : 0 .. N]
         /\ walk'.at = walk.at
         /\ walk'.len = 0 \/ IsMatch(walk.at, walk'.start, walk'.len)
<1> DEFINE c == walk.cand
           p == walk.at
           compared == WorthComparing /\ Probe(c) = Probe(p)
           length == IF compared THEN Agreement(c, p) ELSE 0
<1>1. /\ walk \in [at : 0 .. N, cand : 0 .. N \cup {Nil}, tries : 0 .. Attempts,
                   start : 0 .. N, len : 0 .. N]
      /\ N \in Nat /\ input \in Inputs /\ Attempts \in Nat /\ ChainSize \in Nat /\ ChainSize >= 1
  BY InputFacts, Numbers DEF IInv, TypeOK
<1>2. c \in 0 .. N /\ p \in 0 .. N /\ c < p /\ p - c <= MaxOffset /\ walk.tries < Attempts
  BY <1>1 DEF WalkStep, CandidateLeft
<1>3. p + MfLimit <= N /\ p + MinMatch <= MatchLimit
  <2>1. p + MfLimit <= N
    BY DEF WalkStep, IInv, Positions
  <2> QED
    BY <1>1, <1>2, <2>1, Numbers DEF MatchLimit
<1>4. chain[c % ChainSize] \in 0 .. N \cup {Nil}
  <2>1. c % ChainSize \in 0 .. ChainSize - 1
    <3> HIDE DEF c
    <3>1. c \in Nat
      BY <1>1, <1>2
    <3> QED
      BY <1>1, <3>1, DivisionFacts
  <2> QED
    BY <2>1 DEF IInv, TypeOK
<1>5. length = 0 \/ IsMatch(p, c, length)
  <2>1. CASE ~ compared
    BY <2>1
  <2>2. CASE compared
    <3>1. /\ Agreement(c, p) \in MinMatch .. MatchLimit - p
          /\ \A k \in 0 .. Agreement(c, p) - 1 : At(c + k) = At(p + k)
      BY <1>1, <1>2, <1>3, <2>2, AgreementFacts
    <3>2. p \in Nat /\ MatchLimit \in Nat /\ MinMatch \in Nat
      BY <1>1, <1>2, InputFacts, Numbers
    <3>3. MinMatch <= Agreement(c, p) /\ p + Agreement(c, p) <= MatchLimit
      BY <3>1, <3>2
    <3>4. IsMatch(p, c, Agreement(c, p))
      BY <1>2, <3>1, <3>3 DEF IsMatch
    <3> QED
      BY <2>2, <3>4
  <2> QED
    BY <2>1, <2>2
<1> HIDE DEF length
<1>6. length \in 0 .. N
  <2>1. CASE length = 0
    BY <1>1, <2>1
  <2>2. CASE IsMatch(p, c, length)
    <3>1. length \in Int
      <4>1. CASE compared
        BY <1>1, <1>2, <1>3, <4>1, AgreementFacts, InputFacts, Numbers DEF length
      <4> QED
        BY <4>1 DEF length
    <3>2. MinMatch <= length /\ p + length <= MatchLimit
      BY <2>2 DEF IsMatch
    <3> QED
      BY <1>1, <1>2, <3>1, <3>2, InputFacts, Numbers
  <2> QED
    BY <1>5, <2>1, <2>2
<1>7. walk' = [walk EXCEPT !.cand = chain[c % ChainSize],
                           !.tries = walk.tries + 1,
                           !.start = IF length > walk.len THEN c ELSE @,
                           !.len = IF length > walk.len THEN length ELSE @]
  BY DEF WalkStep, NextTry, length
<1>8. walk'.at = walk.at
  BY <1>1, <1>7
<1>9. walk' \in [at : 0 .. N, cand : 0 .. N \cup {Nil}, tries : 0 .. Attempts,
                 start : 0 .. N, len : 0 .. N]
  <2>1. walk.tries + 1 \in 0 .. Attempts
    BY <1>1, <1>2
  <2> QED
    BY <1>1, <1>2, <1>4, <1>6, <1>7, <2>1
<1>10. walk'.len = 0 \/ IsMatch(p, walk'.start, walk'.len)
  <2>1. CASE length > walk.len
    <3>1. walk'.start = c /\ walk'.len = length
      BY <1>1, <1>7, <2>1
    <3>2. length # 0
      BY <1>1, <1>6, <2>1
    <3> QED
      BY <1>5, <3>1, <3>2
  <2>2. CASE ~ (length > walk.len)
    <3>1. walk'.start = walk.start /\ walk'.len = walk.len
      BY <1>1, <1>7, <2>2
    <3>2. walk.len = 0 \/ IsMatch(p, walk.start, walk.len)
      BY DEF WalkStep, IInv, WalkIsMatch
    <3> QED
      BY <3>1, <3>2
  <2> QED
    BY <2>1, <2>2
<1> QED
  BY <1>8, <1>9, <1>10

LEMMA WalkStepKeeps ==
  ASSUME IInv, WalkStep
  PROVE  IInv'
<1>1. /\ UNCHANGED << input, cap, enc, anchor, i, head, chain, found, epc, promise >>
      /\ epc \in {"walk", "lazyWalk"}
  BY DEF WalkStep
<1>2. N' = N /\ MatchLimit' = MatchLimit
  BY <1>1, SameInput
<1>3. /\ walk' \in [at : 0 .. N, cand : 0 .. N \cup {Nil}, tries : 0 .. Attempts,
                    start : 0 .. N, len : 0 .. N]
      /\ walk'.at = walk.at
      /\ walk'.len = 0 \/ IsMatch(walk.at, walk'.start, walk'.len)
  BY CandidateCompared
<1>4. TypeOK'
  BY <1>1, <1>2, <1>3 DEF IInv, TypeOK
<1>5. Positions'
  BY <1>1, <1>2, <1>3 DEF IInv, Positions
<1>6. WalkIsMatch'
  BY <1>1, <1>2, <1>3 DEF WalkIsMatch, IsMatch, At
<1>7. FoundIsMatch'
  BY <1>1, <1>2 DEF IInv, FoundIsMatch, IsMatch, At
<1>8. Spent' /\ NeverTooSmall'
  BY <1>1, NothingWritten DEF EncStages
<1> QED
  BY <1>4, <1>5, <1>6, <1>7, <1>8 DEF IInv

LEMMA NothingFoundKeeps ==
  ASSUME IInv, WalkFindsNothing
  PROVE  IInv'
<1>1. /\ UNCHANGED << input, cap, enc, anchor, head, chain, walk, found, promise >>
      /\ epc = "walk" /\ epc' = "loop" /\ i' = i + 1
  BY DEF WalkFindsNothing
<1>2. N' = N /\ N \in Nat
  BY <1>1, SameInput, InputFacts DEF IInv, TypeOK
<1>3. i' \in anchor .. N
  BY <1>1, <1>2, Numbers DEF IInv, TypeOK, Positions
<1>4. TypeOK'
  BY <1>1, <1>2, <1>3 DEF IInv, TypeOK, EncStages
<1>5. Positions' /\ WalkIsMatch' /\ FoundIsMatch'
  BY <1>1 DEF Positions, WalkIsMatch, FoundIsMatch
<1>6. Spent' /\ NeverTooSmall'
  BY <1>1, NothingWritten DEF EncStages
<1> QED
  BY <1>4, <1>5, <1>6 DEF IInv

LEMMA MatchFoundKeeps ==
  ASSUME IInv, WalkFindsMatch
  PROVE  IInv'
<1>1. /\ UNCHANGED << input, cap, enc, anchor, i, promise >>
      /\ epc = "walk" /\ walk.len >= MinMatch
      /\ found' = [start |-> walk.start, len |-> walk.len]
      /\ epc' \in {"lazyWalk", "emit"}
  BY DEF WalkFindsMatch
<1>2. N' = N /\ MatchLimit' = MatchLimit /\ N \in Nat /\ i \in Nat /\ input' = input
  BY <1>1, SameInput, InputFacts DEF IInv, TypeOK
<1>3. IsMatch(i, walk.start, walk.len) /\ i + MfLimit <= N
  <2>1. walk.len # 0
    BY <1>1, Numbers
  <2> QED
    BY <1>1, <2>1 DEF IInv, WalkIsMatch, Positions
<1>4. FoundIsMatch'
  BY <1>1, <1>2, <1>3 DEF FoundIsMatch, IsMatch, At
<1>5. /\ head' \in [Buckets -> 0 .. N \cup {Nil}]
      /\ chain' \in [0 .. ChainSize - 1 -> 0 .. N \cup {Nil}]
      /\ walk' \in [at : 0 .. N, cand : 0 .. N \cup {Nil}, tries : 0 .. Attempts,
                    start : 0 .. N, len : 0 .. N]
      /\ epc' = "lazyWalk" => walk'.at = i + 1 /\ walk'.len = 0 /\ i + 1 + MfLimit <= N
  <2>1. CASE LooksAhead
    <3>1. i + 1 \in Nat /\ i + 1 + MfLimit <= N /\ InsertAndWalk(i + 1)
      BY <1>2, <2>1 DEF WalkFindsMatch, LooksAhead
    <3> QED
      BY <1>2, <3>1, WalkStarts DEF IInv
  <2>2. CASE ~ LooksAhead
    BY <2>2 DEF WalkFindsMatch, IInv, TypeOK
  <2> QED
    BY <2>1, <2>2
<1>6. found' \in [start : 0 .. N, len : 0 .. N]
  BY <1>1 DEF IInv, TypeOK
<1>7. TypeOK'
  BY <1>1, <1>2, <1>5, <1>6 DEF IInv, TypeOK, EncStages
<1>8. Positions' /\ WalkIsMatch'
  BY <1>1, <1>2, <1>3, <1>5 DEF Positions, WalkIsMatch
<1>9. Spent' /\ NeverTooSmall'
  BY <1>1, NothingWritten DEF EncStages
<1> QED
  BY <1>4, <1>7, <1>8, <1>9 DEF IInv

LEMMA DeferKeeps ==
  ASSUME IInv, LazyDefers
  PROVE  IInv'
<1>1. /\ UNCHANGED << input, cap, enc, anchor, head, chain, walk, found >>
      /\ epc = "lazyWalk" /\ epc' = "loop" /\ i' = i + 1
      /\ promise' = [at |-> i + 1, len |-> walk.len]
  BY DEF LazyDefers
<1>2. N' = N /\ N \in Nat
  BY <1>1, SameInput, InputFacts DEF IInv, TypeOK
<1>3. i' \in anchor .. N /\ i + 1 \in 0 .. N
  BY <1>1, <1>2, Numbers DEF IInv, TypeOK, Positions
<1>4. promise' \in [at : 0 .. N, len : 0 .. N]
  BY <1>1, <1>3 DEF IInv, TypeOK
<1>5. TypeOK'
  BY <1>1, <1>2, <1>3, <1>4 DEF IInv, TypeOK, EncStages
<1>6. Positions' /\ WalkIsMatch' /\ FoundIsMatch'
  BY <1>1 DEF Positions, WalkIsMatch, FoundIsMatch
<1>7. Spent' /\ NeverTooSmall'
  BY <1>1, NothingWritten DEF EncStages
<1> QED
  BY <1>5, <1>6, <1>7 DEF IInv

LEMMA KeepKeeps ==
  ASSUME IInv, LazyKeeps
  PROVE  IInv'
<1>1. /\ UNCHANGED << input, cap, enc, anchor, i, head, chain, walk, found, promise >>
      /\ epc = "lazyWalk" /\ epc' = "emit"
  BY DEF LazyKeeps
<1>2. N' = N /\ MatchLimit' = MatchLimit /\ N \in Nat /\ i \in Nat /\ input' = input
  BY <1>1, SameInput, InputFacts DEF IInv, TypeOK
<1>3. TypeOK'
  BY <1>1, <1>2 DEF IInv, TypeOK, EncStages
<1>4. Positions' /\ WalkIsMatch'
  BY <1>1, <1>2, Numbers DEF IInv, Positions, WalkIsMatch
<1>5. FoundIsMatch'
  BY <1>1, <1>2 DEF IInv, FoundIsMatch, IsMatch, At
<1>6. Spent' /\ NeverTooSmall'
  BY <1>1, NothingWritten DEF EncStages
<1> QED
  BY <1>3, <1>4, <1>5, <1>6 DEF IInv

-----------------------------------------------------------------------------
(* What the inner insertions leave in head and chain are positions of the match. *)
LEMMA InsertionsInRange ==
  ASSUME IInv, epc = "emit"
  PROVE  /\ [h \in Buckets |-> IF InBucket(h) = {} THEN head[h] ELSE Stored(Newest(InBucket(h)))]
              \in [Buckets -> 0 .. N \cup {Nil}]
         /\ [s \in 0 .. ChainSize - 1 |->
               IF InSlot(s) = {} THEN chain[s] ELSE Older(Newest(InSlot(s)))]
              \in [0 .. ChainSize - 1 -> 0 .. N \cup {Nil}]
<1>1. i \in Nat /\ N \in Nat /\ MatchEnd \in i + 1 .. N - LastLiterals /\ input \in Inputs
  BY EmittedMatch, InputFacts DEF IInv, TypeOK
<1>2. Inside \subseteq 0 .. N /\ \A p \in Inside : p + MinMatch <= N
  BY <1>1, Numbers DEF Inside
<1>3. \A p \in Inside : Bucket(p) \in Buckets
  BY <1>1, <1>2, BucketInRange
<1>4. ASSUME NEW S \in SUBSET Inside, S # {} PROVE Newest(S) \in S /\ Stored(Newest(S)) \in 0 .. N \cup {Nil}
  <2>1. S \in SUBSET (0 .. N)
    BY <1>2
  <2>2. Newest(S) \in S /\ Newest(S) \in 0 .. N
    BY <1>1, <1>4, <2>1, NewestExists
  <2> QED
    BY <1>1, <2>2, StoredInRange
<1>5. ASSUME NEW h \in Buckets
      PROVE  (IF InBucket(h) = {} THEN head[h] ELSE Stored(Newest(InBucket(h)))) \in 0 .. N \cup {Nil}
  <2>1. InBucket(h) \in SUBSET Inside
    BY DEF InBucket
  <2>2. head[h] \in 0 .. N \cup {Nil}
    BY DEF IInv, TypeOK
  <2> QED
    BY <1>4, <2>1, <2>2
<1>6. ASSUME NEW p \in Inside PROVE Older(p) \in 0 .. N \cup {Nil}
  <2>1. Earlier(p) \in SUBSET Inside
    BY DEF Earlier
  <2>2. head[Bucket(p)] \in 0 .. N \cup {Nil}
    BY <1>3 DEF IInv, TypeOK
  <2> QED
    BY <1>4, <2>1, <2>2 DEF Older
<1>7. ASSUME NEW s \in 0 .. ChainSize - 1
      PROVE  (IF InSlot(s) = {} THEN chain[s] ELSE Older(Newest(InSlot(s)))) \in 0 .. N \cup {Nil}
  <2>1. InSlot(s) \in SUBSET Inside
    BY DEF InSlot
  <2>2. chain[s] \in 0 .. N \cup {Nil}
    BY DEF IInv, TypeOK
  <2>3. InSlot(s) # {} => Newest(InSlot(s)) \in Inside
    BY <1>4, <2>1
  <2> QED
    BY <1>6, <2>2, <2>3
<1> QED
  BY <1>5, <1>7

LEMMA EmitSequenceKeeps ==
  ASSUME IInv, EmitSequence
  PROVE  IInv'
<1>1. /\ UNCHANGED << input, cap, walk, found >> /\ promise' = NoPromise /\ epc = "emit"
  BY DEF EmitSequence
<1>2. /\ N' = N /\ N \in Nat /\ LargeEnough' = LargeEnough
      /\ i \in Nat /\ anchor \in Nat /\ anchor <= i /\ cap \in Nat
      /\ enc \in Seq(Bytes) /\ Len(enc) \in Nat
  BY <1>1, SameInput, InputFacts, EncodeAssumption, LenProperties DEF IInv, TypeOK
<1>3. /\ SequenceBytes \in Seq(Bytes) /\ Len(SequenceBytes) \in Nat
      /\ ByteMax * Len(SequenceBytes) <= Byte * (MatchEnd - anchor)
      /\ MatchEnd \in i + 1 .. N - LastLiterals
  BY <1>1, SequenceIsPaid, EmittedMatch DEF IInv
<1>4. MatchEnd \in Nat /\ anchor <= MatchEnd /\ MatchEnd <= N
  BY <1>2, <1>3, Numbers
<1>5. ByteMax * (Len(enc) + Len(SequenceBytes)) <= Byte * MatchEnd
  <2>1. ByteMax * Len(enc) <= Byte * anchor
    BY <1>1 DEF IInv, Spent, EncStages
  <2>2. ByteMax * Len(SequenceBytes) <= Byte * (MatchEnd - anchor) + 0
    BY <1>2, <1>3, <1>4, Numbers
  <2>3. ByteMax * (Len(enc) + Len(SequenceBytes)) <= Byte * MatchEnd + 0
    <3>1. 0 \in Nat
      OBVIOUS
    <3> QED
      BY <1>2, <1>3, <1>4, <2>1, <2>2, <3>1, CostsAdd
  <2> QED
    BY <1>4, <2>3, Numbers
<1>6. promise' \in [at : 0 .. N, len : 0 .. N]
  BY <1>1, <1>2 DEF NoPromise
<1>7. CASE Len(enc) + Len(SequenceBytes) > cap
  <2>1. epc' = "tooSmall" /\ UNCHANGED << enc, anchor, i, head, chain >>
    BY <1>7 DEF EmitSequence
  <2>2. TypeOK'
    BY <1>1, <1>2, <1>6, <2>1 DEF IInv, TypeOK, EncStages
  <2>3. Positions' /\ WalkIsMatch' /\ FoundIsMatch' /\ Spent'
    BY <2>1 DEF Positions, WalkIsMatch, FoundIsMatch, Spent, EncStages
  <2>4. Len(enc) + Len(SequenceBytes) <= MatchEnd + MatchEnd \div ByteMax + Slack
    <3> DEFINE t == Len(enc) + Len(SequenceBytes)
    <3>1. t \in Nat
      BY <1>2, <1>3
    <3>2. ByteMax * t <= Byte * MatchEnd
      BY <1>5
    <3> HIDE DEF t
    <3>3. ByteMax * t <= Byte * MatchEnd + 2 * ByteMax
      <4>1. ByteMax * t \in Int /\ Byte * MatchEnd \in Int /\ ByteMax \in Nat
        BY <1>4, <3>1, Numbers
      <4> QED
        BY <3>2, <4>1
    <3>4. t <= MatchEnd + MatchEnd \div ByteMax + Slack
      BY <1>4, <3>1, <3>3, WorstCase
    <3> QED
      BY <3>4 DEF t
  <2>5. MatchEnd \div ByteMax <= N \div ByteMax
    BY <1>2, <1>4, DivisionGrows, Numbers
  <2>6. cap < LargeEnough
    <3>1. MatchEnd \div ByteMax \in Nat /\ N \div ByteMax \in Nat /\ Slack \in Nat
      BY <1>2, <1>4, DivisionFacts, Numbers
    <3> QED
      BY <1>2, <1>3, <1>4, <1>7, <2>4, <2>5, <3>1 DEF LargeEnough
  <2> QED
    BY <1>1, <1>2, <2>2, <2>3, <2>6 DEF IInv, NeverTooSmall
<1>8. CASE ~ (Len(enc) + Len(SequenceBytes) > cap)
  <2>1. /\ enc' = enc \o SequenceBytes /\ i' = MatchEnd /\ anchor' = MatchEnd /\ epc' = "loop"
        /\ head' = [h \in Buckets |->
                      IF InBucket(h) = {} THEN head[h] ELSE Stored(Newest(InBucket(h)))]
        /\ chain' = [s \in 0 .. ChainSize - 1 |->
                       IF InSlot(s) = {} THEN chain[s] ELSE Older(Newest(InSlot(s)))]
    BY <1>8 DEF EmitSequence
  <2>2. enc' \in Seq(Bytes) /\ Len(enc') = Len(enc) + Len(SequenceBytes)
    BY <1>2, <1>3, <2>1, ConcatProperties
  <2>3. Len(enc') <= cap
    BY <1>2, <1>3, <1>8, <2>2
  <2>4. /\ head' \in [Buckets -> 0 .. N \cup {Nil}]
        /\ chain' \in [0 .. ChainSize - 1 -> 0 .. N \cup {Nil}]
    BY <1>1, <2>1, InsertionsInRange
  <2>5. anchor' \in 0 .. N /\ i' \in anchor' .. N
    BY <1>2, <1>4, <2>1
  <2>6. TypeOK'
    BY <1>1, <1>2, <1>6, <2>1, <2>2, <2>3, <2>4, <2>5 DEF IInv, TypeOK, EncStages
  <2>7. Positions' /\ WalkIsMatch' /\ FoundIsMatch' /\ NeverTooSmall'
    BY <2>1 DEF Positions, WalkIsMatch, FoundIsMatch, NeverTooSmall
  <2>8. Spent'
    BY <1>5, <2>1, <2>2 DEF Spent
  <2> QED
    BY <2>6, <2>7, <2>8 DEF IInv
<1> QED
  BY <1>7, <1>8

LEMMA EmitLastKeeps ==
  ASSUME IInv, EmitLast
  PROVE  IInv'
<1>1. /\ UNCHANGED << input, cap, anchor, i, head, chain, walk, found, promise >>
      /\ epc = "last" /\ epc' \in {"ok", "tooSmall"}
  BY DEF EmitLast
<1>2. /\ N' = N /\ N \in Nat /\ LargeEnough' = LargeEnough
      /\ anchor \in Nat /\ anchor <= N /\ cap \in Nat
      /\ enc \in Seq(Bytes) /\ Len(enc) \in Nat
  BY <1>1, SameInput, InputFacts, EncodeAssumption, LenProperties DEF IInv, TypeOK
<1>3. /\ LastBytes \in Seq(Bytes) /\ Len(LastBytes) \in Nat
      /\ ByteMax * Len(LastBytes) <= Byte * (N - anchor) + 2 * ByteMax
  BY LastIsPaid DEF IInv
<1>4. Len(enc) + Len(LastBytes) <= LargeEnough
  <2> DEFINE t == Len(enc) + Len(LastBytes)
             c == 2 * ByteMax
  <2>1. t \in Nat /\ c \in Nat
    BY <1>2, <1>3, Numbers
  <2>2. ByteMax * Len(enc) <= Byte * anchor
    BY <1>1 DEF IInv, Spent, EncStages
  <2>3. ByteMax * Len(LastBytes) <= Byte * (N - anchor) + c
    BY <1>3
  <2>4. ByteMax * t <= Byte * N + c
    <3> HIDE DEF c
    <3> QED
      BY <1>2, <1>3, <2>1, <2>2, <2>3, CostsAdd
  <2>5. ByteMax * t <= Byte * N + 2 * ByteMax
    BY <2>4
  <2> HIDE DEF t
  <2>6. t <= N + N \div ByteMax + Slack
    BY <1>2, <2>1, <2>5, WorstCase
  <2> QED
    BY <2>6 DEF t, LargeEnough
<1>5. enc' \in Seq(Bytes) /\ Len(enc') <= cap
  <2>1. CASE epc' = "tooSmall"
    BY <1>2, <2>1 DEF EmitLast, IInv, TypeOK
  <2>2. CASE epc' = "ok"
    <3>1. enc' = enc \o LastBytes /\ ~ (Len(enc) + Len(LastBytes) > cap)
      BY <2>2 DEF EmitLast
    <3>2. enc' \in Seq(Bytes) /\ Len(enc') = Len(enc) + Len(LastBytes)
      BY <1>2, <1>3, <3>1, ConcatProperties
    <3> QED
      BY <1>2, <1>3, <3>1, <3>2
  <2> QED
    BY <1>1, <2>1, <2>2
<1>6. TypeOK'
  BY <1>1, <1>2, <1>5 DEF IInv, TypeOK, EncStages
<1>7. Positions' /\ WalkIsMatch' /\ FoundIsMatch' /\ Spent'
  BY <1>1 DEF Positions, WalkIsMatch, FoundIsMatch, Spent, EncStages
<1>8. NeverTooSmall'
  <2> SUFFICES ASSUME epc' = "tooSmall" PROVE cap' < LargeEnough'
    BY DEF NeverTooSmall
  <2>1. Len(enc) + Len(LastBytes) > cap
    BY DEF EmitLast
  <2>2. LargeEnough \in Int
    BY <1>2, DivisionFacts, Numbers DEF LargeEnough
  <2> QED
    BY <1>1, <1>2, <1>3, <1>4, <2>1, <2>2
<1> QED
  BY <1>6, <1>7, <1>8 DEF IInv

-----------------------------------------------------------------------------
LEMMA NextKeeps == IInv /\ [EncNext]_encVars => IInv'
<1> SUFFICES ASSUME IInv, [EncNext]_encVars PROVE IInv'
  OBVIOUS
<1>1. CASE EncNext
  BY <1>1, SearchKeeps, EndSearchKeeps, WalkStepKeeps, NothingFoundKeeps, MatchFoundKeeps,
     DeferKeeps, KeepKeeps, EmitSequenceKeeps, EmitLastKeeps DEF EncNext
<1>2. CASE UNCHANGED encVars
  <2>1. /\ UNCHANGED << input, cap, enc, anchor, i, head, chain, walk, found, epc, promise >>
        /\ N' = N /\ MatchLimit' = MatchLimit /\ LargeEnough' = LargeEnough
    BY <1>2, SameInput DEF encVars
  <2>2. TypeOK' /\ Positions' /\ Spent' /\ NeverTooSmall'
    BY <2>1 DEF IInv, TypeOK, Positions, Spent, NeverTooSmall
  <2>3. WalkIsMatch' /\ FoundIsMatch'
    BY <2>1 DEF IInv, WalkIsMatch, FoundIsMatch, IsMatch, At
  <2> QED
    BY <2>2, <2>3 DEF IInv
<1> QED
  BY <1>1, <1>2

LEMMA Invariance == EncSpec => []IInv
  BY InitEstablishes, NextKeeps, PTL DEF EncSpec

-----------------------------------------------------------------------------
(***************************************************************************)
(* The variables of the encoder stay in their ranges, the positions in its *)
(* arrays included, and the block never outgrows the destination.          *)
(***************************************************************************)
THEOREM TypeCorrect == EncSpec => []TypeOK
<1>1. IInv => TypeOK
  BY DEF IInv
<1> QED
  BY <1>1, Invariance, PTL

(***************************************************************************)
(* Every match lz4_compress_block emits can be undone: the texts agree,    *)
(* the source lies before it within the offset's range, the last literals  *)
(* stay literals, whatever the arrays of the matcher hold.                 *)
(***************************************************************************)
THEOREM MatchesAreValid == EncSpec => []MatchIsValid
<1>1. IInv => MatchIsValid
  <2> SUFFICES ASSUME IInv, epc = "emit" PROVE MatchIsValid
    BY DEF MatchIsValid
  <2> QED
    BY EmittedMatch DEF IInv
<1> QED
  BY <1>1, Invariance, PTL

(***************************************************************************)
(* A destination of the worst case size never makes the encoder give up.   *)
(***************************************************************************)
THEOREM WorstCaseIsEnough == EncSpec => []NeverTooSmall
<1>1. IInv => NeverTooSmall
  BY DEF IInv
<1> QED
  BY <1>1, Invariance, PTL

-----------------------------------------------------------------------------
(* The length bytes of n, their number and their place from position q of e. *)
ExtensionSize(n) == IF n < RunMask THEN 0 ELSE (n - RunMask) \div ByteMax + 1

ExtensionAt(e, q, n) ==
  n >= RunMask =>
    /\ \A k \in 1 .. ExtensionSize(n) - 1 : e[q + k] = ByteMax
    /\ e[q + ExtensionSize(n)] = (n - RunMask) % ByteMax

(* The token at p is followed by the m literals from input position a on. *)
LiteralsFrom(p, m) == p + 1 + ExtensionSize(m)

Literals(e, p, a, m) ==
  /\ a + m <= N /\ LiteralsFrom(p, m) + m <= Len(e)
  /\ LiteralNibble(e[p + 1]) = Capped(m)
  /\ ExtensionAt(e, p + 1, m)
  /\ \A k \in 0 .. m - 1 : e[LiteralsFrom(p, m) + k + 1] = At(a + k)

(* The token at p is that of the match of n bytes at b, written from q on. *)
MatchTo(q, n) == q + 2 + ExtensionSize(n - MinMatch)

Match(e, p, q, b, o, n) ==
  /\ o \in 1 .. b /\ n >= MinMatch /\ b + n <= N /\ MatchTo(q, n) <= Len(e)
  /\ MatchNibble(e[p + 1]) = Capped(n - MinMatch)
  /\ OffsetOf(e[q + 1], e[q + 2]) = o
  /\ ExtensionAt(e, q + 2, n - MinMatch)
  /\ \A k \in 0 .. n - 1 : At(b - o + k) = At(b + k)

(* x and y are [position in the block, position in the input]. *)
Places == Nat \X Nat

Link(e, x, y) ==
  \E m, o, n \in Nat :
    LET q == LiteralsFrom(x[1], m) + m
        b == x[2] + m
    IN /\ Literals(e, x[1], x[2], m)
       /\ Match(e, x[1], q, b, o, n)
       /\ y = << MatchTo(q, n), b + n >>

(* Nothing is left of block and input, or one last run of literals is. *)
Closes(e, x) ==
  \/ x = << Len(e), N >>
  \/ \E m \in Nat : /\ Literals(e, x[1], x[2], m)
                    /\ LiteralsFrom(x[1], m) + m = Len(e) /\ x[2] + m = N

Encodes(e, x) ==
  \E S \in SUBSET Places :
    /\ x \in S
    /\ \A y \in S : Closes(e, y) \/ \E z \in S : Link(e, y, z)

-----------------------------------------------------------------------------
(* What is written so far is a chain from the start to enc and anchor. *)
ChainIsWritten ==
  /\ epc = "ok" => Encodes(enc, << 0, 0 >>)
  /\ epc \in EncStages \ {"ok", "tooSmall"} =>
       \E S \in SUBSET Places :
         /\ << 0, 0 >> \in S /\ << Len(enc), anchor >> \in S
         /\ \A x \in S : \/ x = << Len(enc), anchor >>
                         \/ \E y \in S : Link(enc, x, y)

(* The input position the decoder has reached. *)
Reached == dp - blk.prefix

(* What follows the literals, of the token at p, that end at q. *)
Follows(p, q, b) ==
  \/ q = Len(enc) /\ b = N
  \/ \E o, n \in Nat : /\ Match(enc, p, q, b, o, n)
                       /\ Encodes(enc, << MatchTo(q, n), b + n >>)

AtLiterals(p, a, m) ==
  /\ Reached = a /\ tok = enc[p + 1]
  /\ Literals(enc, p, a, m)
  /\ Follows(p, LiteralsFrom(p, m) + m, a + m)

AtMatch(p, q, b, o, n) ==
  /\ Reached = b /\ tok = enc[p + 1]
  /\ Match(enc, p, q, b, o, n)
  /\ Encodes(enc, << MatchTo(q, n), b + n >>)

(* r length bytes of n have been read, from position q on, and one is left. *)
Reading(q, n, r, sum) ==
  /\ n >= RunMask /\ r < ExtensionSize(n)
  /\ sp = q + r /\ sum = RunMask + ByteMax * r

DecoderStands ==
  \/ /\ pc = "enter"
     /\ sp = 0 /\ Encodes(enc, << 0, 0 >>)
  \/ /\ pc = "token"
     /\ \E x \in Places : x = << sp, Reached >> /\ Encodes(enc, x)
  \/ /\ pc = "litExt"
     /\ \E p, a, m, r \in Nat : AtLiterals(p, a, m) /\ Reading(p + 1, m, r, lit)
  \/ /\ pc = "lits"
     /\ \E p, a, m \in Nat : /\ AtLiterals(p, a, m)
                             /\ sp = LiteralsFrom(p, m) /\ lit = m
  \/ /\ pc = "offset"
     /\ \E p, q, b, o, n \in Nat : AtMatch(p, q, b, o, n) /\ sp = q
  \/ /\ pc = "matchExt"
     /\ \E p, q, b, o, n, r \in Nat : /\ AtMatch(p, q, b, o, n) /\ off = o
                                     /\ Reading(q + 2, n - MinMatch, r, mat)
  \/ /\ pc = "copy"
     /\ \E p, q, b, o, n \in Nat : /\ AtMatch(p, q, b, o, n) /\ off = o
                                  /\ sp = MatchTo(q, n) /\ mat = n - MinMatch
  \/ pc = "done" /\ Reached = N

DecoderTypes ==
  /\ blk \in [src : {enc}, cap : Nat, prefix : Nat] /\ blk.cap = blk.prefix + N
  /\ blk.prefix <= Windows
  /\ DOMAIN dst = 0 .. blk.cap - 1
  /\ sp \in Nat /\ dp \in Nat /\ off \in Nat

Decoded == pc # "enter" =>
  /\ Reached \in 0 .. N
  /\ \A k \in 0 .. Reached - 1 : dst[blk.prefix + k] = At(k)

RInv ==
  /\ IInv
  /\ ChainIsWritten
  /\ decoding \in BOOLEAN
  /\ ~ decoding => sp = 0 /\ dp = 0 /\ off = 0 /\ pc = "enter"
  /\ decoding => epc = "ok" /\ DecoderTypes /\ Decoded /\ DecoderStands

-----------------------------------------------------------------------------
(* What the encoder writes for a number is what the grammar says. *)
LEMMA ExtensionSizeIsNat ==
  ASSUME NEW n \in Nat
  PROVE  ExtensionSize(n) \in Nat /\ (n >= RunMask => ExtensionSize(n) >= 1)
<1>1. CASE n < RunMask
  BY <1>1, Numbers DEF ExtensionSize
<1>2. CASE n >= RunMask
  <2>1. n - RunMask \in Nat /\ ByteMax \in Nat /\ ByteMax >= 1
    BY <1>2, Numbers
  <2>2. (n - RunMask) \div ByteMax \in Nat
    BY <2>1, DivisionFacts
  <2> QED
    BY <1>2, <2>2, Numbers DEF ExtensionSize
<1> QED
  BY <1>1, <1>2, Numbers

LEMMA ExtensionIsWritten ==
  ASSUME NEW n \in Nat
  PROVE  /\ Extension(n) \in Seq(Bytes) /\ Len(Extension(n)) = ExtensionSize(n)
         /\ n >= RunMask =>
              /\ \A k \in 1 .. ExtensionSize(n) - 1 : Extension(n)[k] = ByteMax
              /\ Extension(n)[ExtensionSize(n)] = (n - RunMask) % ByteMax
<1>1. CASE n < RunMask
  BY <1>1, Numbers DEF Extension, ExtensionSize
<1>2. CASE n >= RunMask
  <2> DEFINE m == n - RunMask
             d == m \div ByteMax
             rest == m % ByteMax
             full == [k \in 1 .. d |-> ByteMax]
             last == << rest >>
  <2>1. m \in Nat /\ ByteMax \in Nat /\ ByteMax >= 1
    BY <1>2, Numbers
  <2>2. d \in Nat /\ rest \in 0 .. ByteMax - 1
    BY <2>1, DivisionFacts
  <2>3. ~ (n < RunMask)
    BY <1>2, Numbers
  <2>4. Extension(n) = full \o last /\ ExtensionSize(n) = d + 1
    BY <1>2, <2>3, Numbers DEF Extension, ExtensionSize, LengthBytes
  <2>5. rest = (n - RunMask) % ByteMax
    OBVIOUS
  <2> HIDE DEF m, d, rest
  <2>6. full \in Seq(Bytes) /\ Len(full) = d /\ \A k \in 1 .. d : full[k] = ByteMax
    BY <2>1, <2>2 DEF Bytes
  <2>7. last \in Seq(Bytes) /\ Len(last) = 1 /\ last[1] = rest
    BY <2>1, <2>2 DEF Bytes
  <2> HIDE DEF full, last
  <2>8. /\ full \o last \in Seq(Bytes) /\ Len(full \o last) = d + 1
        /\ \A k \in 1 .. d + 1 : (full \o last)[k] = IF k <= d THEN full[k] ELSE last[k - d]
    <3>1. /\ full \o last \in Seq(Bytes)
          /\ Len(full \o last) = Len(full) + Len(last)
          /\ \A k \in 1 .. Len(full) + Len(last) :
               (full \o last)[k] = IF k <= Len(full) THEN full[k] ELSE last[k - Len(full)]
      BY <2>6, <2>7, ConcatProperties
    <3> QED
      BY <2>6, <2>7, <3>1
  <2>9. \A k \in 1 .. d : (full \o last)[k] = ByteMax
    BY <2>2, <2>6, <2>8
  <2>10. (full \o last)[d + 1] = rest
    BY <2>2, <2>7, <2>8
  <2>11. ExtensionSize(n) - 1 = d
    BY <2>2, <2>4
  <2> QED
    BY <2>2, <2>4, <2>5, <2>8, <2>9, <2>10, <2>11
<1> QED
  BY <1>1, <1>2, Numbers

LEMMA DigitsOf ==
  ASSUME NEW d \in Nat, NEW a \in Nat, NEW b \in 0 .. d - 1
  PROVE  (a * d + b) \div d = a /\ (a * d + b) % d = b
<1>1. d \in Nat /\ d >= 1 /\ b \in Nat
  OBVIOUS
<1> DEFINE n == a * d + b
           q == n \div d
           r == n % d
<1>2. n \in Nat
  BY <1>1
<1>3. q \in Nat /\ r \in 0 .. d - 1 /\ n = d * q + r
  BY <1>1, <1>2
<1>4. q = a
  <2>1. n = a * d + b
    OBVIOUS
  <2> HIDE DEF n, q, r
  <2>2. CASE q < a
    <3>1. q + 1 <= a
      BY <1>3, <2>2
    <3>2. d * (q + 1) <= d * a /\ d * (q + 1) = d * q + d /\ a * d = d * a
      BY <1>1, <1>3, <3>1
    <3> DEFINE X == d * q
               Y == d * a
    <3>3. X \in Nat /\ Y \in Nat /\ X + d <= Y /\ n = X + r /\ n = Y + b
      BY <1>1, <1>3, <2>1, <3>2
    <3> HIDE DEF X, Y
    <3> QED
      BY <1>1, <1>3, <3>3
  <2>3. CASE q > a
    <3>1. a + 1 <= q
      BY <1>3, <2>3
    <3>2. d * (a + 1) <= d * q /\ d * (a + 1) = d * a + d /\ a * d = d * a
      BY <1>1, <1>3, <3>1
    <3> DEFINE X == d * q
               Y == d * a
    <3>3. X \in Nat /\ Y \in Nat /\ Y + d <= X /\ n = X + r /\ n = Y + b
      BY <1>1, <1>3, <2>1, <3>2
    <3> HIDE DEF X, Y
    <3> QED
      BY <1>1, <1>3, <3>3
  <2> QED
    BY <1>3, <2>2, <2>3
<1>5. r = b
  <2>1. n = a * d + b
    OBVIOUS
  <2> HIDE DEF n, q, r
  <2> QED
    BY <1>1, <1>3, <1>4, <2>1
<1> QED
  BY <1>4, <1>5

LEMMA TokenHalves ==
  ASSUME NEW m \in Nat, NEW n \in Nat
  PROVE  LiteralNibble(Token(m, n)) = Capped(m) /\ MatchNibble(Token(m, n)) = Capped(n)
<1> DEFINE a == Capped(m)
           b == Capped(n)
<1>1. a \in Nat /\ b \in 0 .. Nibble - 1 /\ Nibble \in Nat
  BY Numbers DEF Capped
<1>2. Token(m, n) = a * Nibble + b
  BY DEF Token
<1> HIDE DEF a, b
<1>3. (a * Nibble + b) \div Nibble = a /\ (a * Nibble + b) % Nibble = b
  BY <1>1, DigitsOf
<1> QED
  BY <1>2, <1>3 DEF LiteralNibble, MatchNibble, a, b

LEMMA OffsetIsRead ==
  ASSUME NEW o \in Nat
  PROVE  OffsetOf(o % Byte, o \div Byte) = o
<1>1. Byte \in Nat /\ Byte >= 1
  BY Numbers
<1> QED
  BY <1>1 DEF OffsetOf

(* Reading one more length byte: a full one leaves one to read, a last one none. *)
LEMMA ExtensionSteps ==
  ASSUME NEW n \in Nat, n >= RunMask, NEW r \in Nat, r < ExtensionSize(n)
  PROVE  /\ r + 1 < ExtensionSize(n) =>
              /\ RunMask + ByteMax * r + ByteMax = RunMask + ByteMax * (r + 1)
              /\ RunMask + ByteMax * r + ByteMax <= n
         /\ r + 1 = ExtensionSize(n) =>
              /\ RunMask + ByteMax * r + ((n - RunMask) % ByteMax) = n
              /\ (n - RunMask) % ByteMax # ByteMax
<1> DEFINE m == n - RunMask
           d == m \div ByteMax
           rest == m % ByteMax
<1>1. m \in Nat /\ ByteMax \in Nat /\ ByteMax >= 1 /\ RunMask \in Nat /\ n = m + RunMask
  BY Numbers
<1>2. d \in Nat /\ rest \in 0 .. ByteMax - 1 /\ m = ByteMax * d + rest
  BY <1>1
<1>3. ExtensionSize(n) = d + 1
  BY <1>1, Numbers DEF ExtensionSize
<1>4. rest = (n - RunMask) % ByteMax
  OBVIOUS
<1> HIDE DEF m, d, rest
<1>5. ASSUME r + 1 < ExtensionSize(n)
      PROVE  /\ RunMask + ByteMax * r + ByteMax = RunMask + ByteMax * (r + 1)
             /\ RunMask + ByteMax * r + ByteMax <= n
  <2>1. r + 1 <= d
    BY <1>2, <1>3, <1>5
  <2>2. ByteMax * (r + 1) <= ByteMax * d /\ ByteMax * (r + 1) = ByteMax * r + ByteMax
    BY <1>1, <1>2, <2>1
  <2> DEFINE X == ByteMax * r
             Y == ByteMax * d
  <2>3. X \in Nat /\ Y \in Nat /\ X + ByteMax <= Y /\ m = Y + rest
        /\ ByteMax * (r + 1) = X + ByteMax
    BY <1>1, <1>2, <2>2
  <2> HIDE DEF X, Y
  <2>4. RunMask + X + ByteMax <= n /\ RunMask + X + ByteMax = RunMask + ByteMax * (r + 1)
    BY <1>1, <1>2, <2>3
  <2> QED
    BY <2>4 DEF X
<1>6. ASSUME r + 1 = ExtensionSize(n)
      PROVE  RunMask + ByteMax * r + rest = n /\ rest # ByteMax
  <2>1. r = d
    BY <1>2, <1>3, <1>6
  <2> QED
    BY <1>1, <1>2, <2>1
<1>7. /\ r + 1 = ExtensionSize(n) =>
           /\ RunMask + ByteMax * r + ((n - RunMask) % ByteMax) = n
           /\ (n - RunMask) % ByteMax # ByteMax
  BY <1>4, <1>6
<1> QED
  BY <1>5, <1>7

-----------------------------------------------------------------------------
(* What has been written stays true when more is written after it. *)
LEMMA ExtensionStays ==
  ASSUME NEW e, NEW f, Len(e) \in Nat, \A k \in 1 .. Len(e) : f[k] = e[k],
         NEW q \in Nat, NEW n \in Nat, q + ExtensionSize(n) <= Len(e),
         ExtensionAt(e, q, n)
  PROVE  ExtensionAt(f, q, n)
<1> SUFFICES ASSUME n >= RunMask
             PROVE  /\ \A k \in 1 .. ExtensionSize(n) - 1 : f[q + k] = ByteMax
                    /\ f[q + ExtensionSize(n)] = (n - RunMask) % ByteMax
  BY DEF ExtensionAt
<1>1. ExtensionSize(n) \in Nat /\ ExtensionSize(n) >= 1
  BY ExtensionSizeIsNat
<1>2. /\ \A k \in 1 .. ExtensionSize(n) - 1 : e[q + k] = ByteMax
      /\ e[q + ExtensionSize(n)] = (n - RunMask) % ByteMax
  BY DEF ExtensionAt
<1>3. \A k \in 1 .. ExtensionSize(n) : f[q + k] = e[q + k]
  <2> SUFFICES ASSUME NEW k \in 1 .. ExtensionSize(n) PROVE f[q + k] = e[q + k]
    OBVIOUS
  <2>1. q + k \in 1 .. Len(e)
    BY <1>1
  <2> QED
    BY <2>1
<1>4. f[q + ExtensionSize(n)] = (n - RunMask) % ByteMax
  <2>1. f[q + ExtensionSize(n)] = e[q + ExtensionSize(n)]
    BY <1>1, <1>3
  <2> QED
    BY <1>2, <2>1
<1>5. \A k \in 1 .. ExtensionSize(n) - 1 : f[q + k] = ByteMax
  BY <1>1, <1>2, <1>3
<1> QED
  BY <1>4, <1>5

LEMMA LiteralsStay ==
  ASSUME NEW e, NEW f, Len(e) \in Nat, Len(f) \in Nat, Len(e) <= Len(f),
         \A k \in 1 .. Len(e) : f[k] = e[k],
         NEW p \in Nat, NEW a \in Nat, NEW m \in Nat, Literals(e, p, a, m)
  PROVE  Literals(f, p, a, m)
<1> DEFINE x == ExtensionSize(m)
<1>1. x \in Nat
  BY ExtensionSizeIsNat
<1>0. p + 1 + x + m <= Len(e)
  BY DEF Literals, LiteralsFrom
<1>2. /\ a + m <= N
      /\ LiteralNibble(e[p + 1]) = Capped(m)
      /\ ExtensionAt(e, p + 1, m)
      /\ \A k \in 0 .. m - 1 : e[p + 1 + x + k + 1] = At(a + k)
  BY DEF Literals, LiteralsFrom
<1> HIDE DEF x
<1>3. p + 1 \in 1 .. Len(e) /\ p + 1 \in Nat
  BY <1>0, <1>1
<1>4. ExtensionAt(f, p + 1, m)
  <2>1. p + 1 + ExtensionSize(m) <= Len(e)
    BY <1>0, <1>1 DEF x
  <2> QED
    BY <1>2, <1>3, <2>1, ExtensionStays
<1>5. \A k \in 0 .. m - 1 : f[p + 1 + x + k + 1] = At(a + k)
  <2> SUFFICES ASSUME NEW k \in 0 .. m - 1 PROVE f[p + 1 + x + k + 1] = At(a + k)
    OBVIOUS
  <2>1. p + 1 + x + k + 1 \in 1 .. Len(e)
    BY <1>0, <1>1
  <2> QED
    BY <1>2, <2>1
<1>6. p + 1 + x + m <= Len(f) /\ LiteralNibble(f[p + 1]) = Capped(m)
  BY <1>0, <1>1, <1>2, <1>3
<1> QED
  BY <1>2, <1>4, <1>5, <1>6 DEF Literals, LiteralsFrom, x

LEMMA MatchStays ==
  ASSUME NEW e, NEW f, Len(e) \in Nat, Len(f) \in Nat, Len(e) <= Len(f),
         \A k \in 1 .. Len(e) : f[k] = e[k],
         NEW p \in Nat, NEW q \in Nat, p < q, NEW b \in Nat, NEW o \in Nat, NEW n \in Nat,
         Match(e, p, q, b, o, n)
  PROVE  Match(f, p, q, b, o, n)
<1> DEFINE x == ExtensionSize(n - MinMatch)
<1>1. n - MinMatch \in Nat
  <2>1. n >= MinMatch
    BY DEF Match
  <2> QED
    BY <2>1, Numbers
<1>2. x \in Nat
  BY <1>1, ExtensionSizeIsNat
<1>3. q + 2 + x <= Len(e)
  BY DEF Match, MatchTo
<1>4. ExtensionAt(e, q + 2, n - MinMatch)
  BY DEF Match
<1>5. ExtensionAt(f, q + 2, n - MinMatch)
  <2>1. q + 2 \in Nat
    OBVIOUS
  <2> QED
    BY <1>1, <1>3, <1>4, <2>1, ExtensionStays
<1> HIDE DEF x
<1>6. p + 1 \in 1 .. Len(e) /\ q + 1 \in 1 .. Len(e) /\ q + 2 \in 1 .. Len(e)
  BY <1>2, <1>3
<1>7. f[p + 1] = e[p + 1] /\ f[q + 1] = e[q + 1] /\ f[q + 2] = e[q + 2]
  BY <1>6
<1>8. MatchTo(q, n) <= Len(f)
  BY <1>2, <1>3 DEF MatchTo, x
<1> QED
  BY <1>5, <1>7, <1>8 DEF Match

LEMMA PlacesInOrder ==
  ASSUME NEW p \in Nat, NEW m \in Nat
  PROVE  LiteralsFrom(p, m) \in Nat /\ p < LiteralsFrom(p, m)
         /\ LiteralsFrom(p, m) + m \in Nat /\ p < LiteralsFrom(p, m) + m
<1>1. ExtensionSize(m) \in Nat
  BY ExtensionSizeIsNat
<1> QED
  BY <1>1 DEF LiteralsFrom

LEMMA LinkStays ==
  ASSUME NEW e, NEW f, Len(e) \in Nat, Len(f) \in Nat, Len(e) <= Len(f),
         \A k \in 1 .. Len(e) : f[k] = e[k],
         NEW x \in Places, NEW y \in Places, Link(e, x, y)
  PROVE  Link(f, x, y)
<1>1. PICK m \in Nat, o \in Nat, n \in Nat :
        /\ Literals(e, x[1], x[2], m)
        /\ Match(e, x[1], LiteralsFrom(x[1], m) + m, x[2] + m, o, n)
        /\ y = << MatchTo(LiteralsFrom(x[1], m) + m, n), x[2] + m + n >>
  BY DEF Link
<1>2. x[1] \in Nat /\ x[2] \in Nat
  BY DEF Places
<1>3. Literals(f, x[1], x[2], m)
  BY <1>1, <1>2, LiteralsStay
<1>4. Match(f, x[1], LiteralsFrom(x[1], m) + m, x[2] + m, o, n)
  <2> DEFINE q == LiteralsFrom(x[1], m) + m
             b == x[2] + m
  <2>1. q \in Nat /\ x[1] < q
    BY <1>2, PlacesInOrder
  <2>4. b \in Nat
    BY <1>2
  <2>2. Match(e, x[1], q, b, o, n)
    BY <1>1
  <2> HIDE DEF q, b
  <2>3. Match(f, x[1], q, b, o, n)
    BY <1>2, <2>1, <2>2, <2>4, MatchStays
  <2> QED
    BY <2>3 DEF q, b
<1> QED
  BY <1>1, <1>3, <1>4 DEF Link

(* A chain goes on from each of its places. *)
LEMMA ChainUnfolds ==
  ASSUME NEW e, NEW x \in Places, Encodes(e, x)
  PROVE  Closes(e, x) \/ \E y \in Places : Link(e, x, y) /\ Encodes(e, y)
<1>1. PICK S \in SUBSET Places :
        /\ x \in S
        /\ \A y \in S : Closes(e, y) \/ \E z \in S : Link(e, y, z)
  BY DEF Encodes
<1>2. CASE Closes(e, x)
  BY <1>2
<1>3. CASE \E z \in S : Link(e, x, z)
  <2>1. PICK z \in S : Link(e, x, z)
    BY <1>3
  <2>2. Encodes(e, z)
    BY <1>1 DEF Encodes
  <2> QED
    BY <2>1, <2>2
<1> QED
  BY <1>1, <1>2, <1>3

-----------------------------------------------------------------------------
(* Where the bytes of a concatenation come from. *)
LEMMA TwoInPlace ==
  ASSUME NEW a \in Seq(Bytes), NEW b \in Seq(Bytes), NEW s, s = a \o b
  PROVE  /\ s \in Seq(Bytes) /\ Len(s) = Len(a) + Len(b)
         /\ Len(a) \in Nat /\ Len(b) \in Nat
         /\ \A k \in 1 .. Len(a) : s[k] = a[k]
         /\ \A k \in 1 .. Len(b) : s[Len(a) + k] = b[k]
<1>1. /\ a \o b \in Seq(Bytes) /\ Len(a \o b) = Len(a) + Len(b)
      /\ \A k \in 1 .. Len(a) + Len(b) :
           (a \o b)[k] = IF k <= Len(a) THEN a[k] ELSE b[k - Len(a)]
  BY ConcatProperties
<1>2. Len(a) \in Nat /\ Len(b) \in Nat
  OBVIOUS
<1>3. \A k \in 1 .. Len(a) + Len(b) : s[k] = IF k <= Len(a) THEN a[k] ELSE b[k - Len(a)]
  BY <1>1
<1>4. \A k \in 1 .. Len(a) : s[k] = a[k]
  BY <1>2, <1>3
<1>5. \A k \in 1 .. Len(b) : s[Len(a) + k] = b[k]
  <2> SUFFICES ASSUME NEW k \in 1 .. Len(b) PROVE s[Len(a) + k] = b[k]
    OBVIOUS
  <2>1. Len(a) + k \in 1 .. Len(a) + Len(b) /\ ~ (Len(a) + k <= Len(a))
        /\ Len(a) + k - Len(a) = k
    BY <1>2
  <2> QED
    BY <1>3, <2>1
<1> QED
  BY <1>1, <1>2, <1>4, <1>5

LEMMA ThreeInPlace ==
  ASSUME NEW a \in Seq(Bytes), NEW b \in Seq(Bytes), NEW c \in Seq(Bytes),
         NEW s, s = a \o b \o c
  PROVE  /\ s \in Seq(Bytes) /\ Len(s) = Len(a) + Len(b) + Len(c)
         /\ Len(a) \in Nat /\ Len(b) \in Nat /\ Len(c) \in Nat
         /\ \A k \in 1 .. Len(a) : s[k] = a[k]
         /\ \A k \in 1 .. Len(b) : s[Len(a) + k] = b[k]
         /\ \A k \in 1 .. Len(c) : s[Len(a) + Len(b) + k] = c[k]
<1> DEFINE x == a \o b
           y == x \o c
<1>0. s = y
  OBVIOUS
<1>6. x = a \o b /\ y = x \o c
  OBVIOUS
<1> HIDE DEF x, y
<1>1. /\ x \in Seq(Bytes) /\ Len(x) = Len(a) + Len(b)
      /\ Len(a) \in Nat /\ Len(b) \in Nat
      /\ \A k \in 1 .. Len(a) : x[k] = a[k]
      /\ \A k \in 1 .. Len(b) : x[Len(a) + k] = b[k]
  BY <1>6, TwoInPlace
<1>2. /\ y \in Seq(Bytes) /\ Len(y) = Len(x) + Len(c) /\ Len(c) \in Nat
      /\ \A k \in 1 .. Len(x) : y[k] = x[k]
      /\ \A k \in 1 .. Len(c) : y[Len(x) + k] = c[k]
  BY <1>1, <1>6, TwoInPlace
<1>3. \A k \in 1 .. Len(a) : y[k] = a[k]
  BY <1>1, <1>2
<1>4. \A k \in 1 .. Len(b) : y[Len(a) + k] = b[k]
  <2> SUFFICES ASSUME NEW k \in 1 .. Len(b) PROVE y[Len(a) + k] = b[k]
    OBVIOUS
  <2>1. Len(a) + k \in 1 .. Len(x)
    BY <1>1
  <2> QED
    BY <1>1, <1>2, <2>1
<1>5. \A k \in 1 .. Len(c) : y[Len(a) + Len(b) + k] = c[k]
  BY <1>1, <1>2
<1> QED
  BY <1>0, <1>1, <1>2, <1>3, <1>4, <1>5

(* s is the parts a to e, one behind the other. *)
InPlace(s, a, b, c, d, e) ==
  /\ s \in Seq(Bytes) /\ Len(s) = Len(a) + Len(b) + Len(c) + Len(d) + Len(e)
  /\ \A k \in 1 .. Len(a) : s[k] = a[k]
  /\ \A k \in 1 .. Len(b) : s[Len(a) + k] = b[k]
  /\ \A k \in 1 .. Len(c) : s[Len(a) + Len(b) + k] = c[k]
  /\ \A k \in 1 .. Len(d) : s[Len(a) + Len(b) + Len(c) + k] = d[k]
  /\ \A k \in 1 .. Len(e) : s[Len(a) + Len(b) + Len(c) + Len(d) + k] = e[k]

LEMMA FiveInPlace ==
  ASSUME NEW a \in Seq(Bytes), NEW b \in Seq(Bytes), NEW c \in Seq(Bytes),
         NEW d \in Seq(Bytes), NEW e \in Seq(Bytes),
         NEW s, s = a \o b \o c \o d \o e
  PROVE  InPlace(s, a, b, c, d, e)
<1> DEFINE x == a \o b \o c
           y == x \o d \o e
<1>0. x = a \o b \o c /\ y = x \o d \o e
  OBVIOUS
<1>2. s = y
  OBVIOUS
<1> HIDE DEF x, y
<1>1. /\ x \in Seq(Bytes) /\ Len(x) = Len(a) + Len(b) + Len(c)
      /\ Len(a) \in Nat /\ Len(b) \in Nat /\ Len(c) \in Nat
      /\ \A k \in 1 .. Len(a) : x[k] = a[k]
      /\ \A k \in 1 .. Len(b) : x[Len(a) + k] = b[k]
      /\ \A k \in 1 .. Len(c) : x[Len(a) + Len(b) + k] = c[k]
  BY <1>0, ThreeInPlace
<1>3. /\ y \in Seq(Bytes) /\ Len(y) = Len(x) + Len(d) + Len(e)
      /\ Len(d) \in Nat /\ Len(e) \in Nat
      /\ \A k \in 1 .. Len(x) : y[k] = x[k]
      /\ \A k \in 1 .. Len(d) : y[Len(x) + k] = d[k]
      /\ \A k \in 1 .. Len(e) : y[Len(x) + Len(d) + k] = e[k]
  BY <1>0, <1>1, ThreeInPlace
<1>4. \A k \in 1 .. Len(a) : y[k] = a[k]
  BY <1>1, <1>3
<1>5. \A k \in 1 .. Len(b) : y[Len(a) + k] = b[k]
  <2> SUFFICES ASSUME NEW k \in 1 .. Len(b) PROVE y[Len(a) + k] = b[k]
    OBVIOUS
  <2>1. Len(a) + k \in 1 .. Len(x)
    BY <1>1
  <2> QED
    BY <1>1, <1>3, <2>1
<1>6. \A k \in 1 .. Len(c) : y[Len(a) + Len(b) + k] = c[k]
  <2> SUFFICES ASSUME NEW k \in 1 .. Len(c) PROVE y[Len(a) + Len(b) + k] = c[k]
    OBVIOUS
  <2>1. Len(a) + Len(b) + k \in 1 .. Len(x)
    BY <1>1
  <2> QED
    BY <1>1, <1>3, <2>1
<1>7. \A k \in 1 .. Len(d) : y[Len(a) + Len(b) + Len(c) + k] = d[k]
  BY <1>1, <1>3
<1>8. \A k \in 1 .. Len(e) : y[Len(a) + Len(b) + Len(c) + Len(d) + k] = e[k]
  BY <1>1, <1>3
<1> QED
  BY <1>1, <1>2, <1>3, <1>4, <1>5, <1>6, <1>7, <1>8 DEF InPlace

-----------------------------------------------------------------------------
(* The first three parts of a sequence, behind what is written, are Literals. *)
LEMMA LiteralsAreWritten ==
  ASSUME input \in Inputs, NEW p \in Nat, NEW a \in Nat, NEW m \in Nat, a + m <= N,
         NEW c \in Nat, NEW f, Len(f) \in Nat, p + 1 + ExtensionSize(m) + m <= Len(f),
         f[p + 1] = Token(m, c),
         \A k \in 1 .. ExtensionSize(m) : f[p + 1 + k] = Extension(m)[k],
         \A k \in 1 .. m :
           f[p + 1 + ExtensionSize(m) + k] = SubSeq(input, a + 1, a + m)[k]
  PROVE  Literals(f, p, a, m)
<1> DEFINE x == ExtensionSize(m)
           l == SubSeq(input, a + 1, a + m)
<1>1. x \in Nat /\ (m >= RunMask => x >= 1)
  BY ExtensionSizeIsNat
<1>2. N \in Nat /\ input \in [1 .. N -> Alphabet]
  BY InputFacts
<1>3. LiteralNibble(f[p + 1]) = Capped(m)
  BY TokenHalves
<1>4. ExtensionAt(f, p + 1, m)
  <2> SUFFICES ASSUME m >= RunMask
               PROVE  /\ \A k \in 1 .. x - 1 : f[p + 1 + k] = ByteMax
                      /\ f[p + 1 + x] = (m - RunMask) % ByteMax
    BY DEF ExtensionAt
  <2>1. /\ \A k \in 1 .. x - 1 : Extension(m)[k] = ByteMax
        /\ Extension(m)[x] = (m - RunMask) % ByteMax
    BY ExtensionIsWritten
  <2>2. \A k \in 1 .. x : f[p + 1 + k] = Extension(m)[k]
    OBVIOUS
  <2>3. x \in Nat /\ x >= 1
    BY <1>1
  <2> HIDE DEF x
  <2>4. \A k \in 1 .. x - 1 : f[p + 1 + k] = ByteMax
    <3> SUFFICES ASSUME NEW k \in 1 .. x - 1 PROVE f[p + 1 + k] = ByteMax
      OBVIOUS
    <3>1. k \in 1 .. x
      BY <2>3
    <3>2. f[p + 1 + k] = Extension(m)[k]
      BY <2>2, <3>1
    <3> QED
      BY <2>1, <3>2
  <2>5. f[p + 1 + x] = Extension(m)[x]
    BY <2>2, <2>3
  <2> QED
    BY <2>1, <2>4, <2>5
<1>5. \A k \in 0 .. m - 1 : f[p + 1 + x + k + 1] = At(a + k)
  <2> SUFFICES ASSUME NEW k \in 0 .. m - 1 PROVE f[p + 1 + x + k + 1] = At(a + k)
    OBVIOUS
  <2>1. k + 1 \in 1 .. m /\ p + 1 + x + k + 1 = p + 1 + x + (k + 1)
    <3>1. x \in Nat /\ k \in Nat
      BY <1>1
    <3> HIDE DEF x
    <3>2. k + 1 \in 1 .. m
      OBVIOUS
    <3> QED
      BY <3>1, <3>2
  <2>2. f[p + 1 + x + (k + 1)] = l[k + 1]
    BY <2>1
  <2>3. l[k + 1] = input[a + 1 + (k + 1) - 1]
    <3>1. a + m \in 0 .. N
      BY <1>2
    <3>2. l = [j \in 1 .. (a + m) - (a + 1) + 1 |-> input[(a + 1) + j - 1]]
      OBVIOUS
    <3>3. k + 1 \in 1 .. (a + m) - (a + 1) + 1
      BY <2>1
    <3> HIDE DEF l
    <3> QED
      BY <3>2, <3>3
  <2>4. a + 1 + (k + 1) - 1 = a + k + 1
    OBVIOUS
  <2> QED
    BY <2>1, <2>2, <2>3, <2>4 DEF At
<1> QED
  BY <1>3, <1>4, <1>5 DEF Literals, LiteralsFrom

(* The last two parts of a sequence are the Match of what was found. *)
LEMMA MatchIsWritten ==
  ASSUME NEW p \in Nat, NEW q \in Nat, NEW b \in Nat, NEW o \in 1 .. b,
         NEW n \in Nat, n >= MinMatch, b + n <= N, NEW m \in Nat,
         NEW f, q + 2 + ExtensionSize(n - MinMatch) <= Len(f),
         f[p + 1] = Token(m, n - MinMatch),
         f[q + 1] = o % Byte, f[q + 2] = o \div Byte,
         \A k \in 1 .. ExtensionSize(n - MinMatch) :
           f[q + 2 + k] = Extension(n - MinMatch)[k],
         \A k \in 0 .. n - 1 : At(b - o + k) = At(b + k)
  PROVE  Match(f, p, q, b, o, n)
<1> DEFINE c == n - MinMatch
           x == ExtensionSize(c)
<1>1. c \in Nat
  BY Numbers
<1> HIDE DEF c
<1>2. x \in Nat /\ (c >= RunMask => x >= 1)
  BY <1>1, ExtensionSizeIsNat
<1>3. MatchNibble(f[p + 1]) = Capped(c)
  <2>1. f[p + 1] = Token(m, c)
    BY DEF c
  <2> QED
    BY <1>1, <2>1, TokenHalves
<1>4. OffsetOf(f[q + 1], f[q + 2]) = o
  BY OffsetIsRead
<1>5. ExtensionAt(f, q + 2, c)
  <2> SUFFICES ASSUME c >= RunMask
               PROVE  /\ \A k \in 1 .. x - 1 : f[q + 2 + k] = ByteMax
                      /\ f[q + 2 + x] = (c - RunMask) % ByteMax
    BY DEF ExtensionAt
  <2>1. /\ \A k \in 1 .. x - 1 : Extension(c)[k] = ByteMax
        /\ Extension(c)[x] = (c - RunMask) % ByteMax
    BY <1>1, ExtensionIsWritten
  <2>2. \A k \in 1 .. x : f[q + 2 + k] = Extension(c)[k]
    BY DEF c
  <2>3. x \in Nat /\ x >= 1
    BY <1>2
  <2> HIDE DEF x
  <2>4. \A k \in 1 .. x - 1 : f[q + 2 + k] = ByteMax
    <3> SUFFICES ASSUME NEW k \in 1 .. x - 1 PROVE f[q + 2 + k] = ByteMax
      OBVIOUS
    <3>1. k \in 1 .. x
      BY <2>3
    <3>2. f[q + 2 + k] = Extension(c)[k]
      BY <2>2, <3>1
    <3> QED
      BY <2>1, <3>2
  <2>5. f[q + 2 + x] = Extension(c)[x]
    BY <2>2, <2>3
  <2> QED
    BY <2>1, <2>4, <2>5
<1> QED
  BY <1>3, <1>4, <1>5 DEF Match, MatchTo, c

(* The sequence lz4_emit_sequence appends is a link from the old end to the new. *)
LEMMA EmissionLinks ==
  ASSUME IInv, epc = "emit", NEW f, f = enc \o SequenceBytes
  PROVE  /\ Link(f, << Len(enc), anchor >>, << Len(f), MatchEnd >>)
         /\ Len(enc) \in Nat /\ Len(f) \in Nat /\ Len(enc) <= Len(f)
         /\ \A k \in 1 .. Len(enc) : f[k] = enc[k]
         /\ anchor \in Nat /\ MatchEnd \in Nat
<1> DEFINE p == Len(enc)
           m == MatchStart - anchor
           o == MatchStart - MatchSource
           c == MatchLength - MinMatch
           x == ExtensionSize(m)
           y == ExtensionSize(c)
           s == SequenceBytes
           t1 == << Token(m, c) >>
           t2 == Extension(m)
           t3 == SubSeq(input, anchor + 1, MatchStart)
           t4 == OffsetBytes(o)
           t5 == Extension(c)
<1>1. /\ input \in Inputs /\ enc \in Seq(Bytes) /\ Len(enc) \in Nat
      /\ anchor \in Nat /\ i \in Nat /\ i <= N /\ N \in Nat
  BY InputFacts DEF IInv, TypeOK
<1>2. /\ MatchStart \in anchor .. i /\ MatchSource \in Nat /\ MatchLength \in Nat
      /\ MatchEnd \in i + 1 .. N - LastLiterals
      /\ MatchLength >= MinMatch /\ MatchSource < MatchStart
      /\ MatchStart - MatchSource <= MaxOffset
      /\ \A k \in 0 .. MatchLength - 1 : At(MatchSource + k) = At(MatchStart + k)
  BY EmittedMatch DEF IInv, MatchIsValid
<1>3. /\ m \in Nat /\ c \in Nat /\ o \in 1 .. MatchStart /\ o \in 0 .. MaxOffset
      /\ anchor + m = MatchStart /\ MatchStart \in Nat /\ MatchStart <= N
      /\ MatchStart + MatchLength <= N /\ MatchStart - o = MatchSource
      /\ MatchEnd = MatchStart + MatchLength /\ MatchEnd \in Nat
  BY <1>1, <1>2, Numbers DEF MatchEnd
<1>4. s = t1 \o t2 \o t3 \o t4 \o t5
  BY DEF SequenceBytes
<1>5. t1 \in Seq(Bytes) /\ Len(t1) = 1 /\ t1[1] = Token(m, c)
  <2> HIDE DEF m, c
  <2> QED
    BY <1>3, TokenIsByte
<1>6. t2 \in Seq(Bytes) /\ Len(t2) = x /\ t5 \in Seq(Bytes) /\ Len(t5) = y
  <2> HIDE DEF m, c
  <2> QED
    BY <1>3, ExtensionIsWritten
<1>7. t3 \in Seq(Bytes) /\ Len(t3) = m
  <2>1. MatchStart \in Nat /\ anchor <= MatchStart /\ MatchStart <= N
    BY <1>1, <1>2
  <2> QED
    BY <1>1, <2>1, LiteralsFacts
<1>8. t4 \in Seq(Bytes) /\ Len(t4) = 2 /\ t4[1] = o % Byte /\ t4[2] = o \div Byte
  <2> HIDE DEF o
  <2>1. t4 \in Seq(Bytes) /\ Len(t4) = 2
    BY <1>3, OffsetIsBytes
  <2>2. t4[1] = o % Byte /\ t4[2] = o \div Byte
    BY DEF OffsetBytes
  <2> QED
    BY <2>1, <2>2
<1>9. x \in Nat /\ y \in Nat
  <2> HIDE DEF m, c
  <2> QED
    BY <1>3, ExtensionSizeIsNat
<1> HIDE DEF t1, t2, t3, t4, t5, s
<1>10. /\ s \in Seq(Bytes) /\ Len(s) = 1 + x + m + 2 + y
       /\ s[1] = Token(m, c)
       /\ \A k \in 1 .. x : s[1 + k] = t2[k]
       /\ \A k \in 1 .. m : s[1 + x + k] = t3[k]
       /\ s[1 + x + m + 1] = o % Byte /\ s[1 + x + m + 2] = o \div Byte
       /\ \A k \in 1 .. y : s[1 + x + m + 2 + k] = t5[k]
  <2> HIDE DEF m, c, o, x, y
  <2>1. /\ s \in Seq(Bytes) /\ Len(s) = Len(t1) + Len(t2) + Len(t3) + Len(t4) + Len(t5)
        /\ \A k \in 1 .. Len(t1) : s[k] = t1[k]
        /\ \A k \in 1 .. Len(t2) : s[Len(t1) + k] = t2[k]
        /\ \A k \in 1 .. Len(t3) : s[Len(t1) + Len(t2) + k] = t3[k]
        /\ \A k \in 1 .. Len(t4) : s[Len(t1) + Len(t2) + Len(t3) + k] = t4[k]
        /\ \A k \in 1 .. Len(t5) : s[Len(t1) + Len(t2) + Len(t3) + Len(t4) + k] = t5[k]
    <3>1. /\ s = t1 \o t2 \o t3 \o t4 \o t5
          /\ t1 \in Seq(Bytes) /\ t2 \in Seq(Bytes) /\ t3 \in Seq(Bytes)
          /\ t4 \in Seq(Bytes) /\ t5 \in Seq(Bytes)
      BY <1>4, <1>5, <1>6, <1>7, <1>8
    <3>2. InPlace(s, t1, t2, t3, t4, t5)
      BY <3>1, FiveInPlace
    <3> QED
      BY <3>2 DEF InPlace
  <2>2. s[1] = Token(m, c)
    BY <1>5, <2>1
  <2>3. s[1 + x + m + 1] = o % Byte /\ s[1 + x + m + 2] = o \div Byte
    BY <1>5, <1>6, <1>7, <1>8, <2>1
  <2>4. \A k \in 1 .. y : s[1 + x + m + 2 + k] = t5[k]
    BY <1>5, <1>6, <1>7, <1>8, <2>1
  <2> QED
    BY <1>5, <1>6, <1>7, <1>8, <2>1, <2>2, <2>3, <2>4
<1>11. /\ f \in Seq(Bytes) /\ Len(f) = p + Len(s)
       /\ \A k \in 1 .. p : f[k] = enc[k]
       /\ \A k \in 1 .. Len(s) : f[p + k] = s[k]
  <2>1. f = enc \o s
    BY DEF s
  <2> QED
    <3>1. enc \in Seq(Bytes) /\ s \in Seq(Bytes)
      BY <1>1, <1>10
    <3> HIDE DEF p
    <3>2. /\ f \in Seq(Bytes) /\ Len(f) = Len(enc) + Len(s)
          /\ \A k \in 1 .. Len(enc) : f[k] = enc[k]
          /\ \A k \in 1 .. Len(s) : f[Len(enc) + k] = s[k]
      BY <2>1, <3>1, TwoInPlace
    <3> QED
      BY <3>2 DEF p
<1> HIDE DEF m, c, o, x, y, p
<1>12. p \in Nat /\ Len(f) = p + (1 + x + m + 2 + y)
  BY <1>1, <1>10, <1>11 DEF p
<1>13. \A k \in Nat : 1 <= k /\ k <= 1 + x + m + 2 + y => f[p + k] = s[k]
  <2>1. Len(s) = 1 + x + m + 2 + y
    BY <1>10
  <2>2. \A k \in 1 .. Len(s) : f[p + k] = s[k]
    BY <1>11
  <2>3. x \in Nat /\ m \in Nat /\ y \in Nat
    BY <1>3, <1>9
  <2> SUFFICES ASSUME NEW k \in Nat, 1 <= k, k <= 1 + x + m + 2 + y PROVE f[p + k] = s[k]
    OBVIOUS
  <2>4. k \in 1 .. Len(s)
    BY <2>1, <2>3
  <2> QED
    BY <2>2, <2>4
<1>14. f[p + 1] = Token(m, c)
  <2>1. 1 \in Nat /\ 1 <= 1 /\ 1 <= 1 + x + m + 2 + y
    BY <1>3, <1>9
  <2>2. f[p + 1] = s[1]
    BY <1>13, <2>1
  <2> QED
    BY <1>10, <2>2
<1>15. \A k \in 1 .. x : f[p + 1 + k] = t2[k]
  <2> SUFFICES ASSUME NEW k \in 1 .. x PROVE f[p + 1 + k] = t2[k]
    OBVIOUS
  <2>1. 1 + k \in Nat /\ 1 <= 1 + k /\ 1 + k <= 1 + x + m + 2 + y
        /\ p + (1 + k) = p + 1 + k
    BY <1>3, <1>9, <1>12
  <2> QED
    BY <1>10, <1>13, <2>1
<1>16. \A k \in 1 .. m : f[p + 1 + x + k] = t3[k]
  <2> SUFFICES ASSUME NEW k \in 1 .. m PROVE f[p + 1 + x + k] = t3[k]
    OBVIOUS
  <2>1. 1 + x + k \in Nat /\ 1 <= 1 + x + k /\ 1 + x + k <= 1 + x + m + 2 + y
        /\ p + (1 + x + k) = p + 1 + x + k
    BY <1>3, <1>9, <1>12
  <2> QED
    BY <1>10, <1>13, <2>1
<1> DEFINE q == p + 1 + x + m
<1>17. f[q + 1] = o % Byte /\ f[q + 2] = o \div Byte
  <2>1. 1 + x + m + 1 \in Nat /\ 1 + x + m + 2 \in Nat
        /\ 1 + x + m + 2 <= 1 + x + m + 2 + y
        /\ 1 <= 1 + x + m + 1 /\ 1 + x + m + 1 <= 1 + x + m + 2 + y /\ 1 <= 1 + x + m + 2
        /\ p + (1 + x + m + 1) = q + 1 /\ p + (1 + x + m + 2) = q + 2
    BY <1>3, <1>9, <1>12
  <2>2. f[p + (1 + x + m + 1)] = s[1 + x + m + 1] /\ f[p + (1 + x + m + 2)] = s[1 + x + m + 2]
    BY <1>13, <2>1
  <2> HIDE DEF q
  <2> QED
    BY <1>10, <2>1, <2>2
<1>18. \A k \in 1 .. y : f[q + 2 + k] = t5[k]
  <2> SUFFICES ASSUME NEW k \in 1 .. y PROVE f[q + 2 + k] = t5[k]
    OBVIOUS
  <2>1. 1 + x + m + 2 + k \in Nat /\ 1 <= 1 + x + m + 2 + k
        /\ 1 + x + m + 2 + k <= 1 + x + m + 2 + y
        /\ p + (1 + x + m + 2 + k) = q + 2 + k
    BY <1>3, <1>9, <1>12
  <2> QED
    BY <1>10, <1>13, <2>1
<1>19. Literals(f, p, anchor, m)
  <2>1. /\ Len(f) \in Nat /\ p + 1 + ExtensionSize(m) + m <= Len(f) /\ anchor + m <= N
    BY <1>3, <1>9, <1>12 DEF x
  <2>2. \A k \in 1 .. ExtensionSize(m) : f[p + 1 + k] = Extension(m)[k]
    BY <1>15 DEF x, t2
  <2>3. \A k \in 1 .. m :
          f[p + 1 + ExtensionSize(m) + k] = SubSeq(input, anchor + 1, anchor + m)[k]
    BY <1>3, <1>16 DEF x, t3
  <2> QED
    BY <1>1, <1>3, <1>12, <1>14, <2>1, <2>2, <2>3, LiteralsAreWritten
<1>20. Match(f, p, q, MatchStart, o, MatchLength)
  <2>1. q \in Nat /\ q + 2 + ExtensionSize(MatchLength - MinMatch) <= Len(f)
    BY <1>3, <1>9, <1>12 DEF y, c
  <2>2. f[p + 1] = Token(m, MatchLength - MinMatch)
    BY <1>14 DEF c
  <2>3. \A k \in 1 .. ExtensionSize(MatchLength - MinMatch) :
          f[q + 2 + k] = Extension(MatchLength - MinMatch)[k]
    BY <1>18 DEF y, c, t5
  <2>4. \A k \in 0 .. MatchLength - 1 : At(MatchStart - o + k) = At(MatchStart + k)
    BY <1>2, <1>3
  <2> HIDE DEF q
  <2> QED
    BY <1>2, <1>3, <1>12, <1>17, <2>1, <2>2, <2>3, <2>4, MatchIsWritten
<1>21. Link(f, << p, anchor >>, << Len(f), MatchEnd >>)
  <2>1. LiteralsFrom(p, m) + m = q
    BY DEF LiteralsFrom, x
  <2>2. MatchTo(q, MatchLength) = Len(f)
    BY <1>3, <1>9, <1>12 DEF MatchTo, y, c
  <2>3. o \in Nat
    BY <1>3
  <2>4. << p, anchor >>[1] = p /\ << p, anchor >>[2] = anchor
    OBVIOUS
  <2> HIDE DEF q
  <2> QED
    BY <1>2, <1>3, <1>19, <1>20, <2>1, <2>2, <2>3, <2>4 DEF Link
<1> QED
  BY <1>1, <1>3, <1>9, <1>11, <1>12, <1>21 DEF p

(* The literals lz4_emit_last appends close the chain. *)
LEMMA LastCloses ==
  ASSUME IInv, NEW f, f = enc \o LastBytes
  PROVE  /\ Closes(f, << Len(enc), anchor >>)
         /\ Len(enc) \in Nat /\ Len(f) \in Nat /\ Len(enc) <= Len(f)
         /\ \A k \in 1 .. Len(enc) : f[k] = enc[k]
<1> DEFINE p == Len(enc)
           m == N - anchor
           x == ExtensionSize(m)
           s == LastBytes
           t1 == << Token(m, 0) >>
           t2 == Extension(m)
           t3 == SubSeq(input, anchor + 1, N)
<1>1. /\ input \in Inputs /\ enc \in Seq(Bytes) /\ Len(enc) \in Nat
      /\ anchor \in Nat /\ anchor <= N /\ N \in Nat
  BY InputFacts DEF IInv, TypeOK
<1>2. m \in Nat /\ anchor + m = N /\ 0 \in Nat
  BY <1>1
<1>3. s = t1 \o t2 \o t3
  BY DEF LastBytes
<1>4. t1 \in Seq(Bytes) /\ Len(t1) = 1 /\ t1[1] = Token(m, 0)
  <2> HIDE DEF m
  <2> QED
    BY <1>2, TokenIsByte
<1>5. t2 \in Seq(Bytes) /\ Len(t2) = x /\ x \in Nat
  <2> HIDE DEF m
  <2> QED
    BY <1>2, ExtensionIsWritten, ExtensionSizeIsNat
<1>6. t3 \in Seq(Bytes) /\ Len(t3) = m
  <2>1. N <= N
    BY <1>1
  <2> QED
    BY <1>1, <2>1, LiteralsFacts
<1> HIDE DEF t1, t2, t3, s
<1>7. /\ s \in Seq(Bytes) /\ Len(s) = 1 + x + m
      /\ s[1] = Token(m, 0)
      /\ \A k \in 1 .. x : s[1 + k] = t2[k]
      /\ \A k \in 1 .. m : s[1 + x + k] = t3[k]
  <2> HIDE DEF m, x
  <2>1. /\ s \in Seq(Bytes) /\ Len(s) = Len(t1) + Len(t2) + Len(t3)
        /\ \A k \in 1 .. Len(t1) : s[k] = t1[k]
        /\ \A k \in 1 .. Len(t2) : s[Len(t1) + k] = t2[k]
        /\ \A k \in 1 .. Len(t3) : s[Len(t1) + Len(t2) + k] = t3[k]
    <3>1. /\ s = t1 \o t2 \o t3
          /\ t1 \in Seq(Bytes) /\ t2 \in Seq(Bytes) /\ t3 \in Seq(Bytes)
      BY <1>3, <1>4, <1>5, <1>6
    <3> QED
      BY <3>1, ThreeInPlace
  <2>2. s[1] = Token(m, 0)
    BY <1>4, <2>1
  <2> QED
    BY <1>4, <1>5, <1>6, <2>1, <2>2
<1>8. /\ f \in Seq(Bytes) /\ Len(f) = p + Len(s)
      /\ \A k \in 1 .. p : f[k] = enc[k]
      /\ \A k \in 1 .. Len(s) : f[p + k] = s[k]
  <2>1. f = enc \o s
    BY DEF s
  <2> QED
    <3>1. enc \in Seq(Bytes) /\ s \in Seq(Bytes)
      BY <1>1, <1>7
    <3> HIDE DEF p
    <3>2. /\ f \in Seq(Bytes) /\ Len(f) = Len(enc) + Len(s)
          /\ \A k \in 1 .. Len(enc) : f[k] = enc[k]
          /\ \A k \in 1 .. Len(s) : f[Len(enc) + k] = s[k]
      BY <2>1, <3>1, TwoInPlace
    <3> QED
      BY <3>2 DEF p
<1> HIDE DEF m, x, p
<1>9. p \in Nat /\ Len(f) = p + (1 + x + m)
  BY <1>1, <1>7, <1>8 DEF p
<1>10. \A k \in Nat : 1 <= k /\ k <= 1 + x + m => f[p + k] = s[k]
  <2>1. Len(s) = 1 + x + m
    BY <1>7
  <2>2. \A k \in 1 .. Len(s) : f[p + k] = s[k]
    BY <1>8
  <2>3. x \in Nat /\ m \in Nat
    BY <1>2, <1>5
  <2> SUFFICES ASSUME NEW k \in Nat, 1 <= k, k <= 1 + x + m PROVE f[p + k] = s[k]
    OBVIOUS
  <2>4. k \in 1 .. Len(s)
    BY <2>1, <2>3
  <2> QED
    BY <2>2, <2>4
<1>11. f[p + 1] = Token(m, 0)
  <2>1. 1 \in Nat /\ 1 <= 1 /\ 1 <= 1 + x + m
    BY <1>2, <1>5
  <2>2. f[p + 1] = s[1]
    BY <1>10, <2>1
  <2> QED
    BY <1>7, <2>2
<1>12. \A k \in 1 .. x : f[p + 1 + k] = t2[k]
  <2> SUFFICES ASSUME NEW k \in 1 .. x PROVE f[p + 1 + k] = t2[k]
    OBVIOUS
  <2>1. 1 + k \in Nat /\ 1 <= 1 + k /\ 1 + k <= 1 + x + m /\ p + (1 + k) = p + 1 + k
    BY <1>2, <1>5, <1>9
  <2> QED
    BY <1>7, <1>10, <2>1
<1>13. \A k \in 1 .. m : f[p + 1 + x + k] = t3[k]
  <2> SUFFICES ASSUME NEW k \in 1 .. m PROVE f[p + 1 + x + k] = t3[k]
    OBVIOUS
  <2>1. 1 + x + k \in Nat /\ 1 <= 1 + x + k /\ 1 + x + k <= 1 + x + m
        /\ p + (1 + x + k) = p + 1 + x + k
    BY <1>2, <1>5, <1>9
  <2> QED
    BY <1>7, <1>10, <2>1
<1>14. Literals(f, p, anchor, m)
  <2>1. Len(f) \in Nat /\ p + 1 + ExtensionSize(m) + m <= Len(f) /\ anchor + m <= N
    BY <1>1, <1>2, <1>5, <1>9 DEF x
  <2>2. \A k \in 1 .. ExtensionSize(m) : f[p + 1 + k] = Extension(m)[k]
    BY <1>12 DEF x, t2
  <2>3. \A k \in 1 .. m :
          f[p + 1 + ExtensionSize(m) + k] = SubSeq(input, anchor + 1, anchor + m)[k]
    BY <1>2, <1>13 DEF x, t3
  <2> QED
    BY <1>1, <1>2, <1>9, <1>11, <2>1, <2>2, <2>3, LiteralsAreWritten
<1>15. LiteralsFrom(p, m) + m = Len(f)
  BY <1>2, <1>5, <1>9 DEF LiteralsFrom, x
<1>16. Closes(f, << p, anchor >>)
  <2>1. << p, anchor >>[1] = p /\ << p, anchor >>[2] = anchor
    OBVIOUS
  <2> QED
    BY <1>2, <1>14, <1>15, <2>1 DEF Closes
<1> QED
  BY <1>1, <1>2, <1>5, <1>8, <1>9, <1>16 DEF p

-----------------------------------------------------------------------------
(* The grammar of a block depends on its bytes and on the input only. *)
LEMMA SameLiterals ==
  ASSUME input' = input, NEW f, f = enc', NEW p, NEW a, NEW m
  PROVE  Literals(enc, p, a, m)' <=> Literals(f, p, a, m)
BY DEF Literals, At, N, ExtensionAt

LEMMA SameMatch ==
  ASSUME input' = input, NEW f, f = enc', NEW p, NEW q, NEW b, NEW o, NEW n
  PROVE  Match(enc, p, q, b, o, n)' <=> Match(f, p, q, b, o, n)
BY DEF Match, At, N, ExtensionAt

LEMMA SameLink ==
  ASSUME input' = input, NEW f, f = enc', NEW x, NEW y
  PROVE  Link(enc, x, y)' <=> Link(f, x, y)
<1>1. \A p, a, m : Literals(enc, p, a, m)' <=> Literals(f, p, a, m)
  BY SameLiterals
<1>2. \A p, q, b, o, n : Match(enc, p, q, b, o, n)' <=> Match(f, p, q, b, o, n)
  BY SameMatch
<1> QED
  BY <1>1, <1>2 DEF Link

LEMMA SameEncodes ==
  ASSUME input' = input, NEW f, f = enc', NEW x
  PROVE  Encodes(enc, x)' <=> Encodes(f, x)
<1>1. \A y, z : Link(enc, y, z)' <=> Link(f, y, z)
  BY SameLink
<1>2. \A y : Closes(enc, y)' <=> Closes(f, y)
  <2>1. \A p, a, m : Literals(enc, p, a, m)' <=> Literals(f, p, a, m)
    BY SameLiterals
  <2>2. N' = N
    BY DEF N
  <2> QED
    BY <2>1, <2>2 DEF Closes
<1> QED
  BY <1>1, <1>2 DEF Encodes

-----------------------------------------------------------------------------
LEMMA ChainStarts == Init => ChainIsWritten
<1> SUFFICES ASSUME Init PROVE ChainIsWritten
  OBVIOUS
<1> DEFINE S == {<< 0, 0 >>}
<1>1. S \in SUBSET Places /\ << 0, 0 >> \in S
  BY DEF Places
<1>2. Len(enc) = 0 /\ anchor = 0
  BY DEF Init
<1>3. ASSUME epc = "ok" PROVE Encodes(enc, << 0, 0 >>)
  <2>1. N = 0
    BY <1>3 DEF Init
  <2>2. \A x \in S : Closes(enc, x)
    BY <1>2, <2>1 DEF Closes
  <2> QED
    BY <1>1, <2>2 DEF Encodes
<1> QED
  BY <1>1, <1>2, <1>3 DEF ChainIsWritten

(* No other step writes to the block. *)
LEMMA ChainWaits ==
  ASSUME ChainIsWritten, UNCHANGED << input, enc, anchor >>,
         \/ epc \in EncStages \ {"ok", "tooSmall"} /\ epc' # "ok"
         \/ epc' = epc \/ epc' = "tooSmall"
  PROVE  ChainIsWritten'
<1>1. ASSUME epc' = "ok" PROVE Encodes(enc, << 0, 0 >>)'
  <2>1. epc = "ok"
    BY <1>1
  <2>2. Encodes(enc, << 0, 0 >>)
    BY <2>1 DEF ChainIsWritten
  <2> QED
    BY <2>2, SameEncodes
<1>2. ASSUME epc' \in EncStages \ {"ok", "tooSmall"}
      PROVE  \E S \in SUBSET Places :
               /\ << 0, 0 >> \in S /\ << Len(enc'), anchor' >> \in S
               /\ \A x \in S : \/ x = << Len(enc'), anchor' >>
                               \/ \E y \in S : Link(enc, x, y)'
  <2>1. epc \in EncStages \ {"ok", "tooSmall"}
    BY <1>2
  <2>2. \A x, y : Link(enc, x, y)' <=> Link(enc, x, y)
    BY SameLink
  <2> QED
    BY <2>1, <2>2 DEF ChainIsWritten
<1> QED
  BY <1>1, <1>2 DEF ChainIsWritten

LEMMA ChainGrows ==
  ASSUME IInv, ChainIsWritten, EmitSequence
  PROVE  ChainIsWritten'
<1>1. /\ epc = "emit" /\ input' = input
      /\ \/ epc' = "tooSmall"
         \/ epc' = "loop" /\ enc' = enc \o SequenceBytes /\ anchor' = MatchEnd
  BY DEF EmitSequence
<1>2. CASE epc' = "tooSmall"
  BY <1>2 DEF ChainIsWritten
<1>3. CASE epc' = "loop" /\ enc' = enc \o SequenceBytes /\ anchor' = MatchEnd
  <2>1. PICK S \in SUBSET Places :
          /\ << 0, 0 >> \in S /\ << Len(enc), anchor >> \in S
          /\ \A x \in S : \/ x = << Len(enc), anchor >>
                          \/ \E y \in S : Link(enc, x, y)
    <3>1. epc \in EncStages \ {"ok", "tooSmall"}
      BY <1>1 DEF EncStages
    <3> QED
      BY <3>1 DEF ChainIsWritten
  <2>2. PICK f : f = enc'
    OBVIOUS
  <2>3. /\ Link(f, << Len(enc), anchor >>, << Len(f), MatchEnd >>)
        /\ Len(enc) \in Nat /\ Len(f) \in Nat /\ Len(enc) <= Len(f)
        /\ \A k \in 1 .. Len(enc) : f[k] = enc[k]
        /\ anchor \in Nat /\ MatchEnd \in Nat
    BY <1>1, <1>3, <2>2, EmissionLinks
  <2> DEFINE end == << Len(f), MatchEnd >>
             T == S \cup {end}
  <2>4. T \in SUBSET Places /\ << 0, 0 >> \in T /\ end \in T
    BY <2>1, <2>3 DEF Places
  <2>5. \A x \in T : x = end \/ \E y \in T : Link(f, x, y)
    <3> SUFFICES ASSUME NEW x \in S PROVE \E y \in T : Link(f, x, y)
      OBVIOUS
    <3>1. CASE x = << Len(enc), anchor >>
      BY <2>3, <2>4, <3>1
    <3>2. CASE \E y \in S : Link(enc, x, y)
      <4>1. PICK y \in S : Link(enc, x, y)
        BY <3>2
      <4>2. x \in Places /\ y \in Places /\ y \in T
        OBVIOUS
      <4>3. Link(f, x, y)
        BY <2>3, <4>1, <4>2, LinkStays
      <4> QED
        BY <4>2, <4>3
    <3> QED
      BY <2>1, <3>1, <3>2
  <2>6. \A x, y : Link(enc, x, y)' <=> Link(f, x, y)
    BY <1>1, <2>2, SameLink
  <2>7. end = << Len(enc'), anchor' >>
    BY <1>3, <2>2
  <2> HIDE DEF T, end
  <2>8. /\ << 0, 0 >> \in T /\ << Len(enc'), anchor' >> \in T
        /\ \A x \in T : \/ x = << Len(enc'), anchor' >>
                        \/ \E y \in T : Link(enc, x, y)'
    BY <2>4, <2>5, <2>6, <2>7
  <2>9. epc' # "ok"
    BY <1>3
  <2> QED
    BY <2>4, <2>8, <2>9 DEF ChainIsWritten
<1> QED
  BY <1>1, <1>2, <1>3

LEMMA ChainCloses ==
  ASSUME IInv, ChainIsWritten, EmitLast
  PROVE  ChainIsWritten'
<1>1. /\ epc = "last" /\ input' = input
      /\ epc' = "tooSmall" \/ (epc' = "ok" /\ enc' = enc \o LastBytes)
  BY DEF EmitLast
<1>2. CASE epc' = "tooSmall"
  BY <1>2 DEF ChainIsWritten
<1>3. CASE epc' = "ok" /\ enc' = enc \o LastBytes
  <2>1. PICK S \in SUBSET Places :
          /\ << 0, 0 >> \in S /\ << Len(enc), anchor >> \in S
          /\ \A x \in S : \/ x = << Len(enc), anchor >>
                          \/ \E y \in S : Link(enc, x, y)
    <3>1. epc \in EncStages \ {"ok", "tooSmall"}
      BY <1>1 DEF EncStages
    <3> QED
      BY <3>1 DEF ChainIsWritten
  <2>2. PICK f : f = enc'
    OBVIOUS
  <2>3. /\ Closes(f, << Len(enc), anchor >>)
        /\ Len(enc) \in Nat /\ Len(f) \in Nat /\ Len(enc) <= Len(f)
        /\ \A k \in 1 .. Len(enc) : f[k] = enc[k]
    BY <1>3, <2>2, LastCloses
  <2>4. \A x \in S : Closes(f, x) \/ \E y \in S : Link(f, x, y)
    <3> SUFFICES ASSUME NEW x \in S PROVE Closes(f, x) \/ \E y \in S : Link(f, x, y)
      OBVIOUS
    <3>1. CASE x = << Len(enc), anchor >>
      BY <2>3, <3>1
    <3>2. CASE \E y \in S : Link(enc, x, y)
      <4>1. PICK y \in S : Link(enc, x, y)
        BY <3>2
      <4>2. x \in Places /\ y \in Places
        OBVIOUS
      <4>3. Link(f, x, y)
        BY <2>3, <4>1, <4>2, LinkStays
      <4> QED
        BY <4>3
    <3> QED
      BY <2>1, <3>1, <3>2
  <2>5. Encodes(f, << 0, 0 >>)
    BY <2>1, <2>4 DEF Encodes
  <2>6. Encodes(enc, << 0, 0 >>)'
    BY <1>1, <2>2, <2>5, SameEncodes
  <2> QED
    BY <1>3, <2>6 DEF ChainIsWritten
<1> QED
  BY <1>1, <1>2, <1>3

LEMMA ChainKeeps ==
  ASSUME IInv, ChainIsWritten, [EncNext]_encVars
  PROVE  ChainIsWritten'
<1>1. CASE EmitSequence
  BY <1>1, ChainGrows
<1>2. CASE EmitLast
  BY <1>2, ChainCloses
<1>3. CASE \/ SearchPosition \/ EndSearch \/ WalkStep \/ WalkFindsNothing
           \/ WalkFindsMatch \/ LazyDefers \/ LazyKeeps
  <2>1. UNCHANGED << input, enc, anchor >>
    BY <1>3 DEF SearchPosition, EndSearch, WalkStep, WalkFindsNothing, WalkFindsMatch,
                LazyDefers, LazyKeeps
  <2>2. epc \in EncStages \ {"ok", "tooSmall"} /\ epc' # "ok"
    BY <1>3 DEF SearchPosition, EndSearch, WalkStep, WalkFindsNothing, WalkFindsMatch,
                LazyDefers, LazyKeeps, EncStages
  <2> QED
    BY <2>1, <2>2, ChainWaits
<1>4. CASE UNCHANGED encVars
  <2>1. UNCHANGED << input, enc, anchor >> /\ epc' = epc
    BY <1>4 DEF encVars
  <2> QED
    BY <2>1, ChainWaits
<1> QED
  BY <1>1, <1>2, <1>3, <1>4 DEF EncNext

-----------------------------------------------------------------------------
(* What a decoding state and a step of the decoder leave to be shown. *)
LEMMA DecoderFacts ==
  ASSUME RInv, decoding
  PROVE  /\ N \in Nat /\ N <= MaxInput /\ MaxInput \in Nat
         /\ enc \in Seq(Bytes) /\ Len(enc) \in Nat
         /\ blk.src = enc /\ blk.prefix \in Nat /\ blk.cap = blk.prefix + N
         /\ blk.prefix <= Windows
         /\ DOMAIN dst = 0 .. blk.cap - 1
         /\ sp \in Nat /\ dp \in Nat /\ off \in Nat
         /\ input \in Inputs
<1>1. input \in Inputs /\ enc \in Seq(Bytes)
  BY DEF RInv, IInv, TypeOK
<1>2. N \in Nat /\ N <= MaxInput /\ MaxInput \in Nat
  <2>1. MaxInput \in Nat
    BY EncodeAssumption
  <2>2. PICK n \in 0 .. MaxInput : input \in [1 .. n -> Alphabet]
    BY <1>1 DEF Inputs
  <2>3. Len(input) = n
    BY <2>1, <2>2
  <2> QED
    BY <2>1, <2>2, <2>3 DEF N
<1> QED
  BY <1>1, <1>2 DEF RInv, DecoderTypes

LEMMA SameGrammar ==
  ASSUME UNCHANGED encVars
  PROVE  /\ N' = N /\ Len(enc)' = Len(enc) /\ enc' = enc /\ input' = input
         /\ \A k : At(k)' = At(k)
         /\ \A p, a, m : Literals(enc, p, a, m)' <=> Literals(enc, p, a, m)
         /\ \A p, q, b, o, n : Match(enc, p, q, b, o, n)' <=> Match(enc, p, q, b, o, n)
         /\ \A x : Encodes(enc, x)' <=> Encodes(enc, x)
         /\ \A p, q, b : Follows(p, q, b)' <=> Follows(p, q, b)
<1>1. input' = input /\ enc' = enc
  BY DEF encVars
<1>2. N' = N /\ \A k : At(k)' = At(k)
  BY <1>1 DEF N, At
<1>3. \A p, a, m : Literals(enc, p, a, m)' <=> Literals(enc, p, a, m)
  BY <1>1, SameLiterals
<1>4. \A p, q, b, o, n : Match(enc, p, q, b, o, n)' <=> Match(enc, p, q, b, o, n)
  BY <1>1, SameMatch
<1>5. \A x : Encodes(enc, x)' <=> Encodes(enc, x)
  BY <1>1, SameEncodes
<1>6. \A p, q, b : Follows(p, q, b)' <=> Follows(p, q, b)
  BY <1>1, <1>2, <1>4, <1>5 DEF Follows
<1> QED
  BY <1>1, <1>2, <1>3, <1>4, <1>5, <1>6

LEMMA NothingDecoded ==
  ASSUME RInv, decoding, UNCHANGED encVars, UNCHANGED << blk, dst, dp >>,
         pc # "enter", sp' \in Nat, off' \in Nat
  PROVE  DecoderTypes' /\ Decoded' /\ Reached' = Reached
<1>1. N' = N /\ enc' = enc /\ \A k : At(k)' = At(k)
  BY SameGrammar
<1>2. DecoderTypes /\ Decoded
  BY DEF RInv
<1>3. DecoderTypes'
  BY <1>1, <1>2 DEF DecoderTypes
<1>4. Reached' = Reached
  BY DEF Reached
<1>5. Decoded'
  BY <1>1, <1>2, <1>4 DEF Decoded
<1> QED
  BY <1>3, <1>4, <1>5

(* Sums of lengths within the input do not wrap, and no sum grows by wrapping. *)
LEMMA SumsFit ==
  ASSUME NEW n \in Nat
  PROVE  Decoder!Wrap(n) <= n /\ (n <= MaxInput => Decoder!Wrap(n) = n)
<1>1. Usize \in Nat /\ Usize >= 1 /\ MaxInput \in Nat /\ MaxInput < Usize
  <2>1. MaxInput \in Nat /\ Slack \in Nat
    BY EncodeAssumption, Numbers
  <2> QED
    BY <2>1, RoundAssumption
<1>2. n % Usize <= n /\ (n < Usize => n % Usize = n)
  BY <1>1
<1>3. n <= MaxInput => n < Usize
  BY <1>1
<1> QED
  BY <1>2, <1>3 DEF Decoder!Wrap

(* The next length byte, and the sum with it. *)
LEMMA NextLengthByte ==
  ASSUME NEW e, NEW q \in Nat, NEW n \in Nat, n >= RunMask, ExtensionAt(e, q, n),
         NEW r \in Nat, r < ExtensionSize(n), NEW v, v = e[q + r + 1]
  PROVE  /\ RunMask + ByteMax * r + v \in Nat /\ RunMask + ByteMax * r + v <= n
         /\ v = ByteMax => /\ r + 1 < ExtensionSize(n)
                           /\ RunMask + ByteMax * r + v = RunMask + ByteMax * (r + 1)
         /\ v # ByteMax => /\ r + 1 = ExtensionSize(n)
                           /\ RunMask + ByteMax * r + v = n
<1> DEFINE x == ExtensionSize(n)
           rest == (n - RunMask) % ByteMax
           B == ByteMax * r
<1>1. x \in Nat /\ x >= 1 /\ ByteMax \in Nat /\ RunMask \in Nat
  BY ExtensionSizeIsNat, Numbers
<1>2. B \in Nat
  BY <1>1
<1>3. CASE r + 1 < x
  <2>1. r + 1 \in 1 .. x - 1 /\ q + (r + 1) = q + r + 1
    BY <1>1, <1>3
  <2>2. e[q + (r + 1)] = ByteMax
    BY <2>1 DEF ExtensionAt
  <2>3. v = ByteMax
    BY <2>1, <2>2
  <2>4. /\ RunMask + B + ByteMax = RunMask + ByteMax * (r + 1)
        /\ RunMask + B + ByteMax <= n
    BY <1>3, ExtensionSteps
  <2> HIDE DEF B, x, rest
  <2>5. RunMask + B + v \in Nat
    BY <1>1, <1>2, <2>3
  <2> QED
    BY <1>3, <2>3, <2>4, <2>5 DEF B, x
<1>4. CASE r + 1 = x
  <2>1. e[q + x] = rest
    BY DEF ExtensionAt
  <2>2. q + x = q + r + 1
    BY <1>1, <1>4
  <2>3. v = rest
    BY <2>1, <2>2
  <2>4. RunMask + B + rest = n /\ rest # ByteMax
    BY <1>4, ExtensionSteps
  <2> HIDE DEF B, x, rest
  <2>5. RunMask + B + v = n /\ v # ByteMax
    BY <2>3, <2>4
  <2>6. n \in Nat /\ n <= n
    OBVIOUS
  <2> QED
    BY <1>4, <2>5, <2>6 DEF B, x
<1> QED
  BY <1>1, <1>3, <1>4

(* Text that repeats at distance o has its first o bytes over and over. *)
LEMMA RepeatedText ==
  ASSUME NEW b \in Nat, NEW o \in 1 .. b, NEW n \in Nat,
         \A k \in 0 .. n - 1 : At(b - o + k) = At(b + k)
  PROVE  \A k \in 0 .. n - 1 : At(b - o + (k % o)) = At(b + k)
<1> DEFINE bad == { k \in Nat : k < n /\ At(b - o + (k % o)) # At(b + k) }
<1> SUFFICES ASSUME NEW g \in 0 .. n - 1, At(b - o + (g % o)) # At(b + g)
             PROVE  FALSE
  OBVIOUS
<1>1. bad # {}
  <2>1. g \in Nat /\ g < n
    OBVIOUS
  <2>2. g \in bad
    BY <2>1
  <2> QED
    BY <2>2
<1>2. PICK k \in bad : \A j \in bad : k <= j
  <2>1. bad \in SUBSET Nat
    OBVIOUS
  <2> HIDE DEF bad
  <2> QED
    BY <1>1, <2>1, LeastExists
<1>3. k \in Nat /\ k < n /\ At(b - o + (k % o)) # At(b + k) /\ k \in 0 .. n - 1
  OBVIOUS
<1>4. CASE k < o
  <2>1. k % o = k
    BY <1>3, <1>4
  <2> QED
    BY <1>3, <2>1
<1>5. CASE k >= o
  <2> DEFINE j == k - o
  <2>1. j \in Nat /\ j < n /\ j < k /\ b + j = b - o + k
    BY <1>3, <1>5
  <2>2. j % o = k % o
    <3> DEFINE d == k \div o
               e == k % o
    <3>1. d \in Nat /\ e \in 0 .. o - 1 /\ k = o * d + e
      BY <1>3
    <3>2. d >= 1
      <4> SUFFICES ASSUME d = 0 PROVE FALSE
        BY <3>1
      <4> HIDE DEF d, e
      <4> QED
        BY <1>5, <3>1
    <3> HIDE DEF d, e
    <3>3. d - 1 \in Nat /\ o \in Nat /\ e \in 0 .. o - 1
      BY <3>1, <3>2
    <3>4. j = (d - 1) * o + e
      BY <3>1, <3>2
    <3>5. ((d - 1) * o + e) % o = e
      BY <3>3, DigitsOf
    <3> QED
      BY <3>4, <3>5 DEF e
  <2>3. ~ (j \in bad)
    BY <1>2, <1>3, <2>1
  <2>4. At(b - o + (j % o)) = At(b + j)
    BY <2>1, <2>3
  <2>5. At(b - o + k) = At(b + k)
    BY <1>3
  <2> QED
    BY <1>3, <2>1, <2>2, <2>4, <2>5
<1> QED
  BY <1>3, <1>4, <1>5

-----------------------------------------------------------------------------
LEMMA EnterStands ==
  ASSUME RInv, decoding, UNCHANGED encVars, Decoder!Enter
  PROVE  DecoderTypes' /\ Decoded' /\ DecoderStands'
<1>1. /\ N \in Nat /\ blk.prefix \in Nat /\ blk.cap = blk.prefix + N
      /\ sp \in Nat /\ off \in Nat
  BY DecoderFacts
<1>2. ~ (blk.prefix > blk.cap)
  BY <1>1
<1>3. /\ pc = "enter" /\ pc' = "token" /\ dp' = blk.prefix
      /\ UNCHANGED << blk, dst, sp, lit, mat, off, tok >>
  BY <1>2 DEF Decoder!Enter
<1>4. sp = 0 /\ Encodes(enc, << 0, 0 >>)
  BY <1>3 DEF RInv, DecoderStands
<1>5. N' = N /\ enc' = enc /\ \A x : Encodes(enc, x)' <=> Encodes(enc, x)
  BY SameGrammar
<1>6. Reached' = 0
  BY <1>1, <1>3 DEF Reached
<1>7. DecoderTypes'
  BY <1>1, <1>3, <1>5 DEF RInv, DecoderTypes
<1>8. Decoded'
  BY <1>1, <1>5, <1>6 DEF Decoded
<1>9. DecoderStands'
  <2> DEFINE x == << 0, 0 >>
  <2>1. x \in Places /\ Encodes(enc, x)' /\ x = << sp', Reached' >>
    BY <1>3, <1>4, <1>5, <1>6 DEF Places
  <2> HIDE DEF x
  <2> QED
    BY <1>3, <2>1 DEF DecoderStands
<1> QED
  BY <1>7, <1>8, <1>9

(* A token begins a sequence: where the chain goes on, its literals are there. *)
LEMMA SequenceBegins ==
  ASSUME RInv, decoding, NEW x \in Places, Encodes(enc, x)
  PROVE  \/ x = << Len(enc), N >>
         \/ /\ x[1] < Len(enc)
            /\ \E m \in Nat : /\ Literals(enc, x[1], x[2], m)
                              /\ Follows(x[1], LiteralsFrom(x[1], m) + m, x[2] + m)
<1>1. Len(enc) \in Nat /\ x[1] \in Nat
  BY DecoderFacts DEF Places
<1>2. ASSUME NEW m \in Nat, Literals(enc, x[1], x[2], m) PROVE x[1] < Len(enc)
  <2>1. LiteralsFrom(x[1], m) + m <= Len(enc)
    BY <1>2 DEF Literals
  <2>2. x[1] < LiteralsFrom(x[1], m) + m /\ LiteralsFrom(x[1], m) + m \in Nat
    BY <1>1, PlacesInOrder
  <2> QED
    BY <1>1, <2>1, <2>2
<1>3. Closes(enc, x) \/ \E y \in Places : Link(enc, x, y) /\ Encodes(enc, y)
  BY ChainUnfolds
<1>4. CASE Closes(enc, x)
  BY <1>2, <1>4 DEF Closes, Follows
<1>5. CASE \E y \in Places : Link(enc, x, y) /\ Encodes(enc, y)
  <2>1. PICK y \in Places : Link(enc, x, y) /\ Encodes(enc, y)
    BY <1>5
  <2>2. PICK m \in Nat, o \in Nat, n \in Nat :
          /\ Literals(enc, x[1], x[2], m)
          /\ Match(enc, x[1], LiteralsFrom(x[1], m) + m, x[2] + m, o, n)
          /\ y = << MatchTo(LiteralsFrom(x[1], m) + m, n), x[2] + m + n >>
    BY <2>1 DEF Link
  <2>3. Follows(x[1], LiteralsFrom(x[1], m) + m, x[2] + m)
    BY <2>1, <2>2 DEF Follows
  <2> QED
    BY <1>2, <2>2, <2>3
<1> QED
  BY <1>3, <1>4, <1>5

LEMMA EndStands ==
  ASSUME RInv, decoding, UNCHANGED encVars, Decoder!EndOfBlock
  PROVE  DecoderTypes' /\ Decoded' /\ DecoderStands'
<1>1. sp \in Nat /\ off \in Nat /\ Len(enc) \in Nat /\ blk.src = enc
  BY DecoderFacts
<1>2. /\ pc = "token" /\ pc' = "done" /\ sp >= Len(enc)
      /\ UNCHANGED << blk, dst, sp, dp, off >>
  BY <1>1 DEF Decoder!EndOfBlock, Decoder!SrcLen
<1>3. DecoderTypes' /\ Decoded' /\ Reached' = Reached
  BY <1>1, <1>2, NothingDecoded
<1>4. PICK x \in Places : x = << sp, Reached >> /\ Encodes(enc, x)
  BY <1>2 DEF RInv, DecoderStands
<1>5. x = << Len(enc), N >>
  <2>1. ~ (x[1] < Len(enc))
    BY <1>1, <1>2, <1>4
  <2> QED
    BY <1>4, <2>1, SequenceBegins
<1>6. Reached = N
  BY <1>4, <1>5
<1> QED
  BY <1>2, <1>3, <1>6, SameGrammar DEF DecoderStands

LEMMA TokenStands ==
  ASSUME RInv, decoding, UNCHANGED encVars, Decoder!ReadToken
  PROVE  DecoderTypes' /\ Decoded' /\ DecoderStands'
<1>1. N \in Nat /\ blk.src = enc /\ Len(enc) \in Nat /\ sp \in Nat /\ off \in Nat
  BY DecoderFacts
<1>2. /\ pc = "token" /\ sp < Len(enc) /\ sp' = sp + 1
      /\ tok' = enc[sp + 1] /\ lit' = LiteralNibble(enc[sp + 1])
      /\ pc' = IF lit' = RunMask THEN "litExt" ELSE "lits"
      /\ UNCHANGED << blk, dst, dp, mat, off >>
  BY <1>1 DEF Decoder!ReadToken, Decoder!SrcLen, Decoder!SrcAt, Decoder!LiteralNibble,
              LiteralNibble, Decoder!RunMask, RunMask
<1>3. DecoderTypes' /\ Decoded' /\ Reached' = Reached
  BY <1>1, <1>2, NothingDecoded
<1>4. PICK x \in Places : x = << sp, Reached >> /\ Encodes(enc, x)
  BY <1>2 DEF RInv, DecoderStands
<1>5. PICK p \in Nat, a \in Nat : p = sp /\ a = Reached /\ p = x[1] /\ a = x[2]
  BY <1>4 DEF Places
<1>6. PICK m \in Nat : /\ Literals(enc, p, a, m)
                       /\ Follows(p, LiteralsFrom(p, m) + m, a + m)
  <2>1. x # << Len(enc), N >>
    BY <1>1, <1>2, <1>4
  <2> QED
    BY <1>4, <1>5, <2>1, SequenceBegins
<1>7. lit' = Capped(m)
  BY <1>2, <1>5, <1>6 DEF Literals
<1>8. AtLiterals(p, a, m)'
  <2>1. Reached' = a /\ tok' = enc'[p + 1]
    BY <1>2, <1>3, <1>5, SameGrammar
  <2>2. Literals(enc, p, a, m)' /\ Follows(p, LiteralsFrom(p, m) + m, a + m)'
    BY <1>6, SameGrammar
  <2> QED
    BY <2>1, <2>2 DEF AtLiterals
<1>9. CASE m >= RunMask
  <2>1. lit' = RunMask /\ pc' = "litExt"
    BY <1>2, <1>7, <1>9 DEF Capped
  <2>2. 0 < ExtensionSize(m) /\ 0 \in Nat /\ ByteMax * 0 = 0 /\ RunMask + 0 = RunMask
    BY <1>9, ExtensionSizeIsNat, Numbers
  <2>3. sp' = (p + 1) + 0
    BY <1>2, <1>5
  <2>4. Reading(p + 1, m, 0, lit)'
    BY <1>9, <2>1, <2>2, <2>3 DEF Reading
  <2> QED
    BY <1>3, <1>8, <2>1, <2>2, <2>4 DEF DecoderStands
<1>10. CASE m < RunMask
  <2>1. ~ (m >= RunMask) /\ m # RunMask
    BY <1>10, Numbers
  <2>2. lit' = m /\ pc' = "lits"
    BY <1>2, <1>7, <2>1 DEF Capped
  <2>3. sp' = LiteralsFrom(p, m)
    BY <1>2, <1>5, <1>10 DEF LiteralsFrom, ExtensionSize
  <2> QED
    BY <1>3, <1>8, <2>2, <2>3 DEF DecoderStands
<1> QED
  BY <1>9, <1>10, Numbers

LEMMA LiteralExtensionStands ==
  ASSUME RInv, decoding, UNCHANGED encVars, Decoder!ReadLiteralExtension
  PROVE  DecoderTypes' /\ Decoded' /\ DecoderStands'
<1>1. /\ N \in Nat /\ N <= MaxInput /\ MaxInput \in Nat
      /\ blk.src = enc /\ Len(enc) \in Nat /\ sp \in Nat /\ off \in Nat
  BY DecoderFacts
<1>2. pc = "litExt"
  BY DEF Decoder!ReadLiteralExtension
<1>3. PICK p \in Nat, a \in Nat, m \in Nat, r \in Nat :
        AtLiterals(p, a, m) /\ Reading(p + 1, m, r, lit)
  BY <1>2 DEF RInv, DecoderStands
<1>4. /\ Literals(enc, p, a, m) /\ Follows(p, LiteralsFrom(p, m) + m, a + m)
      /\ Reached = a /\ tok = enc[p + 1]
      /\ m >= RunMask /\ r < ExtensionSize(m)
      /\ sp = p + 1 + r /\ lit = RunMask + ByteMax * r
  BY <1>3 DEF AtLiterals, Reading
<1>5. ExtensionAt(enc, p + 1, m) /\ a + m <= N /\ LiteralsFrom(p, m) + m <= Len(enc)
  BY <1>4 DEF Literals
<1>6. ExtensionSize(m) \in Nat /\ m <= MaxInput
  BY <1>1, <1>5, ExtensionSizeIsNat
<1>7. sp < Len(enc)
  BY <1>1, <1>4, <1>5, <1>6 DEF LiteralsFrom
<1> DEFINE v == enc[p + 1 + r + 1]
<1>8. v = enc[sp + 1]
  BY <1>4
<1>9. /\ RunMask + ByteMax * r + v \in Nat /\ RunMask + ByteMax * r + v <= m
      /\ v = ByteMax => /\ r + 1 < ExtensionSize(m)
                        /\ RunMask + ByteMax * r + v = RunMask + ByteMax * (r + 1)
      /\ v # ByteMax => /\ r + 1 = ExtensionSize(m)
                        /\ RunMask + ByteMax * r + v = m
  <2> DEFINE q == p + 1
  <2>1. q \in Nat /\ m >= RunMask /\ r < ExtensionSize(m) /\ ExtensionAt(enc, q, m)
    BY <1>4, <1>5
  <2>2. v = enc[q + r + 1]
    OBVIOUS
  <2> HIDE DEF v, q
  <2> QED
    BY <2>1, <2>2, NextLengthByte
<1> HIDE DEF v
<1>10. lit + v \in Nat /\ lit + v <= MaxInput
  BY <1>1, <1>4, <1>6, <1>9
<1>11. Decoder!Wrap(lit + v) = lit + v
  BY <1>10, SumsFit
<1>12. /\ lit' = lit + v /\ sp' = sp + 1
       /\ pc' = IF v = ByteMax THEN "litExt" ELSE "lits"
       /\ UNCHANGED << blk, dst, dp, mat, off, tok >>
  BY <1>1, <1>7, <1>8, <1>11 DEF Decoder!ReadLiteralExtension, Decoder!SrcLen,
     Decoder!SrcAt, Decoder!ByteMax, ByteMax, Decoder!Byte, Byte
<1>13. DecoderTypes' /\ Decoded' /\ Reached' = Reached
  BY <1>1, <1>2, <1>12, NothingDecoded
<1>14. AtLiterals(p, a, m)'
  <2>1. Reached' = a /\ tok' = enc'[p + 1]
    BY <1>4, <1>12, <1>13, SameGrammar
  <2>2. Literals(enc, p, a, m)' /\ Follows(p, LiteralsFrom(p, m) + m, a + m)'
    BY <1>4, SameGrammar
  <2> QED
    BY <2>1, <2>2 DEF AtLiterals
<1>15. CASE v = ByteMax
  <2>1. /\ r + 1 < ExtensionSize(m) /\ lit' = RunMask + ByteMax * (r + 1)
        /\ pc' = "litExt" /\ sp' = (p + 1) + (r + 1) /\ r + 1 \in Nat
    BY <1>4, <1>9, <1>12, <1>15
  <2>2. Reading(p + 1, m, r + 1, lit)'
    BY <1>4, <2>1 DEF Reading
  <2> QED
    BY <1>13, <1>14, <2>1, <2>2 DEF DecoderStands
<1>16. CASE v # ByteMax
  <2>1. /\ r + 1 = ExtensionSize(m) /\ lit' = m /\ pc' = "lits"
    BY <1>4, <1>9, <1>12, <1>16
  <2>2. sp' = LiteralsFrom(p, m)
    BY <1>4, <1>12, <2>1 DEF LiteralsFrom
  <2> QED
    BY <1>13, <1>14, <2>1, <2>2 DEF DecoderStands
<1> QED
  BY <1>15, <1>16

LEMMA LiteralsStand ==
  ASSUME RInv, decoding, UNCHANGED encVars, Decoder!CopyLiterals
  PROVE  DecoderTypes' /\ Decoded' /\ DecoderStands'
<1>1. /\ N \in Nat /\ blk.src = enc /\ Len(enc) \in Nat
      /\ blk.prefix \in Nat /\ blk.cap = blk.prefix + N
      /\ DOMAIN dst = 0 .. blk.cap - 1
      /\ sp \in Nat /\ dp \in Nat /\ off \in Nat
  BY DecoderFacts
<1>2. pc = "lits"
  BY DEF Decoder!CopyLiterals
<1>3. PICK p \in Nat, a \in Nat, m \in Nat :
        AtLiterals(p, a, m) /\ sp = LiteralsFrom(p, m) /\ lit = m
  BY <1>2 DEF RInv, DecoderStands
<1>4. /\ Literals(enc, p, a, m) /\ Follows(p, LiteralsFrom(p, m) + m, a + m)
      /\ Reached = a /\ tok = enc[p + 1]
  BY <1>3 DEF AtLiterals
<1>5. /\ a + m <= N /\ sp + m <= Len(enc)
      /\ \A k \in 0 .. m - 1 : enc[sp + k + 1] = At(a + k)
  BY <1>3, <1>4 DEF Literals
<1>6. dp = blk.prefix + a
  BY <1>1, <1>4 DEF Reached
<1>7. /\ ~ (Decoder!Wrap(sp + lit) > Len(enc)) /\ ~ (Decoder!Wrap(dp + lit) > blk.cap)
      /\ ~ (sp + lit > Len(enc)) /\ ~ (dp + lit > blk.cap)
  <2>1. sp + lit \in Nat /\ dp + lit \in Nat
    BY <1>1, <1>3
  <2>2. sp + lit <= Len(enc) /\ dp + lit <= blk.cap /\ blk.cap \in Nat
    BY <1>1, <1>3, <1>5, <1>6
  <2> DEFINE v == Decoder!Wrap(sp + lit)
             w == Decoder!Wrap(dp + lit)
  <2>3. v <= sp + lit /\ w <= dp + lit
    BY <2>1, SumsFit
  <2>4. v \in Int /\ w \in Int
    <3>1. Usize \in Nat /\ Usize >= 1
      <4>1. MaxInput \in Nat
        BY EncodeAssumption
      <4> QED
        BY <4>1, RoundAssumption
    <3> QED
      BY <2>1, <3>1 DEF Decoder!Wrap
  <2> HIDE DEF v, w
  <2>5. ~ (v > Len(enc)) /\ ~ (w > blk.cap)
    BY <1>1, <2>1, <2>2, <2>3, <2>4
  <2> QED
    BY <1>1, <2>1, <2>2, <2>5 DEF v, w
<1>8. /\ dst' = [k \in DOMAIN dst |->
                   IF k \in dp .. dp + lit - 1 THEN enc[(sp + k - dp) + 1] ELSE dst[k]]
      /\ sp' = sp + lit /\ dp' = dp + lit
      /\ pc' = IF sp + lit >= Len(enc) THEN "done" ELSE "offset"
      /\ UNCHANGED << blk, lit, mat, off, tok >>
  BY <1>1, <1>7 DEF Decoder!CopyLiterals, Decoder!SrcLen, Decoder!SrcAt
<1>9. N' = N /\ enc' = enc /\ \A k : At(k)' = At(k)
  BY SameGrammar
<1>10. Reached' = a + m /\ a + m \in 0 .. N
  <2>1. dp' = dp + m /\ blk' = blk
    BY <1>3, <1>8
  <2>2. a + m <= N
    BY <1>5
  <2>3. Reached' = a + m
    <3>1. Reached' = (dp + m) - blk.prefix
      BY <2>1 DEF Reached
    <3>2. blk.prefix \in Nat /\ dp = blk.prefix + a
      BY <1>1, <1>6
    <3> QED
      BY <3>1, <3>2
  <2> QED
    BY <1>1, <2>2, <2>3
<1>11. DecoderTypes'
  <2>1. DOMAIN dst' = DOMAIN dst
    BY <1>8
  <2>2. sp' \in Nat /\ dp' \in Nat /\ off' \in Nat
    BY <1>1, <1>3, <1>8
  <2> QED
    BY <1>8, <1>9, <2>1, <2>2 DEF RInv, DecoderTypes
<1>12. Decoded'
  <2>1. \A k \in 0 .. a + m - 1 : dst'[blk.prefix + k] = At(k)
    <3> SUFFICES ASSUME NEW k \in 0 .. a + m - 1 PROVE dst'[blk.prefix + k] = At(k)
      OBVIOUS
    <3> DEFINE d == blk.prefix + k
    <3>1. d \in DOMAIN dst /\ k \in Nat
      BY <1>1, <1>5
    <3>2. dst'[d] = IF d \in dp .. dp + lit - 1 THEN enc[(sp + d - dp) + 1] ELSE dst[d]
      BY <1>8, <3>1
    <3>3. CASE k < a
      <4>1. ~ (d \in dp .. dp + lit - 1) /\ k \in 0 .. a - 1
        BY <1>1, <1>6, <3>1, <3>3
      <4>2. dst[d] = At(k)
        BY <1>2, <1>4, <4>1 DEF RInv, Decoded
      <4> QED
        BY <3>2, <4>1, <4>2
    <3>4. CASE k >= a
      <4>1. d \in dp .. dp + lit - 1 /\ k - a \in 0 .. m - 1
            /\ (sp + d - dp) + 1 = sp + (k - a) + 1 /\ a + (k - a) = k
        <5>1. lit = m
          BY <1>3
        <5>2. k < a + m /\ dp \in Nat /\ sp \in Nat /\ blk.prefix \in Nat
          BY <1>1
        <5>3. dp = blk.prefix + a /\ d = blk.prefix + k
          BY <1>6
        <5> HIDE DEF d
        <5> QED
          BY <3>1, <3>4, <5>1, <5>2, <5>3
      <4>2. enc[sp + (k - a) + 1] = At(a + (k - a))
        BY <1>5, <4>1
      <4> QED
        BY <3>2, <4>1, <4>2
    <3> QED
      BY <3>1, <3>3, <3>4
  <2> QED
    BY <1>8, <1>9, <1>10, <2>1 DEF Decoded
<1>13. DecoderStands'
  <2> DEFINE q == LiteralsFrom(p, m) + m
  <2>1. q = sp' /\ q \in Nat
    BY <1>3, <1>8, PlacesInOrder
  <2>2. \/ q = Len(enc) /\ a + m = N
        \/ \E o, n \in Nat : /\ Match(enc, p, q, a + m, o, n)
                             /\ Encodes(enc, << MatchTo(q, n), a + m + n >>)
    BY <1>4 DEF Follows
  <2>3. q = sp + lit
    BY <1>8, <2>1
  <2> HIDE DEF q
  <2>4. CASE q = Len(enc) /\ a + m = N
    <3>1. pc' = "done"
      BY <1>1, <1>8, <2>3, <2>4
    <3> QED
      BY <1>9, <1>10, <2>4, <3>1 DEF DecoderStands
  <2>5. CASE \E o, n \in Nat : /\ Match(enc, p, q, a + m, o, n)
                               /\ Encodes(enc, << MatchTo(q, n), a + m + n >>)
    <3>1. PICK o \in Nat, n \in Nat : /\ Match(enc, p, q, a + m, o, n)
                                      /\ Encodes(enc, << MatchTo(q, n), a + m + n >>)
      BY <2>5
    <3>2. q + 2 <= Len(enc)
      <4>1. MatchTo(q, n) <= Len(enc) /\ n >= MinMatch
        BY <3>1 DEF Match
      <4>2. n - MinMatch \in Nat
        BY <4>1, Numbers
      <4>3. ExtensionSize(n - MinMatch) \in Nat
        BY <4>2, ExtensionSizeIsNat
      <4> QED
        BY <1>1, <2>1, <4>1, <4>3 DEF MatchTo
    <3>3. pc' = "offset"
      BY <1>1, <1>8, <2>1, <2>3, <3>2
    <3>4. PICK b \in Nat : b = a + m
      OBVIOUS
    <3>5. Match(enc, p, q, b, o, n)' /\ Encodes(enc, << MatchTo(q, n), b + n >>)'
      BY <3>1, <3>4, SameGrammar
    <3>6. Reached' = b /\ tok' = enc'[p + 1]
      BY <1>4, <1>8, <1>9, <1>10, <3>4
    <3>7. AtMatch(p, q, b, o, n)'
      BY <3>5, <3>6 DEF AtMatch
    <3> QED
      BY <2>1, <3>3, <3>7 DEF DecoderStands
  <2> QED
    BY <2>2, <2>4, <2>5
<1> QED
  BY <1>11, <1>12, <1>13

LEMMA OffsetStands ==
  ASSUME RInv, decoding, UNCHANGED encVars, Decoder!ReadOffset
  PROVE  DecoderTypes' /\ Decoded' /\ DecoderStands'
<1>1. /\ N \in Nat /\ blk.src = enc /\ Len(enc) \in Nat
      /\ blk.prefix \in Nat /\ sp \in Nat /\ dp \in Nat /\ off \in Nat
  BY DecoderFacts
<1>2. pc = "offset"
  BY DEF Decoder!ReadOffset
<1>3. PICK p \in Nat, q \in Nat, b \in Nat, o \in Nat, n \in Nat :
        AtMatch(p, q, b, o, n) /\ sp = q
  BY <1>2 DEF RInv, DecoderStands
<1>4. /\ Match(enc, p, q, b, o, n) /\ Encodes(enc, << MatchTo(q, n), b + n >>)
      /\ Reached = b /\ tok = enc[p + 1] /\ sp = q
  BY <1>3 DEF AtMatch
<1> DEFINE c == n - MinMatch
<1>5. /\ o \in 1 .. b /\ n >= MinMatch /\ MatchTo(q, n) <= Len(enc)
      /\ MatchNibble(tok) = Capped(c)
      /\ OffsetOf(enc[sp + 1], enc[sp + 2]) = o
  BY <1>4 DEF Match
<1>6. c \in Nat /\ ExtensionSize(c) \in Nat
  <2>1. c \in Nat
    BY <1>5, Numbers
  <2> HIDE DEF c
  <2> QED
    BY <2>1, ExtensionSizeIsNat
<1>7. sp + 2 <= Len(enc) /\ MatchTo(q, n) = sp + 2 + ExtensionSize(c)
  <2>1. MatchTo(q, n) = sp + 2 + ExtensionSize(c)
    BY <1>4 DEF MatchTo
  <2>2. MatchTo(q, n) <= Len(enc)
    BY <1>5
  <2> HIDE DEF c
  <2> QED
    BY <1>1, <1>6, <2>1, <2>2
<1>8. o # 0 /\ ~ (o > dp)
  <2>1. o \in 1 .. b /\ dp - blk.prefix = b
    BY <1>4, <1>5 DEF Reached
  <2> QED
    BY <1>1, <2>1
<1>9. enc[(sp + 1) + 1] = enc[sp + 2]
  <2>1. (sp + 1) + 1 = sp + 2
    BY <1>1
  <2> QED
    BY <2>1
<1> HIDE DEF c
<1>10. /\ off' = o /\ sp' = sp + 2 /\ mat' = MatchNibble(tok)
       /\ pc' = IF mat' = RunMask THEN "matchExt" ELSE "copy"
       /\ UNCHANGED << blk, dst, dp, lit, tok >>
  <2>1. Decoder!OffsetOf(enc[sp + 1], enc[(sp + 1) + 1]) = o
    BY <1>5, <1>9 DEF Decoder!OffsetOf, OffsetOf, Decoder!Byte, Byte
  <2>2. ~ (sp + 2 > Len(enc))
    BY <1>1, <1>7
  <2> QED
    BY <1>1, <1>8, <2>1, <2>2 DEF Decoder!ReadOffset, Decoder!SrcLen, Decoder!SrcAt,
       Decoder!MatchNibble, MatchNibble, Decoder!RunMask, RunMask
<1>11. mat' = Capped(c)
  BY <1>5, <1>10
<1>12. DecoderTypes' /\ Decoded' /\ Reached' = Reached
  BY <1>1, <1>2, <1>3, <1>10, NothingDecoded
<1>13. AtMatch(p, q, b, o, n)'
  <2>1. Reached' = b /\ tok' = enc'[p + 1]
    BY <1>4, <1>10, <1>12, SameGrammar
  <2>2. Match(enc, p, q, b, o, n)' /\ Encodes(enc, << MatchTo(q, n), b + n >>)'
    BY <1>4, SameGrammar
  <2> QED
    BY <2>1, <2>2 DEF AtMatch
<1>14. CASE c >= RunMask
  <2>1. mat' = RunMask /\ pc' = "matchExt"
    BY <1>10, <1>11, <1>14 DEF Capped
  <2>2. 0 < ExtensionSize(c) /\ 0 \in Nat /\ ByteMax * 0 = 0 /\ RunMask + 0 = RunMask
    BY <1>6, <1>14, ExtensionSizeIsNat, Numbers
  <2>3. sp' = (q + 2) + 0
    BY <1>1, <1>4, <1>10
  <2>4. Reading(q + 2, c, 0, mat)'
    BY <1>14, <2>1, <2>2, <2>3 DEF Reading
  <2>5. Reading(q + 2, n - MinMatch, 0, mat)'
    BY <2>4 DEF c
  <2>6. off' = o
    BY <1>10
  <2>7. DecoderStands'
    BY <1>13, <2>1, <2>2, <2>5, <2>6 DEF DecoderStands
  <2> QED
    BY <1>12, <2>7
<1>15. CASE c < RunMask
  <2>1. ~ (c >= RunMask) /\ c # RunMask
    BY <1>6, <1>15, Numbers
  <2>2. mat' = c /\ pc' = "copy"
    BY <1>10, <1>11, <2>1 DEF Capped
  <2>3. sp' = MatchTo(q, n)
    <3>1. ExtensionSize(c) = 0
      BY <1>15 DEF ExtensionSize
    <3> QED
      BY <1>1, <1>7, <1>10, <3>1
  <2>4. off' = o /\ mat' = n - MinMatch
    BY <1>10, <2>2 DEF c
  <2>5. DecoderStands'
    BY <1>13, <2>2, <2>3, <2>4 DEF DecoderStands
  <2> QED
    BY <1>12, <2>5
<1> QED
  BY <1>6, <1>14, <1>15, Numbers

LEMMA MatchExtensionStands ==
  ASSUME RInv, decoding, UNCHANGED encVars, Decoder!ReadMatchExtension
  PROVE  DecoderTypes' /\ Decoded' /\ DecoderStands'
<1>1. /\ N \in Nat /\ N <= MaxInput /\ MaxInput \in Nat
      /\ blk.src = enc /\ Len(enc) \in Nat /\ sp \in Nat /\ off \in Nat
  BY DecoderFacts
<1>2. pc = "matchExt"
  BY DEF Decoder!ReadMatchExtension
<1>3. PICK p \in Nat, q \in Nat, b \in Nat, o \in Nat, n \in Nat, r \in Nat :
        /\ AtMatch(p, q, b, o, n) /\ off = o
        /\ Reading(q + 2, n - MinMatch, r, mat)
  BY <1>2 DEF RInv, DecoderStands
<1> DEFINE c == n - MinMatch
           s == q + 2
<1>4. /\ Match(enc, p, q, b, o, n) /\ Encodes(enc, << MatchTo(q, n), b + n >>)
      /\ Reached = b /\ tok = enc[p + 1] /\ off = o
      /\ c >= RunMask /\ r < ExtensionSize(c)
      /\ sp = s + r /\ mat = RunMask + ByteMax * r
  BY <1>3 DEF AtMatch, Reading
<1>5. /\ ExtensionAt(enc, s, c) /\ b + n <= N /\ n >= MinMatch
      /\ s + ExtensionSize(c) <= Len(enc) /\ s \in Nat
  BY <1>4 DEF Match, MatchTo
<1>6. c \in Nat /\ c <= MaxInput
  BY <1>1, <1>5, Numbers
<1>7. MatchTo(q, n) = s + ExtensionSize(c) /\ c = n - MinMatch
  BY DEF MatchTo
<1> HIDE DEF c, s
<1>8. ExtensionSize(c) \in Nat
  BY <1>6, ExtensionSizeIsNat
<1>9. sp < Len(enc)
  BY <1>1, <1>4, <1>5, <1>8
<1> DEFINE v == enc[s + r + 1]
<1>10. v = enc[sp + 1]
  BY <1>4
<1> HIDE DEF v
<1>11. /\ RunMask + ByteMax * r + v \in Nat /\ RunMask + ByteMax * r + v <= c
       /\ v = ByteMax => /\ r + 1 < ExtensionSize(c)
                         /\ RunMask + ByteMax * r + v = RunMask + ByteMax * (r + 1)
       /\ v # ByteMax => /\ r + 1 = ExtensionSize(c)
                         /\ RunMask + ByteMax * r + v = c
  <2>1. s \in Nat /\ c >= RunMask /\ r < ExtensionSize(c) /\ ExtensionAt(enc, s, c)
    BY <1>4, <1>5
  <2>2. v = enc[s + r + 1]
    BY DEF v
  <2> QED
    BY <1>6, <2>1, <2>2, NextLengthByte
<1>12. mat + v \in Nat /\ mat + v <= MaxInput
  <2>1. mat = RunMask + ByteMax * r
    BY <1>4
  <2> QED
    BY <1>1, <1>6, <1>11, <2>1
<1>13. Decoder!Wrap(mat + v) = mat + v
  BY <1>12, SumsFit
<1>14. /\ mat' = mat + v /\ sp' = sp + 1
       /\ pc' = IF v = ByteMax THEN "matchExt" ELSE "copy"
       /\ UNCHANGED << blk, dst, dp, lit, off, tok >>
  BY <1>1, <1>9, <1>10, <1>13 DEF Decoder!ReadMatchExtension, Decoder!SrcLen,
     Decoder!SrcAt, Decoder!ByteMax, ByteMax, Decoder!Byte, Byte
<1>15. DecoderTypes' /\ Decoded' /\ Reached' = Reached
  BY <1>1, <1>2, <1>14, NothingDecoded
<1>16. AtMatch(p, q, b, o, n)' /\ off' = o
  <2>1. Reached' = b /\ tok' = enc'[p + 1]
    BY <1>4, <1>14, <1>15, SameGrammar
  <2>2. Match(enc, p, q, b, o, n)' /\ Encodes(enc, << MatchTo(q, n), b + n >>)'
    BY <1>4, SameGrammar
  <2> QED
    BY <1>4, <1>14, <2>1, <2>2 DEF AtMatch
<1>17. CASE v = ByteMax
  <2>1. r + 1 < ExtensionSize(c) /\ pc' = "matchExt" /\ r + 1 \in Nat
    BY <1>11, <1>14, <1>17
  <2>2. mat' = RunMask + ByteMax * (r + 1)
    BY <1>4, <1>11, <1>14, <1>17
  <2>3. sp' = s + (r + 1)
    BY <1>4, <1>5, <1>14
  <2>4. c >= RunMask
    BY <1>4
  <2>5. Reading(s, c, r + 1, mat)'
    BY <2>1, <2>2, <2>3, <2>4 DEF Reading
  <2>6. Reading(q + 2, n - MinMatch, r + 1, mat)'
    BY <2>5 DEF s, c
  <2> QED
    BY <1>15, <1>16, <2>1, <2>6 DEF DecoderStands
<1>18. CASE v # ByteMax
  <2>1. r + 1 = ExtensionSize(c) /\ pc' = "copy"
    BY <1>11, <1>14, <1>18
  <2>2. mat' = n - MinMatch
    BY <1>4, <1>7, <1>11, <1>14, <1>18
  <2>3. sp' = MatchTo(q, n)
    BY <1>4, <1>5, <1>7, <1>14, <2>1
  <2> QED
    BY <1>15, <1>16, <2>1, <2>2, <2>3 DEF DecoderStands
<1> QED
  BY <1>17, <1>18

LEMMA MatchStands ==
  ASSUME RInv, decoding, UNCHANGED encVars, Decoder!CopyMatch
  PROVE  DecoderTypes' /\ Decoded' /\ DecoderStands'
<1>1. /\ N \in Nat /\ N <= MaxInput /\ MaxInput \in Nat
      /\ blk.prefix \in Nat /\ blk.cap = blk.prefix + N
      /\ DOMAIN dst = 0 .. blk.cap - 1
      /\ sp \in Nat /\ dp \in Nat /\ off \in Nat
  BY DecoderFacts
<1>2. pc = "copy"
  BY DEF Decoder!CopyMatch
<1>3. PICK p \in Nat, q \in Nat, b \in Nat, o \in Nat, n \in Nat :
        /\ AtMatch(p, q, b, o, n) /\ off = o
        /\ sp = MatchTo(q, n) /\ mat = n - MinMatch
  BY <1>2 DEF RInv, DecoderStands
<1>4. /\ Match(enc, p, q, b, o, n) /\ Encodes(enc, << MatchTo(q, n), b + n >>)
      /\ Reached = b
  BY <1>3 DEF AtMatch
<1>5. o \in 1 .. b /\ n >= MinMatch /\ b + n <= N
  BY <1>4 DEF Match
<1>6. \A k \in 0 .. n - 1 : At(b - o + (k % o)) = At(b + k)
  <2>1. \A k \in 0 .. n - 1 : At(b - o + k) = At(b + k)
    BY <1>4 DEF Match
  <2> QED
    BY <1>5, <2>1, RepeatedText
<1>7. dp = blk.prefix + b
  BY <1>1, <1>4 DEF Reached
<1>8. mat + MinMatch = n /\ n <= MaxInput /\ dp + n <= blk.cap
  <2>1. mat = n - MinMatch
    BY <1>3
  <2> QED
    BY <1>1, <1>5, <1>7, <2>1, Numbers
<1>9. Decoder!Wrap(mat + MinMatch) = n
  <2>1. Decoder!Wrap(n) = n
    BY <1>8, SumsFit
  <2> QED
    BY <1>8, <2>1
<1>10. ~ (Decoder!Wrap(dp + n) > blk.cap) /\ ~ (dp + n > blk.cap)
  <2>1. dp + n \in Nat /\ blk.cap \in Nat
    BY <1>1
  <2> DEFINE w == Decoder!Wrap(dp + n)
  <2>2. w <= dp + n
    BY <2>1, SumsFit
  <2>3. w \in Int
    <3>1. Usize \in Nat /\ Usize >= 1
      BY <1>1, RoundAssumption
    <3> QED
      BY <2>1, <3>1 DEF Decoder!Wrap
  <2> HIDE DEF w
  <2>4. ~ (w > blk.cap) /\ ~ (dp + n > blk.cap)
    BY <1>8, <2>1, <2>2, <2>3
  <2> QED
    BY <2>4 DEF w
<1>11. /\ dst' = [k \in DOMAIN dst |->
                    IF k \in dp .. dp + n - 1
                    THEN dst[dp - off + ((k - dp) % off)] ELSE dst[k]]
       /\ dp' = dp + n /\ pc' = "token"
       /\ UNCHANGED << blk, sp, lit, mat, off, tok >>
  BY <1>9, <1>10 DEF Decoder!CopyMatch
<1>12. N' = N /\ enc' = enc /\ \A k : At(k)' = At(k)
  BY SameGrammar
<1>13. Reached' = b + n /\ b + n \in 0 .. N
  <2>1. dp' = dp + n /\ blk' = blk
    BY <1>11
  <2>2. Reached' = b + n
    BY <1>1, <1>7, <2>1 DEF Reached
  <2> QED
    BY <1>1, <1>5, <2>2
<1>14. DecoderTypes'
  <2>1. DOMAIN dst' = DOMAIN dst
    BY <1>11
  <2>2. sp' \in Nat /\ dp' \in Nat /\ off' \in Nat
    BY <1>1, <1>11
  <2> QED
    BY <1>11, <1>12, <2>1, <2>2 DEF RInv, DecoderTypes
<1>15. Decoded'
  <2>1. \A k \in 0 .. b - 1 : dst[blk.prefix + k] = At(k)
    BY <1>2, <1>4 DEF RInv, Decoded
  <2>2. \A k \in 0 .. b + n - 1 : dst'[blk.prefix + k] = At(k)
    <3> SUFFICES ASSUME NEW k \in 0 .. b + n - 1 PROVE dst'[blk.prefix + k] = At(k)
      OBVIOUS
    <3> DEFINE d == blk.prefix + k
    <3>1. d \in DOMAIN dst /\ k \in Nat
      BY <1>1, <1>5
    <3>2. dst'[d] = IF d \in dp .. dp + n - 1
                    THEN dst[dp - off + ((d - dp) % off)] ELSE dst[d]
      BY <1>11, <3>1
    <3>3. CASE k < b
      <4>1. ~ (d \in dp .. dp + n - 1) /\ k \in 0 .. b - 1
        BY <1>1, <1>7, <3>1, <3>3
      <4>2. dst[d] = At(k)
        BY <2>1, <4>1
      <4> QED
        BY <3>2, <4>1, <4>2
    <3>4. CASE k >= b
      <4> DEFINE j == k - b
                 g == b - o + (j % o)
      <4>1. j \in 0 .. n - 1 /\ j \in Nat /\ b + j = k /\ d - dp = j
            /\ d \in dp .. dp + n - 1
        <5>1. k < b + n /\ dp \in Nat /\ blk.prefix \in Nat
          BY <1>1
        <5>2. dp = blk.prefix + b /\ d = blk.prefix + k
          BY <1>7
        <5> HIDE DEF d
        <5> QED
          BY <3>1, <3>4, <5>1, <5>2
      <4>2. j % o \in 0 .. o - 1
        <5> HIDE DEF j
        <5> QED
          BY <1>5, <4>1
      <4>3. g \in 0 .. b - 1 /\ blk.prefix + g = dp - o + (j % o)
        <5> DEFINE e == j % o
        <5>1. e \in 0 .. o - 1
          BY <4>2
        <5>2. o \in 1 .. b /\ dp = blk.prefix + b /\ blk.prefix \in Nat
          BY <1>1, <1>5, <1>7
        <5>3. g = b - o + e /\ dp - o + (j % o) = dp - o + e
          OBVIOUS
        <5> HIDE DEF e, j, g
        <5> QED
          BY <5>1, <5>2, <5>3
      <4>4. At(g) = At(b + j)
        <5> HIDE DEF j
        <5> QED
          BY <1>6, <4>1
      <4>5. dst[blk.prefix + g] = At(g)
        <5> HIDE DEF g
        <5> QED
          BY <2>1, <4>3
      <4>6. off = o
        BY <1>3
      <4> HIDE DEF g, j, d
      <4>7. dst'[d] = dst[dp - o + (j % o)]
        BY <3>2, <4>1, <4>6
      <4> QED
        BY <4>1, <4>3, <4>4, <4>5, <4>7 DEF d
    <3> QED
      BY <3>1, <3>3, <3>4
  <2> QED
    BY <1>11, <1>12, <1>13, <2>2 DEF Decoded
<1>16. DecoderStands'
  <2> DEFINE x == << MatchTo(q, n), b + n >>
  <2>1. sp' = MatchTo(q, n) /\ sp' \in Nat
    BY <1>1, <1>3, <1>11
  <2>2. x \in Places /\ x = << sp', Reached' >>
    BY <1>13, <2>1 DEF Places
  <2>3. Encodes(enc, x)'
    BY <1>4, SameGrammar
  <2> HIDE DEF x
  <2> QED
    BY <1>11, <2>2, <2>3 DEF DecoderStands
<1> QED
  BY <1>14, <1>15, <1>16

-----------------------------------------------------------------------------
LEMMA RoundStarts == RoundInit => RInv
<1> SUFFICES ASSUME RoundInit PROVE RInv
  OBVIOUS
<1>1. IInv /\ ChainIsWritten
  BY InitEstablishes, ChainStarts DEF RoundInit
<1>2. decoding = FALSE /\ sp = 0 /\ dp = 0 /\ off = 0 /\ pc = "enter"
  BY DEF RoundInit, Decoder!StartOn
<1> QED
  BY <1>1, <1>2 DEF RInv

LEMMA EncodeKeeps ==
  ASSUME RInv, Encode
  PROVE  RInv'
<1>1. ~ decoding /\ EncNext /\ UNCHANGED << decVars, decoding >>
  BY DEF Encode
<1>2. IInv' /\ ChainIsWritten'
  BY <1>1, NextKeeps, ChainKeeps DEF RInv
<1>3. ~ decoding' /\ sp' = 0 /\ dp' = 0 /\ off' = 0 /\ pc' = "enter"
      /\ decoding' \in BOOLEAN
  BY <1>1 DEF RInv, decVars
<1> QED
  BY <1>2, <1>3 DEF RInv

LEMMA HandOverKeeps ==
  ASSUME RInv, HandOver
  PROVE  RInv'
<1>1. /\ ~ decoding /\ epc = "ok" /\ decoding' = TRUE
      /\ UNCHANGED encVars /\ UNCHANGED << sp, dp, off, pc >>
  BY DEF HandOver
<1>2. PICK w \in 0 .. Windows :
        LET call == [src |-> enc, cap |-> w + N, prefix |-> w] IN
        /\ blk' = call
        /\ dst' = [k \in 0 .. call.cap - 1 |->
                     IF k < w THEN Decoder!WindowByte(k) ELSE Unset]
  BY DEF HandOver
<1>3. /\ blk' = [src |-> enc, cap |-> w + N, prefix |-> w]
      /\ DOMAIN dst' = 0 .. blk'.cap - 1
  BY <1>2
<1>4. w \in Nat /\ w <= Windows
  BY RoundAssumption
<1>5. N \in Nat
  BY InputFacts DEF RInv, IInv, TypeOK
<1>6. sp = 0 /\ dp = 0 /\ off = 0 /\ pc = "enter" /\ Encodes(enc, << 0, 0 >>)
  BY <1>1 DEF RInv, ChainIsWritten
<1>7. /\ enc' = enc /\ N' = N /\ Encodes(enc, << 0, 0 >>)'
  BY <1>1, <1>6, SameGrammar
<1>8. IInv' /\ ChainIsWritten'
  BY <1>1, NextKeeps, ChainKeeps DEF RInv
<1>9. DecoderTypes'
  <2>1. blk' \in [src : {enc}, cap : Nat, prefix : Nat] /\ blk'.cap = blk'.prefix + N
        /\ blk'.prefix <= Windows
    BY <1>3, <1>4, <1>5
  <2>2. sp' \in Nat /\ dp' \in Nat /\ off' \in Nat
    BY <1>1, <1>6
  <2> QED
    BY <1>3, <1>7, <2>1, <2>2 DEF DecoderTypes
<1>10. pc' = "enter" /\ sp' = 0 /\ epc' = "ok"
  BY <1>1, <1>6 DEF encVars
<1>11. Decoded' /\ DecoderStands'
  BY <1>7, <1>10 DEF Decoded, DecoderStands
<1> QED
  BY <1>1, <1>8, <1>9, <1>10, <1>11 DEF RInv

LEMMA DecodeKeeps ==
  ASSUME RInv, Decode
  PROVE  RInv'
<1>1. decoding /\ decoding' = decoding /\ UNCHANGED encVars /\ Decoder!Next
  BY DEF Decode
<1>2. DecoderTypes' /\ Decoded' /\ DecoderStands'
  BY <1>1, EnterStands, EndStands, TokenStands, LiteralExtensionStands, LiteralsStand,
     OffsetStands, MatchExtensionStands, MatchStands DEF Decoder!Next
<1>3. IInv' /\ ChainIsWritten'
  BY <1>1, NextKeeps, ChainKeeps DEF RInv
<1>4. epc' = epc
  BY <1>1 DEF encVars
<1> QED
  BY <1>1, <1>2, <1>3, <1>4 DEF RInv

LEMMA RoundStutters ==
  ASSUME RInv, UNCHANGED roundVars
  PROVE  RInv'
<1>1. UNCHANGED encVars /\ UNCHANGED decVars /\ decoding' = decoding
  BY DEF roundVars
<1>2. UNCHANGED << blk, dst, sp, dp, lit, mat, off, tok, pc >> /\ epc' = epc
  BY <1>1 DEF decVars, encVars
<1>3. IInv' /\ ChainIsWritten'
  BY <1>1, NextKeeps, ChainKeeps DEF RInv
<1>4. ASSUME decoding PROVE DecoderTypes' /\ Decoded' /\ DecoderStands'
  <2>1. /\ N' = N /\ Len(enc)' = Len(enc) /\ enc' = enc
        /\ \A k : At(k)' = At(k)
        /\ \A p, a, m : Literals(enc, p, a, m)' <=> Literals(enc, p, a, m)
        /\ \A p, q, b, o, n : Match(enc, p, q, b, o, n)' <=> Match(enc, p, q, b, o, n)
        /\ \A x : Encodes(enc, x)' <=> Encodes(enc, x)
        /\ \A p, q, b : Follows(p, q, b)' <=> Follows(p, q, b)
    BY <1>1, SameGrammar
  <2>2. DecoderTypes /\ Decoded /\ DecoderStands
    BY <1>4 DEF RInv
  <2>3. Reached' = Reached
    BY <1>2 DEF Reached
  <2>4. DecoderTypes' /\ Decoded'
    BY <1>2, <2>1, <2>2, <2>3 DEF DecoderTypes, Decoded
  <2>5. \A p, a, m : AtLiterals(p, a, m)' <=> AtLiterals(p, a, m)
    BY <1>2, <2>1, <2>3 DEF AtLiterals
  <2>6. \A p, q, b, o, n : AtMatch(p, q, b, o, n)' <=> AtMatch(p, q, b, o, n)
    BY <1>2, <2>1, <2>3 DEF AtMatch
  <2>7. DecoderStands'
    BY <1>2, <2>1, <2>2, <2>3, <2>5, <2>6 DEF DecoderStands, Reading
  <2> QED
    BY <2>4, <2>7
<1> QED
  BY <1>1, <1>2, <1>3, <1>4 DEF RInv

LEMMA RoundInvariance == RoundSpec => []RInv
<1>1. RoundInit => RInv
  BY RoundStarts
<1>2. RInv /\ [RoundNext]_roundVars => RInv'
  BY EncodeKeeps, HandOverKeeps, DecodeKeeps, RoundStutters DEF RoundNext
<1> QED
  BY <1>1, <1>2, PTL DEF RoundSpec

-----------------------------------------------------------------------------
(***************************************************************************)
(* imageforge_lz4_decompress_block undoes imageforge_lz4_compress_block:   *)
(* it accepts every block the encoder returns into a buffer of exactly the *)
(* size of the input, behind any window, and what it leaves there is the   *)
(* input, byte for byte; no length of such a block wraps.                  *)
(***************************************************************************)
THEOREM DecoderUndoesEncoder == RoundSpec => []RoundTrip
<1>1. RInv => RoundTrip
  <2> SUFFICES ASSUME RInv, decoding
               PROVE  /\ pc \notin {"none", "trap"}
                      /\ pc = "done" => /\ dp = blk.cap
                                        /\ \A k \in 0 .. N - 1 : dst[blk.prefix + k] = At(k)
    BY DEF RoundTrip
  <2>1. pc \notin {"none", "trap"}
    BY DEF RInv, DecoderStands
  <2>2. ASSUME pc = "done"
        PROVE  dp = blk.cap /\ \A k \in 0 .. N - 1 : dst[blk.prefix + k] = At(k)
    <3>1. Reached = N
      BY <2>2 DEF RInv, DecoderStands
    <3>2. dp = blk.cap
      <4>1. N \in Nat /\ blk.prefix \in Nat /\ blk.cap = blk.prefix + N /\ dp \in Nat
        BY DecoderFacts
      <4> QED
        BY <3>1, <4>1 DEF Reached
    <3>3. \A k \in 0 .. N - 1 : dst[blk.prefix + k] = At(k)
      BY <2>2, <3>1 DEF RInv, Decoded
    <3> QED
      BY <3>2, <3>3
  <2> QED
    BY <2>1, <2>2
<1> QED
  BY <1>1, RoundInvariance, PTL

=============================================================================
