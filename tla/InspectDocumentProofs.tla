------------------------ MODULE InspectDocumentProofs ------------------------
(***************************************************************************)
(* InspectTypeOK, ReadsAreBounded, ListedAsWritten, IntactIsListed,        *)
(* PrefixIsEnough, LabelFitsDetails and IntactIsShown of the inspection of *)
(* a document, for every set of archives and documents, cut at any moment. *)
(*                                                                         *)
(* The listing pays for its reads: behind the at most three reads that     *)
(* find the directory, one is made for each header walked over, and the    *)
(* cursor has moved 46 bytes for each of them.                             *)
(*                                                                         *)
(* The entries it has made are as many as the headers it walked over, each *)
(* adjoining the last and each leading to a local header; in the end they  *)
(* are as many as the directory claims, so the archive can be followed and *)
(* is damaged in no way but three.  Of an archive that is intact, or whose *)
(* numbers lead to its directory, the headers walked over are those in     *)
(* front of the cursor, so the entries are the first of those that were    *)
(* written, and no check on the way fails but for a cut.                   *)
(*                                                                         *)
(* The report is a function of the document and of how much of it was      *)
(* read, and what was read is either as much as is ever read or as much as *)
(* was left.  That begins with the first record of an archive, if it does. *)
(***************************************************************************)
EXTENDS InspectDocument, SequenceTheorems, FiniteSetTheorems, WellFoundedInduction, TLAPS

(* What is known of the document: its records are records, its words words. *)
ArchiveRead ==
  /\ archive.length \in Nat /\ DOMAIN archive.at \subseteq Nat
  /\ \A o \in DOMAIN archive.at : archive.at[o] \in ArchiveRecords

DocumentRead ==
  /\ document.length = archive.length
  /\ \/ document.words \in HeaderWords
     \/ /\ document.magics[0] \notin {"ANDROID!", "VNDRBOOT"}
        /\ document.words \in [length : Nat, magic : Nat]

(* Nothing was listed before the directory is read. *)
NothingListedYet ==
  pc \in {"call", "tail", "end64", "central"} => entries = << >> /\ cursor = 0 /\ central = 0

ReadsCounted ==
  /\ pc \in {"call", "tail"} => reads = 0
  /\ pc = "end64" => reads <= 1
  /\ pc = "central" => reads <= 2
  /\ pc = "entries" =>
       /\ reads <= 3 + Len(entries)
       /\ CentralSize * Len(entries) <= cursor

(* Detection!TypeOK, with the range of the prefix in two bounds. *)
ReportTyped ==
  /\ fileLen \in 0 .. document.length
  /\ prefix \in Nat /\ prefix <= Detection!Prefix
  /\ report.code \in 0 .. 13 /\ report.detail.kind \in {"boot", "vendor", "unavailable"}
  /\ stage \in {"read", "inspect", "show", "shown", "failed"}

(* What was read of the document, and what was made of it. *)
PrefixRead ==
  stage \in {"inspect", "show", "shown"} =>
    /\ prefix <= document.length
    /\ prefix < Detection!Prefix => fileLen <= prefix

Reported ==
  stage \in {"show", "shown"} =>
    report = [ code |-> Detection!DetectCode(document, prefix),
               detail |-> Detection!HeaderDetails(document, prefix) ]

Labelled == stage = "shown" => label = Detection!LabelOf(report.code)

ListInv == ArchiveRead /\ TypeOK /\ NothingListedYet /\ ReadsCounted /\ ReadsAreBounded
ReportInv == DocumentRead /\ ReportTyped /\ PrefixRead /\ Reported /\ Labelled

-----------------------------------------------------------------------------
(***************************************************************************)
(* Numbers and sets of numbers.                                            *)
(***************************************************************************)
LEMMA LeastIsThere ==
  ASSUME NEW S \in SUBSET Nat, S # {}
  PROVE  \E n \in S : \A m \in S : n <= m
<1>. DEFINE R == { pair \in Nat \X Nat : pair[1] < pair[2] }
<1>1. IsWellFoundedOn(R, Nat)
  BY NatLessThanWellFounded DEF OpToRel
<1>2. ASSUME NEW m \in Nat, NEW n \in Nat, m < n PROVE << m, n >> \in R
  BY <1>2
<1>. HIDE DEF R
<1>3. PICK n \in S : \A m \in S : ~ (<< m, n >> \in R)
  BY <1>1, WFMin
<1>4. ASSUME NEW m \in S PROVE n <= m
  <2>1. m \in Nat /\ n \in Nat
    OBVIOUS
  <2>2. ~ (m < n)
    BY <1>2, <1>3, <2>1
  <2>. QED
    BY <2>1, <2>2
<1>. QED
  BY <1>4

(* What holds at 0, and at every number if at the one before it, holds. *)
LEMMA Throughout ==
  ASSUME NEW n \in Nat, NEW S, 0 \in S, \A k \in 1 .. n : k - 1 \in S => k \in S
  PROVE  \A k \in 0 .. n : k \in S
<1>. DEFINE Bad == (0 .. n) \ S
<1>. SUFFICES ASSUME Bad # {} PROVE FALSE
  OBVIOUS
<1>1. PICK k \in Bad : \A b \in Bad : k <= b
  <2>1. Bad \in SUBSET Nat
    OBVIOUS
  <2>. HIDE DEF Bad
  <2>. QED
    BY <2>1, LeastIsThere
<1>2. k \in 0 .. n /\ k \notin S /\ k # 0
  OBVIOUS
<1>3. k - 1 \in 0 .. n /\ k \in 1 .. n /\ ~ (k <= k - 1)
  BY <1>2
<1>4. k - 1 \in S
  BY <1>1, <1>3
<1>. QED
  BY <1>2, <1>3, <1>4

LEMMA MinIsLeast ==
  ASSUME NEW S \in SUBSET Nat, S # {}
  PROVE  Min(S) \in S /\ \A m \in S : Min(S) <= m
<1>1. \E n \in S : \A m \in S : n <= m
  BY LeastIsThere
<1>. QED
  BY <1>1 DEF Min

LEMMA MaxIsGreatest ==
  ASSUME NEW b \in Nat, NEW S \in SUBSET (0 .. b), S # {}
  PROVE  Max(S) \in S /\ \A m \in S : m <= Max(S)
<1>. DEFINE T == { b - n : n \in S }
<1>1. T \in SUBSET Nat /\ T # {}
  <2>1. ASSUME NEW n \in S PROVE b - n \in Nat
    OBVIOUS
  <2>2. T # {}
    OBVIOUS
  <2>. QED
    BY <2>1, <2>2
<1>2. PICK t \in T : \A u \in T : t <= u
  BY <1>1, LeastIsThere
<1>3. PICK n \in S : t = b - n
  BY <1>2
<1>4. ASSUME NEW m \in S PROVE n >= m
  <2>1. b - m \in T
    OBVIOUS
  <2>2. t <= b - m
    BY <1>2, <2>1
  <2>. QED
    BY <1>3, <2>2
<1>5. \E x \in S : \A y \in S : x >= y
  BY <1>4
<1>6. Max(S) \in S /\ \A m \in S : Max(S) >= m
  BY <1>5 DEF Max
<1>. QED
  BY <1>6

LEMMA MinOfTwo ==
  ASSUME NEW a \in Nat, NEW b \in Nat
  PROVE  Min({a, b}) = IF a <= b THEN a ELSE b
<1>1. Min({a, b}) \in {a, b} /\ \A m \in {a, b} : Min({a, b}) <= m
  <2>1. {a, b} \in SUBSET Nat /\ {a, b} # {}
    OBVIOUS
  <2>. QED
    BY <2>1, MinIsLeast
<1>. QED
  BY <1>1

-----------------------------------------------------------------------------
(***************************************************************************)
(* zip64_values, block by block: as long as all is well the values are     *)
(* numbers.  The walk over the blocks is a function defined by recursion:  *)
(* the one on 0 .. n extends the one on 0 .. n - 1, and is well typed if   *)
(* that one is.                                                            *)
(***************************************************************************)
(* What the walk holds between two blocks. *)
WalkStates == [p : Nat, ok : BOOLEAN, v : [1 .. 3 -> Numbers]]

WellRead(s) ==
  /\ s.p \in Nat /\ s.ok \in BOOLEAN
  /\ s.ok => s \in WalkStates

Walks(h, n, w) ==
  w = [k \in 0 .. n |-> IF k = 0 THEN [p |-> 0, ok |-> TRUE, v |-> h.v]
                        ELSE AfterBlock(w[k - 1], h.extra[k], h.extraLen)]

LEMMA WalkExists ==
  ASSUME NEW h, NEW n \in Nat
  PROVE  \A m \in 0 .. n : \E w : Walks(h, m, w)
<1>. DEFINE S == { m \in 0 .. n : \E w : Walks(h, m, w) }
<1>1. 0 \in S
  <2>. DEFINE w == [k \in 0 .. 0 |-> [p |-> 0, ok |-> TRUE, v |-> h.v]]
  <2>1. Walks(h, 0, w)
    BY DEF Walks
  <2>. QED
    BY <2>1
<1>2. ASSUME NEW m \in 1 .. n, m - 1 \in S PROVE m \in S
  <2>1. PICK u : Walks(h, m - 1, u)
    BY <1>2
  <2>. DEFINE w == [k \in 0 .. m |->
                      IF k = m THEN AfterBlock(u[m - 1], h.extra[m], h.extraLen) ELSE u[k]]
              Step(f, k) == IF k = 0 THEN [p |-> 0, ok |-> TRUE, v |-> h.v]
                            ELSE AfterBlock(f[k - 1], h.extra[k], h.extraLen)
  <2>2. u = [k \in 0 .. m - 1 |-> Step(u, k)]
    BY <2>1 DEF Walks
  <2>3. ASSUME NEW k \in 0 .. m PROVE w[k] = Step(w, k)
    <3>1. CASE k = 0
      <4>1. w[k] = u[0] /\ 0 \in 0 .. m - 1
        BY <3>1
      <4>. QED
        BY <2>2, <3>1, <4>1
    <3>2. CASE k # 0 /\ k # m
      <4>1. w[k] = u[k] /\ w[k - 1] = u[k - 1] /\ k \in 0 .. m - 1
        BY <3>2
      <4>. QED
        BY <2>2, <3>2, <4>1
    <3>3. CASE k # 0 /\ k = m
      <4>1. w[k - 1] = u[m - 1] /\ w[k] = AfterBlock(u[m - 1], h.extra[m], h.extraLen)
        BY <3>3
      <4>. QED
        BY <3>3, <4>1
    <3>. QED
      BY <3>1, <3>2, <3>3
  <2>4. w = [k \in 0 .. m |-> Step(w, k)]
    BY <2>3
  <2>5. Walks(h, m, w)
    BY <2>4 DEF Walks
  <2>. QED
    BY <1>2, <2>5
<1>. HIDE DEF S
<1>3. \A m \in 0 .. n : m \in S
  BY <1>1, <1>2, Throughout
<1>. QED
  BY <1>3 DEF S

LEMMA Zip64ValuesWalks ==
  ASSUME NEW h, Len(h.extra) \in Nat
  PROVE  \E w : Walks(h, Len(h.extra), w) /\ Zip64Values(h) = w[Len(h.extra)]
<1>1. \E w : Walks(h, Len(h.extra), w)
  <2>. DEFINE n == Len(h.extra)
  <2>. HIDE DEF n
  <2>1. n \in Nat /\ n \in 0 .. n
    BY DEF n
  <2>. QED
    BY <2>1, WalkExists DEF n
<1>. QED
  BY <1>1 DEF Walks, Zip64Values

LEMMA WalkSteps ==
  ASSUME NEW h, Len(h.extra) \in Nat
  PROVE  \E w : /\ Zip64Values(h) = w[Len(h.extra)]
                /\ w[0] = [p |-> 0, ok |-> TRUE, v |-> h.v]
                /\ \A k \in 1 .. Len(h.extra) : w[k] = AfterBlock(w[k - 1], h.extra[k], h.extraLen)
<1>. DEFINE n == Len(h.extra)
<1>1. PICK w : Walks(h, n, w) /\ Zip64Values(h) = w[n]
  BY Zip64ValuesWalks
<1>2. w = [k \in 0 .. n |-> IF k = 0 THEN [p |-> 0, ok |-> TRUE, v |-> h.v]
                           ELSE AfterBlock(w[k - 1], h.extra[k], h.extraLen)]
  BY <1>1 DEF Walks
<1>. HIDE DEF n
<1>3. ASSUME NEW k \in 0 .. n
      PROVE  w[k] = IF k = 0 THEN [p |-> 0, ok |-> TRUE, v |-> h.v]
                    ELSE AfterBlock(w[k - 1], h.extra[k], h.extraLen)
  BY <1>2
<1>4. n \in Nat
  BY DEF n
<1>5. 0 \in 0 .. n /\ \A k \in 1 .. n : k \in 0 .. n /\ k # 0
  BY <1>4
<1>6. w[0] = [p |-> 0, ok |-> TRUE, v |-> h.v]
  BY <1>3, <1>5
<1>7. \A k \in 1 .. n : w[k] = AfterBlock(w[k - 1], h.extra[k], h.extraLen)
  BY <1>3, <1>5
<1>. QED
  BY <1>1, <1>6, <1>7 DEF n

LEMMA RankIsPositive ==
  ASSUME NEW v, NEW i \in 1 .. 3, v[i] = Sentinel
  PROVE  Rank(v, i) \in Nat /\ Rank(v, i) >= 1
<1>. DEFINE R == { j \in 1 .. i : v[j] = Sentinel }
<1>1. i \in R /\ R \subseteq 1 .. i
  OBVIOUS
<1>2. IsFiniteSet(1 .. i)
  BY FS_Interval
<1>. HIDE DEF R
<1>3. IsFiniteSet(R)
  BY <1>1, <1>2, FS_Subset
<1>4. Cardinality(R) \in Nat
  BY <1>3, FS_CardinalityType
<1>5. Cardinality(R) # 0
  BY <1>1, <1>3, FS_EmptySet
<1>. QED
  BY <1>4, <1>5 DEF Rank, R

LEMMA ConstantNumbers ==
  /\ Sentinel16 \in Nat /\ Sentinel \in Nat /\ MaxU64 \in Nat /\ MaxUsize \in Nat
  /\ MaxReserve \in Nat /\ Misread \in Nat
  /\ Sentinel \in Numbers /\ Misread \in Numbers
  BY ZipAssumption DEF Numbers

LEMMA FilledIsTyped ==
  ASSUME NEW b \in Blocks, NEW v \in [1 .. 3 -> Numbers], NEW p \in Nat, NEW n \in Nat
  PROVE  Filled(b, v, p, n) \in [1 .. 3 -> Numbers \cup {Unreadable}]
<1>1. b.values \in Seq(Numbers)
  BY DEF Blocks
<1>2. ASSUME NEW k \in Nat, k >= 1 PROVE ValueOf(b, k, p, n) \in Numbers \cup {Unreadable}
  <2>1. CASE k <= Len(b.values)
    <3>1. k \in 1 .. Len(b.values)
      BY <1>1, <1>2, <2>1
    <3>2. b.values[k] \in Numbers
      BY <1>1, <3>1
    <3>. QED
      BY <2>1, <3>2 DEF ValueOf
  <2>2. CASE ~ (k <= Len(b.values))
    <3>1. Misread \in Numbers
      BY ConstantNumbers
    <3>. QED
      BY <2>2, <3>1 DEF ValueOf
  <2>. QED
    BY <2>1, <2>2
<1>3. ASSUME NEW i \in 1 .. 3
      PROVE  (IF v[i] = Sentinel THEN ValueOf(b, Rank(v, i), p, n) ELSE v[i])
               \in Numbers \cup {Unreadable}
  <2>1. CASE v[i] = Sentinel
    BY <1>2, <2>1, RankIsPositive
  <2>2. CASE v[i] # Sentinel
    BY <2>2
  <2>. QED
    BY <2>1, <2>2
<1>. QED
  BY <1>3 DEF Filled

LEMMA AfterBlockWellRead ==
  ASSUME NEW s, WellRead(s), NEW b \in Blocks, NEW n \in Nat
  PROVE  WellRead(AfterBlock(s, b, n))
<1>. DEFINE next == s.p + 4 + b.len
            v == Filled(b, s.v, s.p, n)
<1>1. b.len \in Nat /\ b.zip64 \in BOOLEAN /\ s.p \in Nat /\ s.ok \in BOOLEAN
  BY DEF Blocks, WellRead
<1>2. next \in Nat
  BY <1>1
<1>3. CASE ~ s.ok \/ s.p + 4 > n
  BY <1>3 DEF AfterBlock
<1>4. CASE s.ok /\ ~ (s.p + 4 > n)
  <2>1. s \in [p : Nat, ok : BOOLEAN, v : [1 .. 3 -> Numbers]]
    BY <1>4 DEF WellRead, WalkStates
  <2>2. CASE next > n
    <3>1. AfterBlock(s, b, n) = [s EXCEPT !.ok = FALSE]
      BY <1>4, <2>2 DEF AfterBlock
    <3>2. [s EXCEPT !.ok = FALSE].ok = FALSE /\ [s EXCEPT !.ok = FALSE].p = s.p
      BY <2>1
    <3>. QED
      BY <1>1, <3>1, <3>2 DEF WellRead
  <2>3. CASE ~ (next > n) /\ ~ b.zip64
    <3>1. AfterBlock(s, b, n) = [s EXCEPT !.p = next]
      BY <1>4, <2>3 DEF AfterBlock
    <3>. HIDE DEF next
    <3>2. [s EXCEPT !.p = next] \in [p : Nat, ok : BOOLEAN, v : [1 .. 3 -> Numbers]]
      BY <1>2, <2>1
    <3>. QED
      BY <3>1, <3>2, <1>2 DEF WellRead, WalkStates
  <2>4. CASE ~ (next > n) /\ b.zip64
    <3>. DEFINE ok == \A i \in 1 .. 3 : v[i] # Unreadable
    <3>1. AfterBlock(s, b, n) = [p |-> next, ok |-> ok, v |-> v]
      BY <1>4, <2>4 DEF AfterBlock
    <3>2. v \in [1 .. 3 -> Numbers \cup {Unreadable}]
      BY <2>1, <1>1, FilledIsTyped
    <3>3. ok \in BOOLEAN
      OBVIOUS
    <3>4. ok => v \in [1 .. 3 -> Numbers]
      <4>1. SUFFICES ASSUME ok PROVE v \in [1 .. 3 -> Numbers]
        OBVIOUS
      <4>2. \A i \in 1 .. 3 : v[i] \in Numbers
        BY <3>2, <4>1
      <4>. HIDE DEF v
      <4>. QED
        BY <3>2, <4>2
    <3>. HIDE DEF next, v, ok
    <3>. QED
      BY <1>2, <3>1, <3>3, <3>4 DEF WellRead, WalkStates
  <2>. QED
    BY <1>1, <2>2, <2>3, <2>4
<1>. QED
  BY <1>1, <1>3, <1>4

LEMMA Zip64ValuesTyped ==
  ASSUME NEW h \in ArchiveRecords, h.kind = "central"
  PROVE  /\ Zip64Values(h).ok \in BOOLEAN
         /\ Zip64Values(h).ok => Zip64Values(h).v \in [1 .. 3 -> Numbers]
<1>1. /\ h.v \in [1 .. 3 -> Numbers] /\ h.extra \in Seq(Blocks) /\ h.extraLen \in Nat
  BY DEF ArchiveRecords
<1>. DEFINE n == Len(h.extra)
<1>2. n \in Nat
  BY <1>1
<1>3. PICK w : /\ Zip64Values(h) = w[n]
               /\ w[0] = [p |-> 0, ok |-> TRUE, v |-> h.v]
               /\ \A k \in 1 .. n : w[k] = AfterBlock(w[k - 1], h.extra[k], h.extraLen)
  BY <1>2, WalkSteps
<1>5. WellRead(w[0])
  BY <1>1, <1>3 DEF WellRead, WalkStates
<1>6. ASSUME NEW k \in 1 .. n, WellRead(w[k - 1]) PROVE WellRead(w[k])
  <2>1. h.extra[k] \in Blocks
    BY <1>1
  <2>2. w[k] = AfterBlock(w[k - 1], h.extra[k], h.extraLen)
    BY <1>3
  <2>. QED
    BY <1>1, <1>6, <2>1, <2>2, AfterBlockWellRead
<1>. DEFINE S == { k \in 0 .. n : WellRead(w[k]) }
<1>7. 0 \in S /\ \A k \in 1 .. n : k - 1 \in S => k \in S
  BY <1>2, <1>5, <1>6
<1>8. WellRead(w[n])
  <2>1. \A k \in 0 .. n : k \in S
    <3>. HIDE DEF S, n
    <3>. QED
      BY <1>2, <1>7, Throughout
  <2>. QED
    BY <1>2, <2>1
<1>. QED
  BY <1>3, <1>8 DEF WellRead, WalkStates

(* Where the blocks begin is a function defined by recursion, as the walk over them is. *)
Begins(h, n, at) ==
  at = [k \in 0 .. n |-> IF k = 0 THEN 0 ELSE at[k - 1] + 4 + h.extra[k].len]

LEMMA BeginsExists ==
  ASSUME NEW h, NEW n \in Nat
  PROVE  \A m \in 0 .. n : \E at : Begins(h, m, at)
<1>. DEFINE S == { m \in 0 .. n : \E at : Begins(h, m, at) }
<1>1. 0 \in S
  <2>. DEFINE at == [k \in 0 .. 0 |-> 0]
  <2>1. at = [k \in 0 .. 0 |-> IF k = 0 THEN 0 ELSE at[k - 1] + 4 + h.extra[k].len]
    OBVIOUS
  <2>2. Begins(h, 0, at)
    BY <2>1 DEF Begins
  <2>. QED
    BY <2>2
<1>2. ASSUME NEW m \in 1 .. n, m - 1 \in S PROVE m \in S
  <2>1. PICK u : Begins(h, m - 1, u)
    BY <1>2
  <2>. DEFINE Step(f, k) == IF k = 0 THEN 0 ELSE f[k - 1] + 4 + h.extra[k].len
              at == [k \in 0 .. m |-> IF k = m THEN u[m - 1] + 4 + h.extra[m].len ELSE u[k]]
  <2>2. u = [k \in 0 .. m - 1 |-> Step(u, k)]
    BY <2>1 DEF Begins
  <2>3. ASSUME NEW k \in 0 .. m PROVE at[k] = Step(at, k)
    <3>1. CASE k = 0
      <4>1. at[k] = u[0] /\ 0 \in 0 .. m - 1
        BY <3>1
      <4>. QED
        BY <2>2, <3>1, <4>1
    <3>2. CASE k # 0 /\ k # m
      <4>1. at[k] = u[k] /\ at[k - 1] = u[k - 1] /\ k \in 0 .. m - 1
        BY <3>2
      <4>. QED
        BY <2>2, <3>2, <4>1
    <3>3. CASE k # 0 /\ k = m
      <4>1. at[k - 1] = u[m - 1] /\ at[k] = u[m - 1] + 4 + h.extra[m].len
        BY <3>3
      <4>. QED
        BY <3>3, <4>1
    <3>. QED
      BY <3>1, <3>2, <3>3
  <2>4. at = [k \in 0 .. m |-> Step(at, k)]
    BY <2>3
  <2>5. Begins(h, m, at)
    BY <2>4 DEF Begins
  <2>. QED
    BY <1>2, <2>5
<1>. HIDE DEF S
<1>3. \A m \in 0 .. n : m \in S
  BY <1>1, <1>2, Throughout
<1>. QED
  BY <1>3 DEF S

LEMMA BlocksBegin ==
  ASSUME NEW h, h.extra \in Seq(Blocks)
  PROVE  /\ BlockAt(h)[0] = 0
         /\ \A k \in 1 .. Len(h.extra) :
              BlockAt(h)[k] = BlockAt(h)[k - 1] + 4 + h.extra[k].len
         /\ \A k \in 0 .. Len(h.extra) : BlockAt(h)[k] \in Nat
<1>. DEFINE n == Len(h.extra)
<1>1. n \in Nat
  OBVIOUS
<1>2. \E at : Begins(h, n, at)
  <2>. HIDE DEF n
  <2>1. n \in 0 .. n
    BY <1>1
  <2>. QED
    BY <1>1, <2>1, BeginsExists
<1>3. PICK at : Begins(h, n, at) /\ BlockAt(h) = at
  BY <1>2 DEF Begins, BlockAt
<1>4. at = [k \in 0 .. n |-> IF k = 0 THEN 0 ELSE at[k - 1] + 4 + h.extra[k].len]
  BY <1>3 DEF Begins
<1>5. at[0] = 0
  <2>1. 0 \in 0 .. n
    BY <1>1
  <2>. QED
    BY <1>4, <2>1
<1>6. ASSUME NEW k \in 1 .. n PROVE at[k] = at[k - 1] + 4 + h.extra[k].len
  <2>1. k \in 0 .. n /\ k # 0
    BY <1>1
  <2>. QED
    BY <1>4, <2>1
<1>. DEFINE S == { k \in 0 .. n : at[k] \in Nat }
<1>7. ASSUME NEW k \in 1 .. n, k - 1 \in S PROVE k \in S
  <2>1. h.extra[k].len \in Nat
    <3>1. h.extra[k] \in Blocks
      OBVIOUS
    <3>. QED
      BY <3>1 DEF Blocks
  <2>2. at[k - 1] \in Nat
    BY <1>7
  <2>3. at[k] \in Nat
    BY <1>6, <2>1, <2>2
  <2>. QED
    BY <1>1, <2>3
<1>8. 0 \in S
  BY <1>1, <1>5
<1>. HIDE DEF S, n
<1>9. \A k \in 0 .. n : k \in S
  BY <1>1, <1>7, <1>8, Throughout
<1>. QED
  BY <1>3, <1>5, <1>6, <1>9 DEF S, n


(* A block, of an extra field that holds the values t, behind blocks that do not or do. *)
FilledAfter(h, t, k, s) ==
  /\ s.ok = TRUE /\ s.p = BlockAt(h)[k]
  /\ \A i \in 1 .. 3 :
       s.v[i] = IF \E j \in 1 .. k : h.extra[j].zip64 THEN t[i] ELSE h.v[i]
  /\ s.v \in [1 .. 3 -> Numbers]

Fills(v, t) == v \in [1 .. 3 -> Numbers] /\ \A i \in 1 .. 3 : v[i] = t[i] /\ v[i] # Unreadable

LEMMA FillsFromBlock ==
  ASSUME NEW h \in ArchiveRecords, h.kind = "central", NEW t, Holds(h, t),
         NEW k \in 1 .. Len(h.extra), h.extra[k].zip64, NEW p
  PROVE  Fills(Filled(h.extra[k], h.v, p, h.extraLen), t)
<1>. DEFINE b == h.extra[k]
            v == Filled(b, h.v, p, h.extraLen)
<1>1. h.v \in [1 .. 3 -> Numbers] /\ h.extra \in Seq(Blocks) /\ b.values \in Seq(Numbers)
  <2>1. h.v \in [1 .. 3 -> Numbers] /\ h.extra \in Seq(Blocks)
    BY DEF ArchiveRecords
  <2>2. b \in Blocks
    BY <2>1
  <2>. QED
    BY <2>1, <2>2 DEF Blocks
<1>2. ASSUME NEW i \in 1 .. 3 PROVE v[i] = t[i] /\ v[i] \in Numbers
  <2>1. v[i] = IF h.v[i] = Sentinel THEN ValueOf(b, Rank(h.v, i), p, h.extraLen) ELSE h.v[i]
    BY DEF Filled
  <2>2. CASE h.v[i] # Sentinel
    <3>1. t[i] = h.v[i]
      BY <2>2 DEF Holds
    <3>. QED
      BY <1>1, <2>1, <2>2, <3>1
  <2>3. CASE h.v[i] = Sentinel
    <3>. DEFINE r == Rank(h.v, i)
    <3>1. PICK j \in DOMAIN h.extra : /\ h.extra[j].zip64 /\ r <= Len(h.extra[j].values)
                                      /\ t[i] = h.extra[j].values[r]
      BY <2>3 DEF Holds
    <3>2. k \in DOMAIN h.extra
      BY <1>1
    <3>3. j = k
      BY <3>1, <3>2 DEF Holds
    <3>4. r \in Nat /\ r >= 1
      BY <2>3, RankIsPositive
    <3>. HIDE DEF r, v
    <3>5. r <= Len(b.values) /\ t[i] = b.values[r]
      BY <3>1, <3>3
    <3>6. ValueOf(b, r, p, h.extraLen) = b.values[r]
      BY <3>5 DEF ValueOf
    <3>. HIDE DEF b
    <3>7. b.values[r] \in Numbers
      BY <1>1, <3>4, <3>5
    <3>8. v[i] = ValueOf(b, r, p, h.extraLen)
      BY <2>1, <2>3 DEF r
    <3>. QED
      BY <3>5, <3>6, <3>7, <3>8
  <2>. QED
    BY <2>2, <2>3
<1>3. v = [i \in 1 .. 3 |-> v[i]]
  BY DEF Filled
<1>. HIDE DEF v
<1>4. Unreadable \notin Numbers
  BY ConstantNumbers DEF Unreadable, Numbers
<1>5. v \in [1 .. 3 -> Numbers]
  BY <1>2, <1>3
<1>. QED
  BY <1>2, <1>4, <1>5 DEF v, Fills

LEMMA BlockByBlock ==
  ASSUME NEW h \in ArchiveRecords, h.kind = "central", NEW t, Holds(h, t),
         NEW k \in 1 .. Len(h.extra), NEW s, s \in WalkStates, FilledAfter(h, t, k - 1, s)
  PROVE  /\ AfterBlock(s, h.extra[k], h.extraLen) \in WalkStates
         /\ FilledAfter(h, t, k, AfterBlock(s, h.extra[k], h.extraLen))
<1>. DEFINE b == h.extra[k]
            next == s.p + 4 + b.len
            v == Filled(b, s.v, s.p, h.extraLen)
            after == AfterBlock(s, b, h.extraLen)
<1>1. /\ h.extra \in Seq(Blocks) /\ h.extraLen \in Nat /\ h.v \in [1 .. 3 -> Numbers]
      /\ b.len \in Nat /\ b.zip64 \in BOOLEAN
  <2>1. h.v \in [1 .. 3 -> Numbers] /\ h.extra \in Seq(Blocks) /\ h.extraLen \in Nat
    BY DEF ArchiveRecords
  <2>2. b \in Blocks
    BY <2>1
  <2>. QED
    BY <2>1, <2>2 DEF Blocks
<1>2. /\ s.ok = TRUE /\ s.p = BlockAt(h)[k - 1] /\ s.v \in [1 .. 3 -> Numbers]
      /\ \A i \in 1 .. 3 :
           s.v[i] = IF \E j \in 1 .. (k - 1) : h.extra[j].zip64 THEN t[i] ELSE h.v[i]
  BY DEF FilledAfter
<1>3. next = BlockAt(h)[k] /\ next \in Nat /\ next <= h.extraLen /\ s.p \in Nat
  <2>1. k \in 0 .. Len(h.extra) /\ k - 1 \in 0 .. Len(h.extra)
    BY <1>1
  <2>2. BlockAt(h)[k] = BlockAt(h)[k - 1] + 4 + b.len
        /\ BlockAt(h)[k] \in Nat /\ BlockAt(h)[k - 1] \in Nat
    BY <1>1, <2>1, BlocksBegin
  <2>3. BlockAt(h)[k] <= h.extraLen
    BY <2>1 DEF Holds
  <2>. QED
    BY <1>2, <2>2, <2>3
<1>4. ~ (~ s.ok \/ s.p + 4 > h.extraLen) /\ ~ (next > h.extraLen)
  <2>1. ASSUME NEW p \in Nat, NEW l \in Nat, NEW m \in Nat, p + 4 + l <= m
        PROVE  ~ (p + 4 > m) /\ ~ (p + 4 + l > m)
    BY <2>1
  <2>2. ~ (s.p + 4 > h.extraLen) /\ ~ (next > h.extraLen)
    BY <1>1, <1>3, <2>1
  <2>. QED
    BY <1>2, <2>2
<1>5. \A j \in 1 .. k : j = k \/ j \in 1 .. (k - 1)
  BY <1>1
<1>6. CASE ~ b.zip64
  <2>1. after = [s EXCEPT !.p = next]
    BY <1>4, <1>6 DEF AfterBlock
  <2>2. (\E j \in 1 .. k : h.extra[j].zip64) <=> \E j \in 1 .. (k - 1) : h.extra[j].zip64
    <3>1. 1 .. (k - 1) \subseteq 1 .. k
      BY <1>1
    <3>. QED
      BY <1>5, <1>6, <3>1
  <2>. HIDE DEF next, after, b
  <2>3. after \in WalkStates /\ after.ok = TRUE /\ after.p = next /\ after.v = s.v
    BY <1>2, <1>3, <2>1 DEF WalkStates
  <2>4. FilledAfter(h, t, k, after)
    BY <1>2, <1>3, <2>2, <2>3 DEF FilledAfter
  <2>. QED
    BY <2>3, <2>4 DEF after, b
<1>7. CASE b.zip64
  <2>1. ~ \E j \in 1 .. (k - 1) : h.extra[j].zip64
    <3>1. SUFFICES ASSUME NEW j \in 1 .. (k - 1), h.extra[j].zip64 PROVE FALSE
      OBVIOUS
    <3>2. j \in DOMAIN h.extra /\ k \in DOMAIN h.extra /\ j # k
      BY <1>1
    <3>. QED
      BY <1>7, <3>1, <3>2 DEF Holds
  <2>2. s.v = h.v
    <3>1. \A i \in 1 .. 3 : s.v[i] = h.v[i]
      BY <1>2, <2>1
    <3>. QED
      BY <1>1, <1>2, <3>1
  <2>3. v = Filled(b, h.v, s.p, h.extraLen)
    BY <2>2
  <2>4. v \in [1 .. 3 -> Numbers] /\ \A i \in 1 .. 3 : v[i] = t[i] /\ v[i] # Unreadable
    <3>. DEFINE u == Filled(b, h.v, s.p, h.extraLen)
    <3>1. Fills(u, t)
      BY <1>7, FillsFromBlock
    <3>2. v = u
      BY <2>3
    <3>. HIDE DEF v, u
    <3>. QED
      BY <3>1, <3>2 DEF Fills
  <2>5. after = [p |-> next, ok |-> \A i \in 1 .. 3 : v[i] # Unreadable, v |-> v]
    BY <1>4, <1>7 DEF AfterBlock
  <2>6. \E j \in 1 .. k : h.extra[j].zip64
    <3>1. k \in 1 .. k
      BY <1>1
    <3>. QED
      BY <1>7, <3>1
  <2>. HIDE DEF next, after, b, v
  <2>7. (\A i \in 1 .. 3 : v[i] # Unreadable) = TRUE
    BY <2>4
  <2>8. after = [p |-> next, ok |-> TRUE, v |-> v]
    BY <2>5, <2>7
  <2>9. after \in WalkStates /\ FilledAfter(h, t, k, after)
    BY <1>3, <2>4, <2>6, <2>8 DEF WalkStates, FilledAfter
  <2>. QED
    BY <2>9 DEF after, b
<1>. QED
  BY <1>1, <1>6, <1>7

(* zip64_values of a header that follows the format. *)
LEMMA IntactValues ==
  ASSUME NEW h \in ArchiveRecords, h.kind = "central", NEW t, Holds(h, t)
  PROVE  Zip64Values(h).ok /\ \A i \in 1 .. 3 : Zip64Values(h).v[i] = t[i]
<1>. DEFINE n == Len(h.extra)
<1>1. h.extra \in Seq(Blocks) /\ n \in Nat /\ h.v \in [1 .. 3 -> Numbers]
  BY DEF ArchiveRecords
<1>2. PICK w : /\ Zip64Values(h) = w[n]
               /\ w[0] = [p |-> 0, ok |-> TRUE, v |-> h.v]
               /\ \A k \in 1 .. n : w[k] = AfterBlock(w[k - 1], h.extra[k], h.extraLen)
  BY <1>1, WalkSteps
<1>. DEFINE S == { k \in 0 .. n : w[k] \in WalkStates /\ FilledAfter(h, t, k, w[k]) }
<1>3. 0 \in S
  <2>1. w[0].p = 0 /\ w[0].ok = TRUE /\ w[0].v = h.v /\ w[0] \in WalkStates
    BY <1>1, <1>2 DEF WalkStates
  <2>2. BlockAt(h)[0] = 0
    BY <1>1, BlocksBegin
  <2>3. ~ \E j \in 1 .. 0 : h.extra[j].zip64
    OBVIOUS
  <2>4. FilledAfter(h, t, 0, w[0])
    BY <1>1, <2>1, <2>2, <2>3 DEF FilledAfter
  <2>. QED
    BY <1>1, <2>1, <2>4
<1>4. ASSUME NEW k \in 1 .. n, k - 1 \in S PROVE k \in S
  <2>1. w[k] = AfterBlock(w[k - 1], h.extra[k], h.extraLen)
    BY <1>2
  <2>2. w[k - 1] \in WalkStates /\ FilledAfter(h, t, k - 1, w[k - 1])
    BY <1>4
  <2>3. w[k] \in WalkStates /\ FilledAfter(h, t, k, w[k])
    BY <2>1, <2>2, BlockByBlock
  <2>. QED
    BY <1>1, <2>3
<1>5. \A k \in 0 .. n : k \in S
  <2>. HIDE DEF S, n
  <2>. QED
    BY <1>1, <1>3, <1>4, Throughout
<1>6. FilledAfter(h, t, n, w[n])
  BY <1>1, <1>5
<1>7. ASSUME NEW i \in 1 .. 3 PROVE w[n].v[i] = t[i]
  <2>1. CASE \E j \in 1 .. n : h.extra[j].zip64
    BY <1>6, <2>1 DEF FilledAfter
  <2>2. CASE ~ \E j \in 1 .. n : h.extra[j].zip64
    <3>1. w[n].v[i] = h.v[i]
      BY <1>6, <2>2 DEF FilledAfter
    <3>2. DOMAIN h.extra = 1 .. n
      BY <1>1
    <3>3. h.v[i] # Sentinel
      BY <2>2, <3>2 DEF Holds
    <3>. QED
      BY <3>1, <3>3 DEF Holds
  <2>. QED
    BY <2>1, <2>2
<1>. QED
  BY <1>2, <1>6, <1>7 DEF FilledAfter

(***************************************************************************)
(* zip64_values of any header: if all was well every block that begins in  *)
(* the extra field ended in it, and the offset is one the header has.      *)
(***************************************************************************)
ReadThrough(h, k, s) ==
  s.ok =>
    /\ \A j \in 1 .. k : BlockAt(h)[j - 1] + 4 <= h.extraLen => BlockAt(h)[j] <= h.extraLen
    /\ s.p = BlockAt(h)[k] \/ (s.p + 4 > h.extraLen /\ BlockAt(h)[k] + 4 > h.extraLen)
    /\ s.v[3] \in MayLieAt(h)

LEMMA FilledFromHeader ==
  ASSUME NEW h \in ArchiveRecords, h.kind = "central",
         NEW k \in 1 .. Len(h.extra), NEW v, v[3] \in MayLieAt(h), NEW p
  PROVE  LET u == Filled(h.extra[k], v, p, h.extraLen)
         IN  u[3] # Unreadable => u[3] \in MayLieAt(h)
<1>. DEFINE b == h.extra[k]
            r == Rank(v, 3)
            u == Filled(b, v, p, h.extraLen)
<1>1. u[3] = IF v[3] = Sentinel THEN ValueOf(b, r, p, h.extraLen) ELSE v[3]
  BY DEF Filled
<1>2. CASE v[3] # Sentinel
  BY <1>1, <1>2
<1>3. CASE v[3] = Sentinel
  <2>1. r \in Nat /\ r >= 1
    BY <1>3, RankIsPositive
  <2>2. h.extra \in Seq(Blocks)
    BY DEF ArchiveRecords
  <2>3. k \in DOMAIN h.extra /\ b.values \in Seq(Numbers)
    <3>1. b \in Blocks /\ k \in DOMAIN h.extra
      BY <2>2
    <3>. QED
      BY <3>1 DEF Blocks
  <2>4. CASE r <= Len(b.values)
    <3>1. r \in DOMAIN b.values
      BY <2>1, <2>3, <2>4
    <3>2. b.values[r] \in MayLieAt(h)
      BY <2>3, <3>1 DEF MayLieAt
    <3>. QED
      BY <1>1, <1>3, <2>4, <3>2 DEF ValueOf
  <2>5. CASE ~ (r <= Len(b.values))
    <3>1. u[3] \in {Misread, Unreadable}
      BY <1>1, <1>3, <2>5 DEF ValueOf
    <3>. QED
      BY <3>1 DEF MayLieAt
  <2>. QED
    BY <2>4, <2>5
<1>. QED
  BY <1>2, <1>3

LEMMA BlockReadThrough ==
  ASSUME NEW h \in ArchiveRecords, h.kind = "central",
         NEW k \in 1 .. Len(h.extra), NEW s, WellRead(s), ReadThrough(h, k - 1, s)
  PROVE  ReadThrough(h, k, AfterBlock(s, h.extra[k], h.extraLen))
<1>. DEFINE b == h.extra[k]
            n == h.extraLen
            next == s.p + 4 + b.len
            v == Filled(b, s.v, s.p, n)
            after == AfterBlock(s, b, n)
<1>1. h.extra \in Seq(Blocks) /\ n \in Nat /\ b.len \in Nat /\ b.zip64 \in BOOLEAN
  <2>1. h.extra \in Seq(Blocks) /\ h.extraLen \in Nat
    BY DEF ArchiveRecords
  <2>2. b \in Blocks
    BY <2>1
  <2>. QED
    BY <2>1, <2>2 DEF Blocks
<1>2. /\ BlockAt(h)[k] = BlockAt(h)[k - 1] + 4 + b.len
      /\ BlockAt(h)[k] \in Nat /\ BlockAt(h)[k - 1] \in Nat
  <2>1. k \in 0 .. Len(h.extra) /\ k - 1 \in 0 .. Len(h.extra)
    BY <1>1
  <2>. QED
    BY <1>1, <2>1, BlocksBegin
<1>3. s.p \in Nat /\ s.ok \in BOOLEAN /\ (s.ok => s \in WalkStates)
  BY DEF WellRead
<1>4. SUFFICES ASSUME after.ok PROVE ReadThrough(h, k, after)
  BY DEF ReadThrough
<1>5. s.ok
  <2>1. CASE ~ s.ok
    <3>1. after = s
      BY <2>1 DEF AfterBlock
    <3>. QED
      BY <1>4, <2>1, <3>1
  <2>. QED
    BY <1>3, <2>1
<1>6. /\ \A j \in 1 .. (k - 1) : BlockAt(h)[j - 1] + 4 <= n => BlockAt(h)[j] <= n
      /\ s.p = BlockAt(h)[k - 1] \/ (s.p + 4 > n /\ BlockAt(h)[k - 1] + 4 > n)
      /\ s.v[3] \in MayLieAt(h)
  BY <1>5 DEF ReadThrough
<1>7. \A j \in 1 .. k : j = k \/ j \in 1 .. (k - 1)
  BY <1>1
<1>8. CASE s.p + 4 > n
  <2>1. after = s
    BY <1>8 DEF AfterBlock
  <2>2. BlockAt(h)[k - 1] + 4 > n /\ BlockAt(h)[k] + 4 > n
    <3>1. ASSUME NEW p \in Nat, NEW i \in Nat, NEW l \in Nat, NEW m \in Nat, p + 4 > m,
                 p = i \/ (p + 4 > m /\ i + 4 > m)
          PROVE  i + 4 > m /\ (i + 4 + l) + 4 > m
      BY <3>1
    <3>. HIDE DEF n, b, after, v, next
    <3>2. BlockAt(h)[k - 1] + 4 > n /\ (BlockAt(h)[k - 1] + 4 + b.len) + 4 > n
      BY <1>1, <1>2, <1>3, <1>6, <1>8, <3>1
    <3>. QED
      BY <1>2, <3>2
  <2>3. \A j \in 1 .. k : BlockAt(h)[j - 1] + 4 <= n => BlockAt(h)[j] <= n
    BY <1>1, <1>2, <1>6, <1>7, <2>2
  <2>. QED
    BY <1>6, <1>8, <2>1, <2>2, <2>3 DEF ReadThrough
<1>9. CASE ~ (s.p + 4 > n)
  <2>1. s.p = BlockAt(h)[k - 1] /\ next = BlockAt(h)[k]
    BY <1>2, <1>6, <1>9
  <2>2. ~ (next > n)
    <3>1. SUFFICES ASSUME next > n PROVE FALSE
      OBVIOUS
    <3>2. after = [s EXCEPT !.ok = FALSE]
      BY <1>5, <1>9, <3>1 DEF AfterBlock
    <3>3. [s EXCEPT !.ok = FALSE].ok = FALSE
      BY <1>3, <1>5 DEF WalkStates
    <3>. QED
      BY <1>4, <3>2, <3>3
  <2>3. \A j \in 1 .. k : BlockAt(h)[j - 1] + 4 <= n => BlockAt(h)[j] <= n
    BY <1>1, <1>2, <1>6, <1>7, <2>1, <2>2
  <2>4. after.p = next /\ after.v[3] \in MayLieAt(h)
    <3>1. CASE ~ b.zip64
      <4>1. after = [s EXCEPT !.p = next]
        BY <1>5, <1>9, <2>2, <3>1 DEF AfterBlock
      <4>. HIDE DEF next, after
      <4>2. after.p = next /\ after.v = s.v
        BY <1>3, <1>5, <4>1 DEF WalkStates
      <4>. QED
        BY <1>6, <4>2
    <3>2. CASE b.zip64
      <4>1. after = [p |-> next, ok |-> \A i \in 1 .. 3 : v[i] # Unreadable, v |-> v]
        BY <1>5, <1>9, <2>2, <3>2 DEF AfterBlock
      <4>2. v[3] # Unreadable => v[3] \in MayLieAt(h)
        BY <1>6, FilledFromHeader
      <4>. HIDE DEF next, after, v
      <4>3. after.p = next /\ after.v = v /\ v[3] # Unreadable
        BY <1>4, <4>1
      <4>. QED
        BY <4>2, <4>3
    <3>. QED
      BY <1>1, <3>1, <3>2
  <2>. HIDE DEF next, after
  <2>. QED
    BY <2>1, <2>3, <2>4 DEF ReadThrough
<1>. QED
  BY <1>1, <1>3, <1>8, <1>9

LEMMA ValuesCanBeRead ==
  ASSUME NEW h \in ArchiveRecords, h.kind = "central", Zip64Values(h).ok
  PROVE  /\ \A k \in 1 .. Len(h.extra) :
              BlockAt(h)[k - 1] + 4 <= h.extraLen => BlockAt(h)[k] <= h.extraLen
         /\ Zip64Values(h).v[3] \in MayLieAt(h)
<1>. DEFINE n == Len(h.extra)
<1>1. h.extra \in Seq(Blocks) /\ n \in Nat /\ h.v \in [1 .. 3 -> Numbers] /\ h.extraLen \in Nat
  BY DEF ArchiveRecords
<1>2. PICK w : /\ Zip64Values(h) = w[n]
               /\ w[0] = [p |-> 0, ok |-> TRUE, v |-> h.v]
               /\ \A k \in 1 .. n : w[k] = AfterBlock(w[k - 1], h.extra[k], h.extraLen)
  BY <1>1, WalkSteps
<1>. DEFINE S == { k \in 0 .. n : WellRead(w[k]) /\ ReadThrough(h, k, w[k]) }
<1>3. 0 \in S
  <2>1. w[0].p = 0 /\ w[0].ok = TRUE /\ w[0].v = h.v /\ w[0] \in WalkStates
    BY <1>1, <1>2 DEF WalkStates
  <2>2. BlockAt(h)[0] = 0
    BY <1>1, BlocksBegin
  <2>3. h.v[3] \in MayLieAt(h)
    BY DEF MayLieAt
  <2>4. ReadThrough(h, 0, w[0])
    BY <2>1, <2>2, <2>3 DEF ReadThrough
  <2>5. WellRead(w[0])
    BY <1>1, <1>2 DEF WellRead, WalkStates
  <2>. QED
    BY <1>1, <2>4, <2>5
<1>4. ASSUME NEW k \in 1 .. n, k - 1 \in S PROVE k \in S
  <2>1. w[k] = AfterBlock(w[k - 1], h.extra[k], h.extraLen)
    BY <1>2
  <2>2. WellRead(w[k - 1]) /\ ReadThrough(h, k - 1, w[k - 1])
    BY <1>4
  <2>3. h.extra[k] \in Blocks
    BY <1>1
  <2>4. WellRead(w[k])
    BY <1>1, <2>1, <2>2, <2>3, AfterBlockWellRead
  <2>5. ReadThrough(h, k, w[k])
    BY <2>1, <2>2, BlockReadThrough
  <2>. QED
    BY <1>1, <2>4, <2>5
<1>5. \A k \in 0 .. n : k \in S
  <2>. HIDE DEF S, n
  <2>. QED
    BY <1>1, <1>3, <1>4, Throughout
<1>6. ReadThrough(h, n, w[n])
  BY <1>1, <1>5
<1>. QED
  BY <1>2, <1>6 DEF ReadThrough

-----------------------------------------------------------------------------
(***************************************************************************)
(* The listing, step by step.                                              *)
(***************************************************************************)
LEMMA ReadFacts ==
  ASSUME TypeOK, archive.length \in Nat, NEW o \in Nat, NEW n \in Nat,
         NEW got \in Read(o, n), got # Failed
  PROVE  /\ got \in Nat /\ got <= n
         /\ got > 0 => o + got <= size
<1>1. fileLen \in Nat /\ size \in Nat
  BY DEF TypeOK
<1>. DEFINE len == Min({fileLen, size})
<1>2. len \in Nat /\ len <= size
  BY <1>1, MinOfTwo
<1>3. got = Within(o, n, len)
  BY DEF Read
<1>. HIDE DEF len
<1>4. CASE o >= len
  BY <1>2, <1>3, <1>4 DEF Within
<1>5. CASE ~ (o >= len)
  <2>1. len - o \in Nat
    BY <1>2, <1>5
  <2>2. got = IF n <= len - o THEN n ELSE len - o
    BY <1>3, <1>5, <2>1, MinOfTwo DEF Within
  <2>. QED
    BY <1>1, <1>2, <1>5, <2>1, <2>2
<1>. QED
  BY <1>4, <1>5

LEMMA ListFacts ==
  ASSUME ListInv
  PROVE  /\ archive.length \in Nat /\ fileLen \in 0 .. archive.length
         /\ size \in 0 .. archive.length /\ size \in Nat /\ fileLen \in Nat
         /\ end.count \in Numbers /\ end.size \in Numbers /\ end.offset \in Numbers
         /\ end.size \in Nat /\ end.offset \in Nat /\ end.count \in Nat
         /\ central \in Nat /\ cursor \in Nat /\ cursor <= central /\ reads \in Nat
         /\ Len(entries) \in Nat
  BY ConstantNumbers DEF ListInv, ArchiveRead, TypeOK, Numbers

LEMMA EndRecordTyped ==
  ASSUME ArchiveRead, NEW o, IsA("end", o) \/ IsA("end64", o),
         NEW e \in [count : Numbers, size : Numbers, offset : Numbers]
  PROVE  [n \in DOMAIN e |-> archive.at[o][n]]
           \in [count : Numbers, size : Numbers, offset : Numbers]
<1>. DEFINE r == archive.at[o]
<1>1. r \in ArchiveRecords /\ r.kind \in {"end", "end64"}
  BY DEF IsA, OfKind, ArchiveRead
<1>2. r.count \in Numbers /\ r.size \in Numbers /\ r.offset \in Numbers
  BY <1>1 DEF ArchiveRecords
<1>. HIDE DEF r
<1>3. [n \in DOMAIN e |-> r[n]] = [count |-> r.count, size |-> r.size, offset |-> r.offset]
  OBVIOUS
<1>4. [count |-> r.count, size |-> r.size, offset |-> r.offset]
        \in [count : Numbers, size : Numbers, offset : Numbers]
  BY <1>2
<1>. QED
  BY <1>3, <1>4 DEF r

(* Giving up, or giving the answer. *)
LEMMA GiveKeepsListInv ==
  ASSUME ListInv, UNCHANGED << archive, fileLen, size >>,
         NEW outcome \in Errors \cup {"ok", "trap"}, Give(outcome),
         reads' \in Nat, CentralSize * (reads' - 3) <= central
  PROVE  ListInv'
<1>1. /\ UNCHANGED << archive, fileLen, size, eocd, end, central, cursor, entries >>
      /\ pc' = outcome
  BY DEF Give
<1>2. ArchiveRead' /\ TypeOK'
  BY <1>1 DEF ListInv, ArchiveRead, TypeOK
<1>3. outcome \notin {"call", "tail", "end64", "central", "entries"}
  BY DEF Errors
<1>4. NothingListedYet' /\ ReadsCounted' /\ ReadsAreBounded'
  BY <1>1, <1>3 DEF NothingListedYet, ReadsCounted, ReadsAreBounded
<1>. QED
  BY <1>2, <1>4 DEF ListInv

LEMMA BeginKeepsListInv ==
  ASSUME ListInv, Begin
  PROVE  ListInv'
<1>1. /\ pc = "call" /\ size' = fileLen /\ pc' = "tail"
      /\ UNCHANGED << archive, fileLen, eocd, end, central, cursor, entries, reads >>
  BY DEF Begin
<1>2. ArchiveRead' /\ TypeOK'
  BY <1>1 DEF ListInv, ArchiveRead, TypeOK, Reading
<1>3. NothingListedYet' /\ ReadsCounted' /\ ReadsAreBounded'
  BY <1>1 DEF ListInv, NothingListedYet, ReadsCounted, ReadsAreBounded
<1>. QED
  BY <1>2, <1>3 DEF ListInv

LEMMA ReadTailKeepsListInv ==
  ASSUME ListInv, ReadTail
  PROVE  ListInv'
<1>1. /\ pc = "tail" /\ size >= EndSize /\ reads' = reads + 1
      /\ UNCHANGED << archive, fileLen, size >>
  BY DEF ReadTail
<1>2. /\ reads = 0 /\ reads' = 1 /\ entries = << >> /\ cursor = 0 /\ central = 0
  BY <1>1 DEF ListInv, ReadsCounted, NothingListedYet
<1>3. size \in Nat /\ size <= archive.length /\ archive.length \in Nat
  BY ListFacts
<1>4. /\ Window \in Nat /\ Window <= size /\ TailStart \in Nat /\ TailStart + Window = size
  <2>1. EndRecordWindow \in Nat
    BY DEF EndRecordWindow, EndSize, MaxComment
  <2>2. Window \in Nat /\ Window <= size
    BY <1>3, <2>1, MinOfTwo DEF Window
  <2>. QED
    BY <1>3, <2>2 DEF TailStart
<1>5. PICK got \in Read(TailStart, Window) :
        IF got = Failed THEN Give("source")
        ELSE IF EndRecords(got) = {} THEN Give("missingEocd")
        ELSE /\ eocd' = Max(EndRecords(got))
             /\ end' = [n \in DOMAIN end |-> archive.at[eocd'][n]]
             /\ pc' = IF LocatorFits(eocd') /\ IsA("locator", eocd' - LocatorSize) THEN "end64"
                      ELSE IF /\ LocatorFits(eocd')
                              /\ end'.count = Sentinel16 \/ end'.offset = Sentinel
                      THEN "invalidZip64" ELSE "central"
             /\ UNCHANGED << central, cursor, entries >>
  BY DEF ReadTail
<1>6. ASSUME Give("source") \/ Give("missingEocd") PROVE ListInv'
  <2>1. CentralSize * (reads' - 3) <= central
    BY <1>2 DEF CentralSize
  <2>. QED
    BY <1>1, <1>2, <1>6, <2>1, GiveKeepsListInv DEF Errors
<1>7. CASE got # Failed /\ EndRecords(got) # {}
  <2>1. /\ eocd' = Max(EndRecords(got))
        /\ end' = [n \in DOMAIN end |-> archive.at[eocd'][n]]
        /\ pc' \in {"end64", "invalidZip64", "central"}
        /\ UNCHANGED << central, cursor, entries >>
    BY <1>5, <1>7
  <2>2. got \in Nat /\ got <= Window
    BY <1>4, <1>3, <1>7, ReadFacts DEF ListInv
  <2>3. EndRecords(got) \in SUBSET (0 .. archive.length)
    <3>1. ASSUME NEW o \in EndRecords(got) PROVE o \in 0 .. archive.length
      <4>1. o \in Nat /\ o + EndSize <= TailStart + got
        BY DEF EndRecords, ListInv, ArchiveRead
      <4>. QED
        BY <1>3, <1>4, <2>2, <4>1 DEF EndSize
    <3>. QED
      BY <3>1
  <2>4. eocd' \in EndRecords(got)
    BY <1>3, <1>7, <2>1, <2>3, MaxIsGreatest
  <2>5. eocd' \in 0 .. archive.length /\ IsA("end", eocd')
    BY <2>3, <2>4 DEF EndRecords
  <2>6. end' \in [count : Numbers, size : Numbers, offset : Numbers]
    <3>1. end \in [count : Numbers, size : Numbers, offset : Numbers] /\ ArchiveRead
      BY DEF ListInv, TypeOK
    <3>. QED
      BY <2>1, <2>5, <3>1, EndRecordTyped
  <2>7. ArchiveRead' /\ TypeOK'
    <3>1. ArchiveRead'
      BY <1>1 DEF ListInv, ArchiveRead
    <3>2. reads' \in Nat
      BY <1>2
    <3>3. pc' \in Reading \cup Errors
      BY <2>1 DEF Reading, Errors
    <3>. QED
      BY <1>1, <2>1, <2>5, <2>6, <3>1, <3>2, <3>3 DEF ListInv, TypeOK
  <2>8. NothingListedYet' /\ ReadsCounted' /\ ReadsAreBounded'
    BY <1>2, <2>1 DEF NothingListedYet, ReadsCounted, ReadsAreBounded, CentralSize
  <2>. QED
    BY <2>7, <2>8 DEF ListInv
<1>. QED
  BY <1>5, <1>6, <1>7

(* Three reads are free, one more is paid for with 46 bytes of the directory. *)
LEMMA PaidReads ==
  ASSUME NEW r \in Int, NEW paid \in Int, NEW c \in Int, r <= 3 + paid, CentralSize * paid <= c
  PROVE  CentralSize * (r - 3) <= c
<1>1. 46 * paid <= c /\ CentralSize = 46
  BY DEF CentralSize
<1>2. 46 * (r - 3) <= 46 * paid
  OBVIOUS
<1>3. r - 3 \in Int /\ 46 * (r - 3) \in Int /\ 46 * paid \in Int
  OBVIOUS
<1>. QED
  BY <1>1, <1>2, <1>3

LEMMA TooShortKeepsListInv ==
  ASSUME ListInv, TooShort
  PROVE  ListInv'
<1>1. /\ Give("tooShort") /\ UNCHANGED << archive, fileLen, size >> /\ reads' = reads
  BY DEF TooShort
<1>2. reads' \in Nat /\ CentralSize * (reads' - 3) <= central
  BY <1>1, ListFacts DEF ListInv, ReadsAreBounded
<1>. QED
  BY <1>1, <1>2, GiveKeepsListInv DEF Errors

LEMMA ReadEnd64KeepsListInv ==
  ASSUME ListInv, ReadEnd64
  PROVE  ListInv'
<1>1. /\ pc = "end64" /\ reads' = reads + 1
      /\ UNCHANGED << archive, fileLen, size >>
  BY DEF ReadEnd64
<1>2. /\ reads <= 1 /\ reads \in Nat /\ entries = << >> /\ cursor = 0 /\ central = 0
  BY <1>1, ListFacts DEF ListInv, ReadsCounted, NothingListedYet
<1>3. reads' \in Nat /\ reads' <= 2
  BY <1>1, <1>2
<1>4. PICK got \in Read(End64At, End64Size) :
        IF got = Failed THEN Give("source")
        ELSE IF got < End64Size \/ ~ IsA("end64", End64At) THEN Give("invalidZip64")
        ELSE /\ end' = [n \in DOMAIN end |-> archive.at[End64At][n]]
             /\ pc' = "central"
             /\ UNCHANGED << eocd, central, cursor, entries >>
  BY DEF ReadEnd64
<1>5. CentralSize * (reads' - 3) <= central
  <2>1. reads' \in Int /\ reads' <= 3 + 0 /\ CentralSize * 0 <= central /\ central \in Int
    BY <1>2, <1>3 DEF CentralSize
  <2>. QED
    BY <2>1, PaidReads
<1>6. ASSUME Give("source") \/ Give("invalidZip64") PROVE ListInv'
  BY <1>1, <1>3, <1>5, <1>6, GiveKeepsListInv DEF Errors
<1>7. CASE IsA("end64", End64At) /\ /\ end' = [n \in DOMAIN end |-> archive.at[End64At][n]]
                                    /\ pc' = "central"
                                    /\ UNCHANGED << eocd, central, cursor, entries >>
  <2>1. end' \in [count : Numbers, size : Numbers, offset : Numbers]
    <3>1. end \in [count : Numbers, size : Numbers, offset : Numbers] /\ ArchiveRead
      BY DEF ListInv, TypeOK
    <3>. QED
      BY <1>7, <3>1, EndRecordTyped
  <2>2. ArchiveRead'
    BY <1>1 DEF ListInv, ArchiveRead
  <2>3. TypeOK'
    BY <1>1, <1>3, <1>7, <2>1 DEF ListInv, TypeOK, Reading
  <2>4. NothingListedYet' /\ ReadsCounted'
    BY <1>2, <1>3, <1>7 DEF NothingListedYet, ReadsCounted
  <2>5. ReadsAreBounded'
    BY <1>5, <1>7 DEF ReadsAreBounded
  <2>. QED
    BY <2>2, <2>3, <2>4, <2>5 DEF ListInv
<1>. QED
  BY <1>4, <1>6, <1>7

LEMMA TooLargeKeepsListInv ==
  ASSUME ListInv, TooLarge
  PROVE  ListInv'
<1>1. /\ Give("unsupported") /\ UNCHANGED << archive, fileLen, size >> /\ reads' = reads
  BY DEF TooLarge
<1>2. reads' \in Nat /\ CentralSize * (reads' - 3) <= central
  BY <1>1, ListFacts DEF ListInv, ReadsAreBounded
<1>. QED
  BY <1>1, <1>2, GiveKeepsListInv DEF Errors

LEMMA ReadCentralKeepsListInv ==
  ASSUME ListInv, ReadCentral
  PROVE  ListInv'
<1>1. /\ pc = "central" /\ reads' = reads + 1 /\ end.size <= MaxUsize
      /\ UNCHANGED << archive, fileLen, size >>
  BY DEF ReadCentral
<1>2. /\ reads <= 2 /\ reads \in Nat /\ entries = << >> /\ cursor = 0 /\ central = 0
  BY <1>1, ListFacts DEF ListInv, ReadsCounted, NothingListedYet
<1>3. reads' \in Nat /\ reads' <= 3
  BY <1>1, <1>2
<1>4. PICK got \in Read(end.offset, end.size) :
        IF got = Failed THEN Give("source")
        ELSE IF got # end.size THEN Give("truncated")
        ELSE /\ central' = got
             /\ pc' = IF ReservationTraps THEN "trap" ELSE "entries"
             /\ UNCHANGED << eocd, end, cursor, entries >>
  BY DEF ReadCentral
<1>5. CentralSize * (reads' - 3) <= central
  <2>1. reads' \in Int /\ reads' <= 3 + 0 /\ CentralSize * 0 <= central /\ central \in Int
    BY <1>2, <1>3 DEF CentralSize
  <2>. QED
    BY <2>1, PaidReads
<1>6. ASSUME Give("source") \/ Give("truncated") PROVE ListInv'
  BY <1>1, <1>3, <1>5, <1>6, GiveKeepsListInv DEF Errors
<1>7. CASE got = end.size /\ /\ central' = got
                             /\ pc' = IF ReservationTraps THEN "trap" ELSE "entries"
                             /\ UNCHANGED << eocd, end, cursor, entries >>
  <2>1. central' \in 0 .. MaxUsize /\ central' \in Nat
    BY <1>1, <1>7, ListFacts, ConstantNumbers
  <2>2. pc' \in {"trap", "entries"}
    BY <1>7
  <2>3. cursor' = 0 /\ cursor' \in 0 .. central'
    BY <1>2, <1>7, <2>1
  <2>4. Len(entries) = 0
    BY <1>2
  <2>5. ArchiveRead'
    BY <1>1 DEF ListInv, ArchiveRead
  <2>6. TypeOK'
    BY <1>1, <1>3, <1>7, <2>1, <2>2, <2>3 DEF ListInv, TypeOK, Reading
  <2>7. NothingListedYet'
    BY <2>2 DEF NothingListedYet
  <2>8. ReadsCounted'
    BY <1>3, <1>7, <2>2, <2>3, <2>4 DEF ReadsCounted, CentralSize
  <2>9. ReadsAreBounded'
    <3>1. /\ reads' \in Int /\ reads' <= 3 + 0
          /\ CentralSize * 0 <= central' /\ central' \in Int
      BY <1>3, <2>1 DEF CentralSize
    <3>. QED
      BY <3>1, PaidReads DEF ReadsAreBounded
  <2>. QED
    BY <2>5, <2>6, <2>7, <2>8, <2>9 DEF ListInv
<1>. QED
  BY <1>4, <1>6, <1>7

LEMMA FinishKeepsListInv ==
  ASSUME ListInv, Finish
  PROVE  ListInv'
<1>1. /\ Give("ok") /\ UNCHANGED << archive, fileLen, size >> /\ reads' = reads
  BY DEF Finish
<1>2. reads' \in Nat /\ CentralSize * (reads' - 3) <= central
  BY <1>1, ListFacts DEF ListInv, ReadsAreBounded
<1>. QED
  BY <1>1, <1>2, GiveKeepsListInv

(* A cut, of an archive or of a document that is none, leaves the listing where it is. *)
LEMMA CutKeepsListInv ==
  ASSUME ListInv, fileLen' \in 0 .. archive.length,
         UNCHANGED << archive, size, eocd, end, central, cursor, entries, reads, pc >>
  PROVE  ListInv'
  BY DEF ListInv, ArchiveRead, TypeOK, NothingListedYet, ReadsCounted, ReadsAreBounded

LEMMA TruncateKeepsListInv ==
  ASSUME ListInv, Truncate
  PROVE  ListInv' /\ fileLen' <= fileLen
<1>1. PICK o \in DOMAIN archive.at, d \in {0, 1, EndSize} : o + d < fileLen /\ fileLen' = o + d
  BY DEF Truncate
<1>2. o \in Nat
  BY DEF ListInv, ArchiveRead
<1>3. d \in Nat
  BY DEF EndSize
<1>4. fileLen' \in 0 .. archive.length /\ fileLen' <= fileLen
  BY <1>1, <1>2, <1>3, ListFacts
<1>. QED
  BY <1>4, CutKeepsListInv DEF Truncate

(* The entry that is appended, and the 46 bytes of its header at least. *)
LEMMA NextEntryKeepsListInv ==
  ASSUME ListInv, NextEntry
  PROVE  ListInv'
<1>. DEFINE h == archive.at[HeaderAt]
            z == Zip64Values(h)
            v == z.v
            e == [ name |-> h.name, uncompressed |-> v[1],
                   compressed |-> v[2], data |-> DataOffset(h, v[3]) ]
            paid == Len(entries) + 1
<1>1. pc = "entries" /\ UNCHANGED << archive, fileLen, size >>
  BY DEF NextEntry
<1>2. /\ reads \in Nat /\ reads <= 3 + Len(entries) /\ CentralSize * Len(entries) <= cursor
      /\ cursor \in Nat /\ central \in Nat /\ Len(entries) \in Nat
  BY <1>1, ListFacts DEF ListInv, ReadsCounted
<1>3. CASE UNCHANGED reads /\ (Give("damaged") \/ Give("truncated") \/ Give("invalidZip64"))
  <2>1. reads' \in Nat /\ CentralSize * (reads' - 3) <= central
    BY <1>2, <1>3 DEF ListInv, ReadsAreBounded
  <2>. QED
    BY <1>1, <1>3, <2>1, GiveKeepsListInv DEF Errors
<1>4. CASE HasHeader /\ NextCursor(h) <= central /\ z.ok /\ ReadLocal(h, v)
  <2>1. h \in ArchiveRecords /\ h.kind = "central"
    BY <1>4 DEF HasHeader, IsA, OfKind, ListInv, ArchiveRead
  <2>2. h.name \in STRING /\ h.nameLen \in Nat /\ h.extraLen \in Nat /\ h.commentLen \in Nat
    BY <2>1 DEF ArchiveRecords
  <2>3. v \in [1 .. 3 -> Numbers]
    BY <1>4, <2>1, Zip64ValuesTyped
  <2>4. v[1] \in Numbers /\ v[2] \in Numbers /\ v[3] \in Numbers
    <3>. HIDE DEF v
    <3>. QED
      BY <2>3
  <2>. HIDE DEF h
  <2>5. cursor + CentralSize <= central
    BY <1>4 DEF HasHeader
  <2>6. paid \in Nat /\ reads + 1 \in Nat /\ reads + 1 <= 3 + paid
    BY <1>2
  <2>7. /\ CentralSize * paid <= cursor + CentralSize
        /\ CentralSize * paid <= central
        /\ CentralSize * paid \in Nat
    <3>. DEFINE n == Len(entries)
    <3>1. n \in Nat /\ 46 * n <= cursor /\ cursor + 46 <= central
      BY <1>2, <2>5 DEF CentralSize
    <3>. HIDE DEF n
    <3>2. 46 * (n + 1) <= cursor + 46 /\ 46 * (n + 1) <= central /\ 46 * (n + 1) \in Nat
      BY <1>2, <3>1
    <3>. QED
      BY <3>2 DEF n, CentralSize
  <2>. HIDE DEF paid
  <2>8. CentralSize * ((reads + 1) - 3) <= central
    <3>1. reads + 1 \in Int /\ paid \in Int /\ central \in Int
      BY <1>2, <2>6
    <3>. QED
      BY <3>1, <2>6, <2>7, PaidReads
  <2>9. reads' = reads + 1
    BY <1>4 DEF ReadLocal
  <2>10. CASE Give("source") \/ Give("damaged")
    <3>1. reads' \in Nat /\ CentralSize * (reads' - 3) <= central
      BY <2>6, <2>8, <2>9
    <3>. QED
      BY <1>1, <2>10, <3>1, GiveKeepsListInv DEF Errors
  <2>11. CASE /\ IsA("local", v[3]) /\ ~ (DataOffset(h, v[3]) > MaxU64)
              /\ entries' = Append(entries, e)
              /\ cursor' = NextCursor(h)
              /\ UNCHANGED << eocd, end, central, pc >>
    <3>1. archive.at[v[3]] \in ArchiveRecords /\ archive.at[v[3]].kind = "local"
      BY <2>11 DEF IsA, OfKind, ListInv, ArchiveRead
    <3>2. archive.at[v[3]].nameLen \in Nat /\ archive.at[v[3]].extraLen \in Nat
      BY <3>1 DEF ArchiveRecords
    <3>3. v[3] \in Nat
      BY <2>4, ConstantNumbers DEF Numbers
    <3>. HIDE DEF v
    <3>4. DataOffset(h, v[3]) \in Nat
      BY <3>2, <3>3 DEF DataOffset, LocalSize
    <3>5. DataOffset(h, v[3]) \in Numbers
      BY <2>11, <3>4, ConstantNumbers DEF Numbers
    <3>6. e \in Entries
      BY <2>2, <2>4, <3>5 DEF Entries
    <3>. HIDE DEF e
    <3>7. entries \in Seq(Entries)
      BY DEF ListInv, TypeOK
    <3>8. entries' \in Seq(Entries) /\ Len(entries') = paid
      BY <2>11, <3>6, <3>7 DEF paid
    <3>9. cursor' \in Nat /\ cursor' >= cursor + CentralSize /\ cursor' <= central
      <4>1. cursor' = cursor + CentralSize + h.nameLen + h.extraLen + h.commentLen
        BY <2>11 DEF NextCursor, HeaderEnd
      <4>2. cursor' <= central
        BY <1>4, <2>11
      <4>3. ASSUME NEW c \in Nat, NEW i \in Nat, NEW j \in Nat, NEW k \in Nat
            PROVE  /\ c + CentralSize + i + j + k \in Nat
                   /\ c + CentralSize + i + j + k >= c + CentralSize
        BY DEF CentralSize
      <4>4. cursor' \in Nat /\ cursor' >= cursor + CentralSize
        <5>1. cursor \in Nat
          BY <1>2
        <5>. QED
          BY <2>2, <4>1, <4>3, <5>1
      <4>. QED
        BY <4>2, <4>4
    <3>10. ArchiveRead'
      BY <1>1 DEF ListInv, ArchiveRead
    <3>11. TypeOK'
      <4>1. cursor' \in 0 .. central' /\ reads' \in Nat
        BY <1>2, <2>6, <2>9, <2>11, <3>9
      <4>. QED
        BY <1>1, <2>11, <3>8, <4>1 DEF ListInv, TypeOK
    <3>12. NothingListedYet'
      BY <1>1, <2>11 DEF NothingListedYet
    <3>13. ReadsCounted'
      <4>1. pc' = "entries"
        BY <1>1, <2>11
      <4>2. reads' <= 3 + Len(entries')
        BY <2>6, <2>9, <3>8
      <4>3. CentralSize * Len(entries') <= cursor'
        <5>1. CentralSize * Len(entries') = CentralSize * paid
          BY <3>8
        <5>2. cursor + CentralSize \in Int
          BY <1>2 DEF CentralSize
        <5>. QED
          BY <5>1, <5>2, <2>7, <3>9
      <4>. QED
        BY <4>1, <4>2, <4>3 DEF ReadsCounted
    <3>14. ReadsAreBounded'
      BY <2>8, <2>9, <2>11 DEF ReadsAreBounded
    <3>. QED
      BY <3>10, <3>11, <3>12, <3>13, <3>14 DEF ListInv
  <2>. QED
    BY <1>4, <2>10, <2>11 DEF ReadLocal
<1>. QED
  BY <1>3, <1>4 DEF NextEntry

LEMMA ListKeepsListInv ==
  ASSUME ListInv, List
  PROVE  ListInv'
  BY BeginKeepsListInv, TooShortKeepsListInv, ReadTailKeepsListInv, ReadEnd64KeepsListInv,
     TooLargeKeepsListInv, ReadCentralKeepsListInv, NextEntryKeepsListInv, FinishKeepsListInv
     DEF List

-----------------------------------------------------------------------------
(***************************************************************************)
(* Headers that adjoin each other.                                         *)
(***************************************************************************)
Headers == OfKind(archive, "central")
EndAt(o) == HeaderEnd(archive.at[o], o)

LEMMA RecordsAreTyped ==
  ASSUME ArchiveRead, NEW kind, NEW o \in OfKind(archive, kind)
  PROVE  o \in Nat /\ archive.at[o] \in ArchiveRecords /\ archive.at[o].kind = kind
  BY DEF OfKind, ArchiveRead

LEMMA HeaderIsLong ==
  ASSUME ArchiveRead, NEW o \in Headers
  PROVE  o \in Nat /\ EndAt(o) \in Nat /\ EndAt(o) >= o + CentralSize /\ EndAt(o) > o
<1>. DEFINE h == archive.at[o]
<1>1. o \in Nat /\ h \in ArchiveRecords /\ h.kind = "central"
  BY RecordsAreTyped DEF Headers
<1>2. h.nameLen \in Nat /\ h.extraLen \in Nat /\ h.commentLen \in Nat
  BY <1>1 DEF ArchiveRecords
<1>. HIDE DEF h
<1>3. ASSUME NEW i \in Nat, NEW j \in Nat, NEW k \in Nat
      PROVE  /\ o + CentralSize + i + j + k \in Nat
             /\ o + CentralSize + i + j + k >= o + CentralSize
             /\ o + CentralSize + i + j + k > o
  BY <1>1 DEF CentralSize
<1>4. EndAt(o) = o + CentralSize + h.nameLen + h.extraLen + h.commentLen
  BY DEF EndAt, HeaderEnd, h
<1>. DEFINE e == o + CentralSize + h.nameLen + h.extraLen + h.commentLen
<1>5. e \in Nat /\ e >= o + CentralSize /\ e > o
  BY <1>2, <1>3
<1>. HIDE DEF e
<1>6. EndAt(o) = e
  BY <1>4 DEF e
<1>. QED
  BY <1>1, <1>5, <1>6

(* One header more behind those walked over. *)
LEMMA PathGrows ==
  ASSUME ArchiveRead, NEW V \in SUBSET Headers, IsFiniteSet(V),
         NEW from \in Nat, NEW to \in Headers, from <= to, Adjoin(archive, V, from, to)
  PROVE  /\ Adjoin(archive, V \cup {to}, from, EndAt(to))
         /\ IsFiniteSet(V \cup {to}) /\ Cardinality(V \cup {to}) = Cardinality(V) + 1
<1>. DEFINE W == V \cup {to}
<1>1. to \in Nat /\ EndAt(to) \in Nat /\ EndAt(to) > to
  BY HeaderIsLong
<1>2. /\ from \in V \cup {to}
      /\ \A o \in V : /\ from <= o /\ EndAt(o) <= to /\ EndAt(o) \in V \cup {to}
                      /\ \A p \in V : o < p => EndAt(o) <= p
  BY DEF Adjoin, EndAt
<1>3. ASSUME NEW o \in V PROVE o \in Nat /\ EndAt(o) \in Nat /\ o < to /\ EndAt(o) <= EndAt(to)
  <2>1. o \in Nat /\ EndAt(o) \in Nat /\ EndAt(o) > o
    BY HeaderIsLong
  <2>2. EndAt(o) <= to
    BY <1>2
  <2>. QED
    BY <1>1, <2>1, <2>2
<1>4. to \notin V
  BY <1>1, <1>3
<1>5. ASSUME NEW o \in W
      PROVE  /\ from <= o /\ EndAt(o) <= EndAt(to) /\ EndAt(o) \in W \cup {EndAt(to)}
             /\ \A p \in W : o < p => EndAt(o) <= p
  <2>1. CASE o = to
    <3>1. \A p \in W : ~ (to < p)
      BY <1>1, <1>3
    <3>. QED
      BY <1>1, <2>1, <3>1
  <2>2. CASE o \in V
    BY <1>2, <1>3, <2>2
  <2>. QED
    BY <2>1, <2>2
<1>6. Adjoin(archive, W, from, EndAt(to))
  <2>1. from \in W \cup {EndAt(to)}
    BY <1>2
  <2>. HIDE DEF W
  <2>. QED
    BY <1>5, <2>1 DEF Adjoin, EndAt
<1>7. IsFiniteSet(W) /\ Cardinality(W) = Cardinality(V) + 1
  BY <1>4, FS_AddElement
<1>. QED
  BY <1>6, <1>7

(* Of all headers: the one at o is next behind those in front of it. *)
Before(o) == { p \in Headers : p < o }
UpTo(o) == { p \in Headers : p <= o }

LEMMA HeadersAreFinite ==
  ASSUME ArchiveRead, NEW from \in Nat, NEW to \in Nat, Adjoin(archive, Headers, from, to)
  PROVE  /\ IsFiniteSet(Headers) /\ Before(from) = {} /\ Before(to) = Headers /\ from <= to
         /\ \A o \in Nat : IsFiniteSet(Before(o)) /\ Cardinality(Before(o)) \in Nat
<1>1. /\ from \in Headers \cup {to}
      /\ \A o \in Headers : from <= o /\ EndAt(o) <= to
  BY DEF Adjoin, EndAt
<1>2. ASSUME NEW o \in Headers PROVE o \in 0 .. to /\ o < to /\ ~ (o < from)
  <2>1. o \in Nat /\ EndAt(o) \in Nat /\ EndAt(o) > o
    BY HeaderIsLong
  <2>2. EndAt(o) <= to /\ from <= o
    BY <1>1
  <2>. QED
    BY <2>1, <2>2
<1>3. Headers \in SUBSET (0 .. to)
  BY <1>2
<1>4. IsFiniteSet(0 .. to)
  BY FS_Interval
<1>5. IsFiniteSet(Headers)
  BY <1>3, <1>4, FS_Subset
<1>6. Before(from) = {} /\ Before(to) = Headers
  BY <1>2 DEF Before
<1>7. from <= to
  BY <1>1, <1>2
<1>8. ASSUME NEW o \in Nat PROVE IsFiniteSet(Before(o)) /\ Cardinality(Before(o)) \in Nat
  <2>1. Before(o) \in SUBSET Headers
    BY DEF Before
  <2>2. IsFiniteSet(Before(o))
    BY <1>5, <2>1, FS_Subset
  <2>. QED
    BY <2>2, FS_CardinalityType
<1>. QED
  BY <1>5, <1>6, <1>7, <1>8

LEMMA NextOfHeaders ==
  ASSUME ArchiveRead, NEW from \in Nat, NEW to \in Nat, Adjoin(archive, Headers, from, to),
         NEW o \in Headers
  PROVE  /\ Before(EndAt(o)) = UpTo(o)
         /\ Cardinality(UpTo(o)) = Cardinality(Before(o)) + 1
         /\ EndAt(o) \in Headers \cup {to} /\ EndAt(o) <= to
<1>1. o \in Nat /\ EndAt(o) \in Nat /\ EndAt(o) > o
  BY HeaderIsLong
<1>2. /\ EndAt(o) \in Headers \cup {to} /\ EndAt(o) <= to
      /\ \A p \in Headers : o < p => EndAt(o) <= p
  BY DEF Adjoin, EndAt
<1>3. ASSUME NEW p \in Headers PROVE p < EndAt(o) <=> p <= o
  <2>1. p \in Nat
    BY HeaderIsLong
  <2>2. o < p => EndAt(o) <= p
    BY <1>2
  <2>. QED
    BY <1>1, <2>1, <2>2
<1>4. Before(EndAt(o)) = UpTo(o)
  BY <1>3 DEF Before, UpTo
<1>5. UpTo(o) = Before(o) \cup {o} /\ o \notin Before(o)
  <2>1. \A p \in Headers : p \in Nat
    BY HeaderIsLong
  <2>2. \A p \in Headers : p <= o <=> p < o \/ p = o
    BY <1>1, <2>1
  <2>3. ~ (o < o)
    BY <1>1
  <2>. QED
    BY <2>2, <2>3 DEF UpTo, Before
<1>6. IsFiniteSet(Before(o))
  BY <1>1, HeadersAreFinite
<1>7. Cardinality(UpTo(o)) = Cardinality(Before(o)) + 1
  BY <1>5, <1>6, FS_AddElement
<1>. QED
  BY <1>2, <1>4, <1>7

-----------------------------------------------------------------------------
(***************************************************************************)
(* What a listing rests on: the numbers of a directory there is, as many   *)
(* bytes of it as they claim, and for each entry one more header that      *)
(* adjoins the last.                                                       *)
(***************************************************************************)
NumbersOf(n) == [count |-> n.count, size |-> n.size, offset |-> n.offset]

Found ==
  /\ pc = "end64" => eocd \in OfKind(archive, "end") /\ HasLocator(archive, eocd)
  /\ pc \in {"central", "entries", "ok"} =>
       \E d \in Directories(archive) : end = NumbersOf(archive.at[d])

Held ==
  pc \in {"entries", "ok"} =>
    central = end.size /\ (end.size > 0 => end.offset + end.size <= archive.length)

WalkedOver(V) ==
  /\ IsFiniteSet(V) /\ Cardinality(V) = Len(entries)
  /\ Adjoin(archive, V, end.offset, HeaderAt)
  /\ HeaderAt \in {end.offset} \cup { EndAt(o) : o \in V }
  /\ \A o \in V : CanBeRead(archive, archive.at[o])

Walked == pc \in {"entries", "ok"} => \E V \in SUBSET Headers : WalkedOver(V)
AllWalked == pc = "ok" => Len(entries) = end.count
SizeKept == pc # "call" => fileLen <= size

FollowInv == Found /\ Held /\ Walked /\ AllWalked /\ SizeKept

(***************************************************************************)
(* Of an archive that is intact, or whose numbers are smaller or larger    *)
(* but lead to the directory, they are the end record, the directory and   *)
(* the first entries its writer left, and the listing gives up for no      *)
(* other reason than a cut or the device.                                  *)
(***************************************************************************)
Followable == {"none"} \cup Unnoticed

LastOf(a) ==
  CHOOSE to \in {DirectoryOf(a).offset} \cup { HeaderEnd(a.at[o], o) : o \in OfKind(a, "central") } :
    DirectoryEnds(a, to) /\ to <= DirectoryOf(a).offset + DirectoryOf(a).size
DirectoryEnd == LastOf(archive)

OnWritersPath ==
  /\ pc = "end64" => eocd = EndOf(archive)
  /\ pc \in {"central", "entries", "ok"} => end = NumbersOf(DirectoryOf(archive))
  /\ pc \in {"entries", "ok"} =>
       /\ HeaderAt \in Headers \cup {DirectoryEnd}
       /\ Len(entries) = Cardinality(Before(HeaderAt))
       /\ \A i \in 1 .. Len(entries) : entries[i] = archive.written[i]
  /\ pc \in Errors \cup {"trap"} => pc = "source" \/ fileLen < archive.length

PathInv == archive.damage \in Followable => OnWritersPath

ArchiveJudged ==
  /\ archive.damage = "none" => document = DocumentOf(archive)
  /\ archive.damage \in Followable => Listable(archive)
  /\ archive.damage \in {"none", "largerSize"} => DirectoryOf(archive).count = Len(archive.written)
  /\ archive.damage \notin {"shortBlock"} \cup Followable => ~ CanBeFollowed(archive)

ZipInv == ArchiveJudged /\ FollowInv /\ PathInv

LEMMA OutcomesDiffer ==
  ASSUME NEW o \in Errors \cup {"trap"}
  PROVE  o \notin {"call", "tail", "end64", "central", "entries", "ok"}
  BY DEF Errors

(* What the contract of a directory that leads to what was written says, in parts. *)
LEMMA ListableFacts ==
  ASSUME ArchiveRead, Listable(archive)
  PROVE  LET e == EndOf(archive)
             n == DirectoryOf(archive)
         IN  /\ e \in Nat /\ OfKind(archive, "end") = {e}
             /\ e + EndSize <= archive.length /\ archive.length <= e + EndSize + MaxComment
             /\ HasLocator(archive, e) =>
                  /\ Located(archive, e) \in OfKind(archive, "end64")
                  /\ Located(archive, e) + End64Size <= archive.length
                  /\ n = archive.at[Located(archive, e)]
             /\ ~ HasLocator(archive, e) =>
                  n = archive.at[e] /\ n.count # Sentinel16 /\ n.offset # Sentinel
             /\ n.size \in Nat /\ n.count \in Nat /\ n.offset \in Nat
             /\ n.size <= MaxUsize /\ n.count <= MaxReserve
             /\ n.offset + n.size <= archive.length
             /\ Adjoin(archive, Headers, n.offset, DirectoryEnd)
             /\ DirectoryEnd <= n.offset + n.size /\ DirectoryEnd \in Nat
             /\ archive.written \in Seq(Entries)
             /\ Cardinality(Headers) = Len(archive.written) /\ n.count <= Len(archive.written)
             /\ \A o \in Headers :
                  Describes(archive, archive.at[o], archive.written[Cardinality(UpTo(o))])
<1>. DEFINE e == EndOf(archive)
            n == DirectoryOf(archive)
<1>1. /\ OfKind(archive, "end") = {e}
      /\ e + EndSize <= archive.length /\ archive.length <= e + EndSize + MaxComment
      /\ IF HasLocator(archive, e)
         THEN Located(archive, e) \in OfKind(archive, "end64")
              /\ Located(archive, e) + End64Size <= archive.length
         ELSE n.count # Sentinel16 /\ n.offset # Sentinel
      /\ n.size <= MaxUsize /\ n.count <= MaxReserve
      /\ n.offset + n.size <= archive.length
      /\ \E to \in {n.offset} \cup { HeaderEnd(archive.at[o], o) : o \in OfKind(archive, "central") } :
           DirectoryEnds(archive, to) /\ to <= n.offset + n.size
      /\ archive.written \in Seq(Entries)
      /\ Cardinality(Headers) = Len(archive.written) /\ n.count <= Len(archive.written)
      /\ \A o \in Headers :
           Describes(archive, archive.at[o], archive.written[Cardinality(UpTo(o))])
  BY DEF Listable, Headers, UpTo
<1>2. /\ HasLocator(archive, e) => n = archive.at[Located(archive, e)]
      /\ ~ HasLocator(archive, e) => n = archive.at[e]
  BY DEF DirectoryOf
<1>3. e \in OfKind(archive, "end") /\ e \in Nat
  <2>1. e \in OfKind(archive, "end")
    BY <1>1
  <2>. HIDE DEF e
  <2>. QED
    BY <2>1, RecordsAreTyped
<1>4. n \in ArchiveRecords /\ n.kind \in {"end", "end64"}
  <2>. HIDE DEF e, n
  <2>1. CASE HasLocator(archive, e)
    <3>1. Located(archive, e) \in OfKind(archive, "end64")
      BY <1>1, <2>1
    <3>2. archive.at[Located(archive, e)] \in ArchiveRecords
          /\ archive.at[Located(archive, e)].kind = "end64"
      BY <3>1, RecordsAreTyped
    <3>. QED
      BY <1>2, <2>1, <3>2
  <2>2. CASE ~ HasLocator(archive, e)
    <3>1. archive.at[e] \in ArchiveRecords /\ archive.at[e].kind = "end"
      BY <1>3, RecordsAreTyped
    <3>. QED
      BY <1>2, <2>2, <3>1
  <2>. QED
    BY <2>1, <2>2
<1>. HIDE DEF n, e
<1>5. n.size \in Numbers /\ n.count \in Numbers /\ n.offset \in Numbers
  BY <1>4 DEF ArchiveRecords
<1>6. n.size \in Nat /\ n.count \in Nat /\ n.offset \in Nat
  BY <1>5, ConstantNumbers DEF Numbers
<1>7. /\ DirectoryEnd \in {n.offset} \cup { HeaderEnd(archive.at[o], o) : o \in OfKind(archive, "central") }
      /\ DirectoryEnds(archive, DirectoryEnd) /\ DirectoryEnd <= n.offset + n.size
  BY <1>1 DEF DirectoryEnd, LastOf, n
<1>8. DirectoryEnd \in Nat
  <2>1. ASSUME NEW o \in Headers PROVE HeaderEnd(archive.at[o], o) \in Nat
    BY HeaderIsLong DEF EndAt
  <2>. QED
    BY <1>6, <1>7, <2>1 DEF Headers
<1>9. Adjoin(archive, Headers, n.offset, DirectoryEnd)
  BY <1>7 DEF DirectoryEnds, Headers, n
<1>. QED
  BY <1>1, <1>2, <1>3, <1>6, <1>7, <1>8, <1>9 DEF e, n

-----------------------------------------------------------------------------
(***************************************************************************)
(* The listing of an archive, step by step.                                *)
(***************************************************************************)
LEMMA JudgementStays ==
  ASSUME ArchiveJudged, UNCHANGED << archive, document >>
  PROVE  ArchiveJudged'
  BY DEF ArchiveJudged

(* Giving up. *)
LEMMA GivingUp ==
  ASSUME ZipInv, UNCHANGED << archive, document, fileLen, size >>, pc # "call",
         NEW o \in Errors \cup {"trap"}, pc' = o,
         archive.damage \in Followable => o = "source" \/ fileLen < archive.length
  PROVE  ZipInv'
<1>1. pc' \notin {"call", "tail", "end64", "central", "entries", "ok"}
  BY OutcomesDiffer
<1>2. ArchiveJudged'
  BY JudgementStays DEF ZipInv
<1>3. Found' /\ Held' /\ Walked' /\ AllWalked'
  BY <1>1 DEF Found, Held, Walked, AllWalked
<1>4. SizeKept'
  BY DEF ZipInv, FollowInv, SizeKept
<1>5. PathInv'
  <2>1. archive'.damage \in Followable => pc' = "source" \/ fileLen' < archive'.length
    OBVIOUS
  <2>. QED
    BY <1>1, <2>1 DEF PathInv, OnWritersPath
<1>. QED
  BY <1>2, <1>3, <1>4, <1>5 DEF ZipInv, FollowInv

(* Of a document that was not cut a read returns what it is asked for. *)
LEMMA WholeRead ==
  ASSUME TypeOK, archive.length \in Nat, fileLen = size,
         NEW o \in Nat, NEW n \in Nat, n = 0 \/ o + n <= size,
         NEW got \in Read(o, n), got # Failed
  PROVE  got = n
<1>1. fileLen \in Nat /\ size \in Nat
  BY DEF TypeOK
<1>2. Min({fileLen, size}) = size
  BY <1>1, MinOfTwo
<1>3. got = Within(o, n, size)
  BY <1>2 DEF Read
<1>4. CASE o >= size
  <2>1. got = 0
    BY <1>3, <1>4 DEF Within
  <2>2. n = 0
    BY <1>1, <1>4
  <2>. QED
    BY <2>1, <2>2
<1>5. CASE ~ (o >= size)
  <2>1. size - o \in Nat
    BY <1>1, <1>5
  <2>2. got = IF n <= size - o THEN n ELSE size - o
    BY <1>3, <1>5, <2>1, MinOfTwo DEF Within
  <2>3. n <= size - o
    BY <1>1, <1>5, <2>1
  <2>. QED
    BY <2>2, <2>3
<1>. QED
  BY <1>4, <1>5

LEMMA BeginKeepsZipInv ==
  ASSUME ListInv, ZipInv, Begin, document' = document
  PROVE  ZipInv'
<1>1. /\ pc = "call" /\ size' = fileLen /\ pc' = "tail"
      /\ UNCHANGED << archive, fileLen, eocd, end, central, cursor, entries, reads >>
  BY DEF Begin
<1>2. ArchiveJudged'
  BY <1>1, JudgementStays DEF ZipInv
<1>3. Found' /\ Held' /\ Walked' /\ AllWalked'
  BY <1>1 DEF Found, Held, Walked, AllWalked
<1>4. SizeKept'
  BY <1>1, ListFacts DEF SizeKept
<1>5. PathInv'
  <2>1. pc' \notin Errors \cup {"trap"}
    BY <1>1 DEF Errors
  <2>. QED
    BY <1>1, <2>1 DEF PathInv, OnWritersPath
<1>. QED
  BY <1>2, <1>3, <1>4, <1>5 DEF ZipInv, FollowInv

LEMMA TooShortKeepsZipInv ==
  ASSUME ListInv, ZipInv, TooShort, document' = document
  PROVE  ZipInv'
<1>1. /\ pc = "tail" /\ size < EndSize /\ UNCHANGED << archive, fileLen, size >>
      /\ pc' = "tooShort"
  BY DEF TooShort, Give
<1>2. ASSUME archive.damage \in Followable PROVE fileLen < archive.length
  <2>1. Listable(archive) /\ ArchiveRead
    BY <1>2 DEF ZipInv, ArchiveJudged, ListInv
  <2>. DEFINE e == EndOf(archive)
  <2>2. e \in Nat /\ e + EndSize <= archive.length
    BY <2>1, ListableFacts
  <2>3. fileLen <= size
    BY <1>1 DEF ZipInv, FollowInv, SizeKept
  <2>. HIDE DEF e
  <2>. QED
    BY <1>1, <2>2, <2>3, ListFacts DEF EndSize
<1>. QED
  BY <1>1, <1>2, GivingUp DEF Errors

LEMMA TooLargeKeepsZipInv ==
  ASSUME ListInv, ZipInv, TooLarge, document' = document
  PROVE  ZipInv'
<1>1. /\ pc = "central" /\ end.size > MaxUsize /\ UNCHANGED << archive, fileLen, size >>
      /\ pc' = "unsupported"
  BY DEF TooLarge, Give
<1>2. archive.damage \notin Followable
  <2>1. SUFFICES ASSUME archive.damage \in Followable PROVE FALSE
    OBVIOUS
  <2>2. Listable(archive) /\ ArchiveRead /\ end = NumbersOf(DirectoryOf(archive))
    BY <1>1, <2>1 DEF ZipInv, ArchiveJudged, ListInv, PathInv, OnWritersPath
  <2>. DEFINE n == DirectoryOf(archive)
  <2>3. n.size <= MaxUsize /\ n.size \in Nat
    BY <2>2, ListableFacts
  <2>. HIDE DEF n
  <2>4. end.size = n.size
    BY <2>2 DEF NumbersOf, n
  <2>. QED
    BY <1>1, <2>3, <2>4, ConstantNumbers
<1>. QED
  BY <1>1, <1>2, GivingUp DEF Errors

LEMMA FinishKeepsZipInv ==
  ASSUME ListInv, ZipInv, Finish, document' = document
  PROVE  ZipInv'
<1>1. /\ pc = "entries" /\ Len(entries) = end.count /\ pc' = "ok"
      /\ UNCHANGED << archive, fileLen, size, reads, eocd, end, central, cursor, entries >>
  BY DEF Finish, Give
<1>2. ArchiveJudged'
  BY <1>1, JudgementStays DEF ZipInv
<1>3. Found' /\ Held' /\ Walked' /\ AllWalked' /\ SizeKept'
  <2>1. (\E V \in SUBSET Headers : WalkedOver(V))'
    BY <1>1 DEF ZipInv, FollowInv, Walked, WalkedOver, Headers, HeaderAt, EndAt
  <2>2. Walked'
    BY <2>1 DEF Walked
  <2>. QED
    BY <1>1, <2>2 DEF ZipInv, FollowInv, Found, Held, AllWalked, SizeKept
<1>4. PathInv'
  <2>1. pc' \notin Errors \cup {"trap"}
    BY <1>1 DEF Errors
  <2>. QED
    BY <1>1, <2>1 DEF ZipInv, PathInv, OnWritersPath, Headers, HeaderAt, Before, DirectoryEnd
<1>. QED
  BY <1>2, <1>3, <1>4 DEF ZipInv, FollowInv

LEMMA NumbersTaken ==
  ASSUME TypeOK, NEW o
  PROVE  [n \in DOMAIN end |-> archive.at[o][n]] = NumbersOf(archive.at[o])
<1>. DEFINE r == archive.at[o]
<1>1. end \in [count : Numbers, size : Numbers, offset : Numbers]
  BY DEF TypeOK
<1>2. DOMAIN end = {"count", "size", "offset"}
  BY <1>1
<1>. HIDE DEF r
<1>3. [n \in DOMAIN end |-> r[n]] = [count |-> r.count, size |-> r.size, offset |-> r.offset]
  BY <1>2
<1>. QED
  BY <1>3 DEF NumbersOf, r

LEMMA TailFacts ==
  ASSUME ListInv
  PROVE  /\ Window \in Nat /\ Window <= size /\ TailStart \in Nat /\ TailStart + Window = size
         /\ TailStart = 0 \/ TailStart = size - EndRecordWindow
<1>1. EndRecordWindow \in Nat /\ size \in Nat
  BY ListFacts DEF EndRecordWindow, EndSize, MaxComment
<1>2. Window = IF EndRecordWindow <= size THEN EndRecordWindow ELSE size
  BY <1>1, MinOfTwo DEF Window
<1>. QED
  BY <1>1, <1>2 DEF TailStart

(* The window is long enough for the longest comment, and for a locator in front of the end record. *)
LEMMA TailHoldsLocator ==
  ASSUME ListInv, Listable(archive)
  PROVE  /\ EndOf(archive) >= TailStart
         /\ HasLocator(archive, EndOf(archive)) => LocatorFits(EndOf(archive))
<1>. DEFINE e == EndOf(archive)
<1>1. e \in Nat /\ archive.length <= e + 22 + 65535
  BY ListableFacts DEF ListInv, EndSize, MaxComment
<1>2. size \in Nat /\ size <= archive.length /\ archive.length \in Nat
  BY ListFacts
<1>3. TailStart \in Nat /\ (TailStart = 0 \/ TailStart = size - 131168)
  BY TailFacts DEF EndRecordWindow, EndSize, MaxComment
<1>4. HasLocator(archive, e) => e >= 20
  <2>1. SUFFICES ASSUME e - LocatorSize \in OfKind(archive, "locator") PROVE e >= 20
    BY DEF HasLocator
  <2>2. e - LocatorSize \in Nat
    BY <2>1, RecordsAreTyped DEF ListInv
  <2>. HIDE DEF e
  <2>. QED
    BY <1>1, <2>2 DEF LocatorSize
<1>. HIDE DEF e
<1>5. e >= TailStart /\ (HasLocator(archive, e) => e - TailStart >= 20)
  BY <1>1, <1>2, <1>3, <1>4
<1>. QED
  BY <1>5 DEF LocatorFits, LocatorSize, e

LEMMA ReadTailKeepsZipInv ==
  ASSUME ListInv, ZipInv, ReadTail, document' = document
  PROVE  ZipInv'
<1>1. /\ pc = "tail" /\ size >= EndSize /\ reads' = reads + 1
      /\ UNCHANGED << archive, fileLen, size >>
  BY DEF ReadTail
<1>2. PICK got \in Read(TailStart, Window) :
        IF got = Failed THEN Give("source")
        ELSE IF EndRecords(got) = {} THEN Give("missingEocd")
        ELSE /\ eocd' = Max(EndRecords(got))
             /\ end' = [n \in DOMAIN end |-> archive.at[eocd'][n]]
             /\ pc' = IF LocatorFits(eocd') /\ IsA("locator", eocd' - LocatorSize) THEN "end64"
                      ELSE IF /\ LocatorFits(eocd')
                              /\ end'.count = Sentinel16 \/ end'.offset = Sentinel
                      THEN "invalidZip64" ELSE "central"
             /\ UNCHANGED << central, cursor, entries >>
  BY DEF ReadTail
<1>3. TypeOK /\ ArchiveRead /\ archive.length \in Nat
  BY ListFacts DEF ListInv
<1>4. CASE got = Failed
  <2>1. pc' = "source"
    BY <1>2, <1>4 DEF Give
  <2>. QED
    BY <1>1, <2>1, GivingUp DEF Errors
<1>5. CASE got # Failed /\ EndRecords(got) = {}
  <2>1. pc' = "missingEocd"
    BY <1>2, <1>5 DEF Give
  <2>2. ASSUME archive.damage \in Followable PROVE fileLen < archive.length
    <3>1. SUFFICES ASSUME ~ (fileLen < archive.length) PROVE FALSE
      OBVIOUS
    <3>2. Listable(archive)
      BY <2>2 DEF ZipInv, ArchiveJudged
    <3>3. fileLen <= size
      BY <1>1 DEF ZipInv, FollowInv, SizeKept
    <3>4. fileLen = size /\ size = archive.length
      BY <3>1, <3>3, ListFacts
    <3>5. got = Window /\ TailStart + got = archive.length
      <4>1. TailStart \in Nat /\ Window \in Nat /\ TailStart + Window = size
        BY TailFacts
      <4>2. got = Window
        BY <1>3, <1>5, <3>4, <4>1, WholeRead
      <4>. QED
        BY <3>4, <4>1, <4>2
    <3>. DEFINE e == EndOf(archive)
    <3>6. OfKind(archive, "end") = {e} /\ e + EndSize <= archive.length
      BY <1>3, <3>2, ListableFacts
    <3>7. e >= TailStart
      BY <3>2, TailHoldsLocator
    <3>. HIDE DEF e
    <3>8. e \in EndRecords(got)
      BY <3>5, <3>6, <3>7 DEF EndRecords, IsA, OfKind
    <3>. QED
      BY <1>5, <3>8
  <2>. QED
    BY <1>1, <2>1, <2>2, GivingUp DEF Errors
<1>6. CASE got # Failed /\ EndRecords(got) # {}
  <2>1. /\ eocd' = Max(EndRecords(got))
        /\ end' = [n \in DOMAIN end |-> archive.at[eocd'][n]]
        /\ pc' = IF LocatorFits(eocd') /\ IsA("locator", eocd' - LocatorSize) THEN "end64"
                 ELSE IF /\ LocatorFits(eocd')
                         /\ end'.count = Sentinel16 \/ end'.offset = Sentinel
                 THEN "invalidZip64" ELSE "central"
        /\ UNCHANGED << central, cursor, entries >>
    BY <1>2, <1>6
  <2>2. eocd' \in OfKind(archive, "end")
    <3>1. got \in Nat /\ got <= Window
      <4>1. TailStart \in Nat /\ Window \in Nat
        BY TailFacts
      <4>. QED
        BY <1>3, <1>6, <4>1, ReadFacts
    <3>2. EndRecords(got) \in SUBSET (0 .. archive.length)
      <4>1. ASSUME NEW o \in EndRecords(got) PROVE o \in 0 .. archive.length
        <5>1. o \in OfKind(archive, "end") /\ o + EndSize <= TailStart + got
          BY DEF EndRecords, IsA
        <5>2. o \in Nat
          BY <1>3, <5>1, RecordsAreTyped
        <5>3. TailStart \in Nat /\ Window \in Nat /\ TailStart + Window = size
              /\ size <= archive.length
          BY TailFacts, ListFacts
        <5>. QED
          BY <1>3, <3>1, <5>1, <5>2, <5>3 DEF EndSize
      <4>. QED
        BY <4>1
    <3>3. eocd' \in EndRecords(got)
      BY <1>3, <1>6, <2>1, <3>2, MaxIsGreatest
    <3>. QED
      BY <3>3 DEF EndRecords, IsA
  <2>3. end' = NumbersOf(archive.at[eocd'])
    BY <1>3, <2>1, NumbersTaken
  <2>4. IsA("locator", eocd' - LocatorSize) <=> HasLocator(archive, eocd')
    BY DEF IsA, HasLocator
  <2>5. ASSUME archive.damage \in Followable
        PROVE  /\ eocd' = EndOf(archive) /\ pc' # "invalidZip64"
               /\ pc' = "central" => end' = NumbersOf(DirectoryOf(archive))
    <3>. DEFINE e == EndOf(archive)
                n == DirectoryOf(archive)
    <3>1. Listable(archive)
      BY <2>5 DEF ZipInv, ArchiveJudged
    <3>2. /\ OfKind(archive, "end") = {e}
          /\ ~ HasLocator(archive, e) =>
               n = archive.at[e] /\ n.count # Sentinel16 /\ n.offset # Sentinel
      BY <1>3, <3>1, ListableFacts
    <3>3. HasLocator(archive, e) => LocatorFits(e)
      BY <3>1, TailHoldsLocator
    <3>. HIDE DEF e, n
    <3>4. eocd' = e
      BY <2>2, <3>2
    <3>5. CASE HasLocator(archive, e)
      <4>1. pc' = "end64"
        BY <2>1, <2>4, <3>3, <3>4, <3>5
      <4>. QED
        BY <3>4, <4>1 DEF e
    <3>6. CASE ~ HasLocator(archive, e)
      <4>1. end' = NumbersOf(n)
        BY <2>3, <3>2, <3>4, <3>6
      <4>2. end'.count = n.count /\ end'.offset = n.offset
        BY <4>1 DEF NumbersOf
      <4>3. pc' = "central"
        BY <2>1, <2>4, <3>2, <3>4, <3>6, <4>2
      <4>. QED
        BY <3>4, <4>1, <4>3 DEF e, n
    <3>. QED
      BY <3>5, <3>6
  <2>6. CASE pc' = "invalidZip64"
    <3>1. archive.damage \notin Followable
      BY <2>5, <2>6
    <3>. QED
      BY <1>1, <2>6, <3>1, GivingUp DEF Errors
  <2>7. CASE pc' \in {"end64", "central"}
    <3>1. ArchiveJudged'
      BY <1>1, JudgementStays DEF ZipInv
    <3>2. Found'
      <4>1. pc' = "end64" => HasLocator(archive, eocd')
        BY <2>1, <2>4
      <4>2. eocd' \in Directories(archive)
        BY <2>2 DEF Directories
      <4>. QED
        BY <1>1, <2>2, <2>3, <4>1, <4>2 DEF Found
    <3>3. Held' /\ Walked' /\ AllWalked' /\ SizeKept'
      BY <1>1, <2>7 DEF ZipInv, FollowInv, Held, Walked, AllWalked, SizeKept
    <3>4. PathInv'
      <4>1. pc' \notin Errors \cup {"trap", "entries", "ok"}
        BY <2>7 DEF Errors
      <4>. QED
        BY <1>1, <2>5, <4>1 DEF PathInv, OnWritersPath
    <3>. QED
      BY <3>1, <3>2, <3>3, <3>4 DEF ZipInv, FollowInv
  <2>. QED
    BY <2>1, <2>6, <2>7
<1>. QED
  BY <1>4, <1>5, <1>6

LEMMA ReadEnd64KeepsZipInv ==
  ASSUME ListInv, ZipInv, ReadEnd64, document' = document
  PROVE  ZipInv'
<1>1. /\ pc = "end64" /\ UNCHANGED << archive, fileLen, size >>
  BY DEF ReadEnd64
<1>2. PICK got \in Read(End64At, End64Size) :
        IF got = Failed THEN Give("source")
        ELSE IF got < End64Size \/ ~ IsA("end64", End64At) THEN Give("invalidZip64")
        ELSE /\ end' = [n \in DOMAIN end |-> archive.at[End64At][n]]
             /\ pc' = "central"
             /\ UNCHANGED << eocd, central, cursor, entries >>
  BY DEF ReadEnd64
<1>3. TypeOK /\ ArchiveRead /\ archive.length \in Nat
  BY ListFacts DEF ListInv
<1>4. eocd \in OfKind(archive, "end") /\ HasLocator(archive, eocd)
  BY <1>1 DEF ZipInv, FollowInv, Found
<1>5. End64At = Located(archive, eocd) /\ End64At \in Nat
  <2>1. archive.at[eocd - LocatorSize] \in ArchiveRecords
        /\ archive.at[eocd - LocatorSize].kind = "locator"
    BY <1>3, <1>4, RecordsAreTyped DEF HasLocator
  <2>2. archive.at[eocd - LocatorSize].offset \in Numbers
    BY <2>1 DEF ArchiveRecords
  <2>. QED
    BY <2>2, ConstantNumbers DEF End64At, Located, Numbers
<1>6. CASE got = Failed
  <2>1. pc' = "source"
    BY <1>2, <1>6 DEF Give
  <2>. QED
    BY <1>1, <2>1, GivingUp DEF Errors
<1>7. CASE got # Failed /\ (got < End64Size \/ ~ IsA("end64", End64At))
  <2>1. pc' = "invalidZip64"
    BY <1>2, <1>7 DEF Give
  <2>2. ASSUME archive.damage \in Followable PROVE fileLen < archive.length
    <3>1. SUFFICES ASSUME ~ (fileLen < archive.length) PROVE FALSE
      OBVIOUS
    <3>2. Listable(archive) /\ eocd = EndOf(archive)
      BY <1>1, <2>2 DEF ZipInv, ArchiveJudged, PathInv, OnWritersPath
    <3>3. fileLen <= size
      BY <1>1 DEF ZipInv, FollowInv, SizeKept
    <3>4. fileLen = size /\ size = archive.length
      BY <3>1, <3>3, ListFacts
    <3>5. End64At \in OfKind(archive, "end64") /\ End64At + End64Size <= archive.length
      BY <1>3, <1>4, <1>5, <3>2, ListableFacts
    <3>6. End64Size \in Nat
      BY DEF End64Size
    <3>7. got = End64Size
      BY <1>3, <1>5, <1>7, <3>4, <3>5, <3>6, WholeRead
    <3>8. IsA("end64", End64At)
      BY <3>5 DEF IsA
    <3>. QED
      BY <1>7, <3>6, <3>7, <3>8
  <2>. QED
    BY <1>1, <2>1, <2>2, GivingUp DEF Errors
<1>8. CASE IsA("end64", End64At) /\ /\ end' = [n \in DOMAIN end |-> archive.at[End64At][n]]
                                    /\ pc' = "central"
                                    /\ UNCHANGED << eocd, central, cursor, entries >>
  <2>1. End64At \in Directories(archive)
    BY <1>4, <1>5, <1>8 DEF IsA, Directories
  <2>2. end' = NumbersOf(archive.at[End64At])
    BY <1>3, <1>8, NumbersTaken
  <2>3. ArchiveJudged'
    BY <1>1, JudgementStays DEF ZipInv
  <2>4. Found' /\ Held' /\ Walked' /\ AllWalked' /\ SizeKept'
    BY <1>1, <1>8, <2>1, <2>2 DEF ZipInv, FollowInv, Found, Held, Walked, AllWalked, SizeKept
  <2>5. PathInv'
    <3>1. ASSUME archive.damage \in Followable PROVE end' = NumbersOf(DirectoryOf(archive))
      <4>1. Listable(archive) /\ eocd = EndOf(archive)
        BY <1>1, <3>1 DEF ZipInv, ArchiveJudged, PathInv, OnWritersPath
      <4>2. DirectoryOf(archive) = archive.at[Located(archive, EndOf(archive))]
        BY <1>3, <1>4, <4>1, ListableFacts
      <4>. QED
        BY <1>5, <2>2, <4>1, <4>2
    <3>2. pc' \notin Errors \cup {"trap", "entries", "ok", "end64"}
      BY <1>8 DEF Errors
    <3>. QED
      BY <1>1, <3>1, <3>2 DEF PathInv, OnWritersPath
  <2>. QED
    BY <2>3, <2>4, <2>5 DEF ZipInv, FollowInv
<1>. QED
  BY <1>2, <1>6, <1>7, <1>8

LEMMA ReadCentralKeepsZipInv ==
  ASSUME ListInv, ZipInv, ReadCentral, document' = document
  PROVE  ZipInv'
<1>1. /\ pc = "central" /\ end.size <= MaxUsize /\ UNCHANGED << archive, fileLen, size >>
  BY DEF ReadCentral
<1>2. PICK got \in Read(end.offset, end.size) :
        IF got = Failed THEN Give("source")
        ELSE IF got # end.size THEN Give("truncated")
        ELSE /\ central' = got
             /\ pc' = IF ReservationTraps THEN "trap" ELSE "entries"
             /\ UNCHANGED << eocd, end, cursor, entries >>
  BY DEF ReadCentral
<1>3. /\ TypeOK /\ ArchiveRead /\ archive.length \in Nat /\ end.offset \in Nat /\ end.size \in Nat
      /\ end.count \in Nat
  BY ListFacts DEF ListInv
<1>4. cursor = 0 /\ entries = << >> /\ HeaderAt = end.offset
  <2>1. cursor = 0 /\ entries = << >>
    BY <1>1 DEF ListInv, NothingListedYet
  <2>. QED
    BY <1>3, <2>1 DEF HeaderAt
<1>. DEFINE n == DirectoryOf(archive)
<1>5. ASSUME archive.damage \in Followable
      PROVE  /\ Listable(archive) /\ end = NumbersOf(n)
             /\ end.offset = n.offset /\ end.size = n.size /\ end.count = n.count
             /\ end.offset + end.size <= archive.length /\ end.count <= MaxReserve
  <2>1. Listable(archive) /\ end = NumbersOf(n)
    BY <1>1, <1>5 DEF ZipInv, ArchiveJudged, PathInv, OnWritersPath
  <2>2. n.offset + n.size <= archive.length /\ n.count <= MaxReserve
    BY <1>3, <2>1, ListableFacts
  <2>. HIDE DEF n
  <2>. QED
    BY <2>1, <2>2 DEF NumbersOf
<1>. HIDE DEF n
<1>6. CASE got = Failed
  <2>1. pc' = "source"
    BY <1>2, <1>6 DEF Give
  <2>. QED
    BY <1>1, <2>1, GivingUp DEF Errors
<1>7. CASE got # Failed /\ got # end.size
  <2>1. pc' = "truncated"
    BY <1>2, <1>7 DEF Give
  <2>2. ASSUME archive.damage \in Followable PROVE fileLen < archive.length
    <3>1. SUFFICES ASSUME ~ (fileLen < archive.length) PROVE FALSE
      OBVIOUS
    <3>2. fileLen <= size
      BY <1>1 DEF ZipInv, FollowInv, SizeKept
    <3>3. fileLen = size /\ size = archive.length
      BY <3>1, <3>2, ListFacts
    <3>4. end.offset + end.size <= size
      BY <1>5, <2>2, <3>3
    <3>. QED
      BY <1>3, <1>7, <3>3, <3>4, WholeRead
  <2>. QED
    BY <1>1, <2>1, <2>2, GivingUp DEF Errors
<1>8. CASE got # Failed /\ got = end.size /\ ReservationTraps
  <2>1. pc' = "trap"
    BY <1>2, <1>8
  <2>2. archive.damage \notin Followable
    <3>1. SUFFICES ASSUME archive.damage \in Followable PROVE FALSE
      OBVIOUS
    <3>. QED
      BY <1>3, <1>5, <1>8, <3>1, ConstantNumbers DEF ReservationTraps
  <2>. QED
    BY <1>1, <2>1, <2>2, GivingUp
<1>9. CASE got # Failed /\ got = end.size /\ ~ ReservationTraps
  <2>1. /\ pc' = "entries" /\ central' = end.size
        /\ UNCHANGED << eocd, end, cursor, entries >>
    BY <1>2, <1>9
  <2>2. ArchiveJudged'
    BY <1>1, JudgementStays DEF ZipInv
  <2>3. Found' /\ SizeKept' /\ AllWalked'
    BY <1>1, <2>1 DEF ZipInv, FollowInv, Found, SizeKept, AllWalked
  <2>4. Held'
    <3>1. end.size > 0 => end.offset + end.size <= size
      BY <1>3, <1>9, ReadFacts
    <3>2. size \in Nat /\ size <= archive.length
      BY ListFacts
    <3>. QED
      BY <1>1, <1>3, <2>1, <3>1, <3>2 DEF Held
  <2>5. Walked'
    <3>1. WalkedOver({})
      <4>1. Adjoin(archive, {}, end.offset, HeaderAt)
        BY <1>4 DEF Adjoin
      <4>2. IsFiniteSet({}) /\ Cardinality({}) = 0
        BY FS_EmptySet
      <4>. QED
        BY <1>4, <4>1, <4>2 DEF WalkedOver
    <3>2. WalkedOver({})' /\ {} \in SUBSET (Headers')
      BY <1>1, <2>1, <3>1 DEF WalkedOver, HeaderAt, EndAt, Headers
    <3>. QED
      BY <3>2 DEF Walked
  <2>6. PathInv'
    <3>1. SUFFICES ASSUME archive.damage \in Followable PROVE OnWritersPath'
      BY <1>1 DEF PathInv
    <3>2. Listable(archive) /\ end = NumbersOf(n) /\ end.offset = n.offset /\ end.size = n.size
      BY <1>5, <3>1
    <3>3. Adjoin(archive, Headers, n.offset, DirectoryEnd) /\ DirectoryEnd \in Nat
      BY <1>3, <3>2, ListableFacts DEF n
    <3>4. HeaderAt \in Headers \cup {DirectoryEnd}
      BY <1>4, <3>2, <3>3 DEF Adjoin
    <3>5. Before(HeaderAt) = {}
      BY <1>3, <1>4, <3>2, <3>3, HeadersAreFinite
    <3>6. Len(entries) = Cardinality(Before(HeaderAt))
      BY <1>4, <3>5, FS_EmptySet
    <3>7. \A i \in 1 .. Len(entries) : entries[i] = archive.written[i]
      BY <1>4
    <3>8. pc' \notin Errors \cup {"trap", "end64"}
      BY <2>1 DEF Errors
    <3>9. /\ HeaderAt' = HeaderAt /\ Headers' = Headers /\ DirectoryEnd' = DirectoryEnd
          /\ Before(HeaderAt)' = Before(HeaderAt)
      BY <1>1, <2>1 DEF HeaderAt, Headers, DirectoryEnd, Before
    <3>. QED
      BY <1>1, <2>1, <3>2, <3>4, <3>6, <3>7, <3>8, <3>9 DEF OnWritersPath, n
  <2>. QED
    BY <2>2, <2>3, <2>4, <2>5, <2>6 DEF ZipInv, FollowInv
<1>. QED
  BY <1>6, <1>7, <1>8, <1>9

(* The cursor behind a header is the offset behind it, in the directory. *)
LEMMA CursorIsOffset ==
  ASSUME ListInv, HeaderAt \in Headers
  PROVE  LET h == archive.at[HeaderAt]
         IN  /\ HeaderAt = end.offset + cursor /\ HeaderAt \in Nat /\ end.offset <= HeaderAt
             /\ NextCursor(h) \in Nat /\ EndAt(HeaderAt) = end.offset + NextCursor(h)
             /\ cursor + CentralSize <= NextCursor(h)
<1>. DEFINE h == archive.at[HeaderAt]
<1>1. h \in ArchiveRecords /\ h.kind = "central"
  BY RecordsAreTyped DEF Headers, ListInv
<1>2. h.nameLen \in Nat /\ h.extraLen \in Nat /\ h.commentLen \in Nat
  BY <1>1 DEF ArchiveRecords
<1>3. end.offset \in Nat /\ cursor \in Nat
  BY ListFacts
<1>4. HeaderAt = end.offset + cursor
  BY DEF HeaderAt
<1>5. /\ EndAt(HeaderAt) = HeaderAt + CentralSize + h.nameLen + h.extraLen + h.commentLen
      /\ NextCursor(h) = cursor + CentralSize + h.nameLen + h.extraLen + h.commentLen
  BY DEF EndAt, HeaderEnd, NextCursor
<1>. HIDE DEF h
<1>. DEFINE Sums(a, c, i, j, k) ==
       /\ c + CentralSize + i + j + k \in Nat /\ a + c \in Nat /\ a <= a + c
       /\ (a + c) + CentralSize + i + j + k = a + (c + CentralSize + i + j + k)
       /\ c + CentralSize <= c + CentralSize + i + j + k
<1>6. \A a, c, i, j, k \in Nat : Sums(a, c, i, j, k)
  BY DEF CentralSize
<1>. HIDE DEF Sums
<1>7. Sums(end.offset, cursor, h.nameLen, h.extraLen, h.commentLen)
  BY <1>2, <1>3, <1>6
<1>. QED
  BY <1>4, <1>5, <1>7 DEF Sums, h

(* The next header of an archive on its writer's path, and the entry it is of. *)
LEMMA ListableHeader ==
  ASSUME ListInv, ZipInv, pc = "entries", Len(entries) < end.count, archive.damage \in Followable
  PROVE  LET h == archive.at[HeaderAt]
             e == archive.written[Len(entries) + 1]
         IN  /\ HeaderAt \in Headers /\ HasHeader /\ NextCursor(h) <= central
             /\ EndAt(HeaderAt) \in Headers \cup {DirectoryEnd}
             /\ Cardinality(Before(EndAt(HeaderAt))) = Len(entries) + 1
             /\ e \in Entries
             /\ Describes(archive, h, e)
<1>. DEFINE n == DirectoryOf(archive)
            to == DirectoryEnd
            h == archive.at[HeaderAt]
            i == Len(entries) + 1
            e == archive.written[i]
<1>1. ArchiveRead /\ Listable(archive)
  BY DEF ListInv, ZipInv, ArchiveJudged
<1>2. /\ end = NumbersOf(n) /\ HeaderAt \in Headers \cup {to}
      /\ Len(entries) = Cardinality(Before(HeaderAt))
      /\ central = end.size
  BY DEF ZipInv, FollowInv, Held, PathInv, OnWritersPath
<1>3. /\ n.offset \in Nat /\ n.size \in Nat /\ n.count \in Nat /\ to \in Nat
      /\ Adjoin(archive, Headers, n.offset, to) /\ to <= n.offset + n.size
      /\ archive.written \in Seq(Entries)
      /\ Cardinality(Headers) = Len(archive.written) /\ n.count <= Len(archive.written)
      /\ \A o \in Headers :
           Describes(archive, archive.at[o], archive.written[Cardinality(UpTo(o))])
  BY <1>1, ListableFacts
<1>. HIDE DEF n, to
<1>4. end.offset = n.offset /\ end.size = n.size /\ end.count = n.count
  BY <1>2 DEF NumbersOf
<1>5. Before(to) = Headers
  BY <1>1, <1>3, HeadersAreFinite
<1>6. Len(entries) \in Nat
  BY ListFacts
<1>7. HeaderAt \in Headers
  <2>1. SUFFICES ASSUME HeaderAt = to PROVE FALSE
    BY <1>2
  <2>2. Len(entries) = Len(archive.written)
    BY <1>2, <1>3, <1>5, <2>1
  <2>. QED
    BY <1>3, <1>4, <1>6, <2>2
<1>8. /\ Before(EndAt(HeaderAt)) = UpTo(HeaderAt)
      /\ Cardinality(UpTo(HeaderAt)) = i
      /\ EndAt(HeaderAt) \in Headers \cup {to} /\ EndAt(HeaderAt) <= to
  BY <1>1, <1>2, <1>3, <1>7, NextOfHeaders
<1>9. /\ HeaderAt \in Nat /\ NextCursor(h) \in Nat
      /\ EndAt(HeaderAt) = end.offset + NextCursor(h)
      /\ cursor + CentralSize <= NextCursor(h)
  BY <1>7, CursorIsOffset
<1>. DEFINE next == NextCursor(h)
<1>10. next <= central
  <2>1. next \in Nat /\ n.offset + next <= to
    BY <1>4, <1>8, <1>9
  <2>. HIDE DEF next
  <2>2. next <= n.size
    BY <1>3, <2>1
  <2>. QED
    BY <1>2, <1>4, <2>2
<1>11. HasHeader
  <2>1. cursor + CentralSize <= central
    <3>1. cursor + CentralSize \in Nat /\ central \in Nat /\ next \in Nat
      BY <1>9, ListFacts DEF CentralSize
    <3>2. cursor + CentralSize <= next
      BY <1>9
    <3>. HIDE DEF next
    <3>. QED
      BY <1>10, <3>1, <3>2
  <2>2. IsA("central", HeaderAt)
    BY <1>7 DEF IsA, Headers
  <2>. QED
    BY <2>1, <2>2 DEF HasHeader
<1>12. e \in Entries
  <2>1. i \in 1 .. Len(archive.written)
    <3>1. Len(archive.written) \in Nat
      BY <1>3
    <3>. QED
      BY <1>3, <1>4, <1>6, <3>1
  <2>. HIDE DEF i
  <2>. QED
    BY <1>3, <2>1
<1>13. Describes(archive, h, e)
  BY <1>3, <1>7, <1>8
<1>. QED
  BY <1>7, <1>8, <1>10, <1>11, <1>12, <1>13 DEF to

(* What is made of a header is the entry it is of. *)
LEMMA DescribedEntry ==
  ASSUME ArchiveRead, NEW h \in ArchiveRecords, h.kind = "central",
         NEW e \in Entries, Describes(archive, h, e)
  PROVE  LET v == Zip64Values(h).v
         IN  /\ Zip64Values(h).ok
             /\ v[3] \in OfKind(archive, "local") /\ v[3] + LocalSize <= archive.length
             /\ DataOffset(h, v[3]) <= MaxU64
             /\ e = [ name |-> h.name, uncompressed |-> v[1],
                      compressed |-> v[2], data |-> DataOffset(h, v[3]) ]
<1>. DEFINE v == Zip64Values(h).v
<1>1. PICK l \in OfKind(archive, "local") :
        /\ l + LocalSize <= archive.length
        /\ Holds(h, << e.uncompressed, e.compressed, l >>)
        /\ e.name = h.name
        /\ e.data = l + LocalSize + archive.at[l].nameLen + archive.at[l].extraLen
  BY DEF Describes
<1>. DEFINE t == << e.uncompressed, e.compressed, l >>
<1>2. Zip64Values(h).ok /\ \A i \in 1 .. 3 : v[i] = t[i]
  <2>. HIDE DEF t
  <2>1. Holds(h, t)
    BY <1>1 DEF t
  <2>. QED
    BY <2>1, IntactValues
<1>3. v[1] = e.uncompressed /\ v[2] = e.compressed /\ v[3] = l
  <2>1. v[1] = t[1] /\ v[2] = t[2] /\ v[3] = t[3]
    BY <1>2
  <2>. HIDE DEF v
  <2>. QED
    BY <2>1
<1>. HIDE DEF v, t
<1>4. DataOffset(h, v[3]) = e.data
  BY <1>1, <1>3 DEF DataOffset
<1>5. e = [ name |-> e.name, uncompressed |-> e.uncompressed,
            compressed |-> e.compressed, data |-> e.data ] /\ e.data \in Numbers
  BY DEF Entries
<1>6. e.data <= MaxU64
  BY <1>5, ConstantNumbers DEF Numbers
<1>. QED
  BY <1>1, <1>2, <1>3, <1>4, <1>5, <1>6 DEF v

LEMMA NextEntryKeepsZipInv ==
  ASSUME ListInv, ZipInv, NextEntry, document' = document
  PROVE  ZipInv'
<1>. DEFINE h == archive.at[HeaderAt]
            z == Zip64Values(h)
            v == z.v
            r == [ name |-> h.name, uncompressed |-> v[1],
                   compressed |-> v[2], data |-> DataOffset(h, v[3]) ]
            e == archive.written[Len(entries) + 1]
<1>1. pc = "entries" /\ Len(entries) < end.count /\ UNCHANGED << archive, fileLen, size >>
  BY DEF NextEntry
<1>2. TypeOK /\ ArchiveRead /\ archive.length \in Nat /\ Len(entries) \in Nat /\ end.offset \in Nat
  BY ListFacts DEF ListInv
<1>3. ASSUME archive.damage \in Followable
      PROVE  /\ HeaderAt \in Headers /\ HasHeader /\ NextCursor(h) <= central /\ z.ok
             /\ EndAt(HeaderAt) \in Headers \cup {DirectoryEnd}
             /\ Cardinality(Before(EndAt(HeaderAt))) = Len(entries) + 1
             /\ v[3] \in OfKind(archive, "local") /\ v[3] + LocalSize <= archive.length
             /\ DataOffset(h, v[3]) <= MaxU64
             /\ r = e
  <2>1. /\ HeaderAt \in Headers /\ HasHeader /\ NextCursor(h) <= central
        /\ EndAt(HeaderAt) \in Headers \cup {DirectoryEnd}
        /\ Cardinality(Before(EndAt(HeaderAt))) = Len(entries) + 1
        /\ e \in Entries /\ Describes(archive, h, e)
    BY <1>1, <1>3, ListableHeader
  <2>2. h \in ArchiveRecords /\ h.kind = "central"
    BY <1>2, <2>1, RecordsAreTyped DEF Headers
  <2>. HIDE DEF h, e
  <2>3. /\ z.ok /\ v[3] \in OfKind(archive, "local") /\ v[3] + LocalSize <= archive.length
        /\ DataOffset(h, v[3]) <= MaxU64 /\ e = r
    BY <1>2, <2>1, <2>2, DescribedEntry
  <2>. QED
    BY <2>1, <2>3
<1>4. CASE /\ ~ (HasHeader /\ NextCursor(h) <= central /\ z.ok)
           /\ Give("damaged") \/ Give("truncated") \/ Give("invalidZip64")
  <2>1. archive.damage \notin Followable
    BY <1>3, <1>4
  <2>2. pc' \in {"damaged", "truncated", "invalidZip64"}
    BY <1>4 DEF Give
  <2>. QED
    BY <1>1, <2>1, <2>2, GivingUp DEF Errors
<1>5. CASE HasHeader /\ NextCursor(h) <= central /\ z.ok /\ ReadLocal(h, v)
  <2>1. PICK got \in Read(v[3], LocalSize) :
          IF got = Failed THEN Give("source")
          ELSE IF \/ got < LocalSize \/ ~ IsA("local", v[3])
                  \/ DataOffset(h, v[3]) > MaxU64 THEN Give("damaged")
          ELSE /\ entries' = Append(entries, r)
               /\ cursor' = NextCursor(h)
               /\ UNCHANGED << eocd, end, central, pc >>
    BY <1>5 DEF ReadLocal
  <2>2. HeaderAt \in Headers
    BY <1>5 DEF HasHeader, IsA, Headers
  <2>3. h \in ArchiveRecords /\ h.kind = "central"
    BY <1>2, <2>2, RecordsAreTyped DEF Headers
  <2>4. v[3] \in Nat
    <3>1. v \in [1 .. 3 -> Numbers]
      BY <1>5, <2>3, Zip64ValuesTyped
    <3>. HIDE DEF v
    <3>2. v[3] \in Numbers
      BY <3>1
    <3>. QED
      BY <3>2, ConstantNumbers DEF Numbers
  <2>5. CASE got = Failed
    <3>1. pc' = "source"
      BY <2>1, <2>5 DEF Give
    <3>. QED
      BY <1>1, <3>1, GivingUp DEF Errors
  <2>6. CASE got # Failed /\ (got < LocalSize \/ ~ IsA("local", v[3]) \/ DataOffset(h, v[3]) > MaxU64)
    <3>1. pc' = "damaged"
      BY <2>1, <2>6 DEF Give
    <3>2. ASSUME archive.damage \in Followable PROVE fileLen < archive.length
      <4>1. SUFFICES ASSUME ~ (fileLen < archive.length) PROVE FALSE
        OBVIOUS
      <4>2. fileLen <= size
        BY <1>1 DEF ZipInv, FollowInv, SizeKept
      <4>3. fileLen = size /\ size = archive.length
        BY <4>1, <4>2, ListFacts
      <4>4. v[3] \in OfKind(archive, "local") /\ v[3] + LocalSize <= size
            /\ DataOffset(h, v[3]) <= MaxU64
        BY <1>3, <3>2, <4>3
      <4>5. LocalSize \in Nat
        BY DEF LocalSize
      <4>. HIDE DEF v
      <4>6. got = LocalSize
        BY <1>2, <2>4, <2>6, <4>3, <4>4, <4>5, WholeRead
      <4>7. IsA("local", v[3])
        BY <4>4 DEF IsA
      <4>. DEFINE d == DataOffset(h, v[3])
      <4>8. archive.at[v[3]].nameLen \in Nat /\ archive.at[v[3]].extraLen \in Nat
        <5>1. archive.at[v[3]] \in ArchiveRecords /\ archive.at[v[3]].kind = "local"
          BY <1>2, <4>4, RecordsAreTyped
        <5>. QED
          BY <5>1 DEF ArchiveRecords
      <4>9. d \in Nat
        BY <2>4, <4>8 DEF DataOffset, LocalSize
      <4>. HIDE DEF d
      <4>10. ~ (d > MaxU64)
        BY <4>4, <4>9, ConstantNumbers DEF d
      <4>. QED
        BY <2>6, <4>5, <4>6, <4>7, <4>10 DEF d
    <3>. QED
      BY <1>1, <3>1, <3>2, GivingUp DEF Errors
  <2>7. CASE /\ IsA("local", v[3]) /\ entries' = Append(entries, r)
             /\ cursor' = NextCursor(h) /\ UNCHANGED << eocd, end, central, pc >>
    <3>1. ArchiveJudged'
      BY <1>1, JudgementStays DEF ZipInv
    <3>2. Found' /\ Held' /\ AllWalked' /\ SizeKept'
      BY <1>1, <2>7 DEF ZipInv, FollowInv, Found, Held, AllWalked, SizeKept
    <3>3. /\ HeaderAt \in Nat /\ end.offset <= HeaderAt
          /\ EndAt(HeaderAt) = end.offset + NextCursor(h)
      BY <2>2, CursorIsOffset
    <3>4. HeaderAt' = EndAt(HeaderAt)
      BY <2>7, <3>3 DEF HeaderAt
    <3>5. entries \in Seq(Entries)
      BY <1>2 DEF TypeOK
    <3>6. /\ Len(entries') = Len(entries) + 1 /\ entries'[Len(entries) + 1] = r
          /\ \A i \in 1 .. Len(entries) : entries'[i] = entries[i]
      <4>. HIDE DEF r
      <4>. QED
        BY <2>7, <3>5
    <3>7. Walked'
      <4>1. PICK V \in SUBSET Headers : WalkedOver(V)
        BY <1>1 DEF ZipInv, FollowInv, Walked
      <4>. DEFINE W == V \cup {HeaderAt}
      <4>2. IsFiniteSet(V) /\ Cardinality(V) = Len(entries)
            /\ Adjoin(archive, V, end.offset, HeaderAt)
            /\ \A o \in V : CanBeRead(archive, archive.at[o])
        BY <4>1 DEF WalkedOver
      <4>3. /\ Adjoin(archive, W, end.offset, EndAt(HeaderAt))
            /\ IsFiniteSet(W) /\ Cardinality(W) = Cardinality(V) + 1
        BY <1>2, <2>2, <3>3, <4>2, PathGrows
      <4>4. CanBeRead(archive, h)
        <5>1. /\ \A k \in 1 .. Len(h.extra) :
                   BlockAt(h)[k - 1] + 4 <= h.extraLen => BlockAt(h)[k] <= h.extraLen
              /\ v[3] \in MayLieAt(h)
          <6>. HIDE DEF h
          <6>. QED
            BY <1>5, <2>3, ValuesCanBeRead
        <5>2. v[3] \in OfKind(archive, "local")
          BY <2>7 DEF IsA
        <5>. HIDE DEF v, h
        <5>. QED
          BY <5>1, <5>2 DEF CanBeRead
      <4>5. \A o \in W : CanBeRead(archive, archive.at[o])
        BY <4>2, <4>4
      <4>6. EndAt(HeaderAt) \in { EndAt(o) : o \in W } /\ W \in SUBSET Headers
        BY <2>2
      <4>. HIDE DEF W
      <4>7. /\ W \in SUBSET (Headers') /\ IsFiniteSet(W) /\ Cardinality(W) = Len(entries')
            /\ Adjoin(archive', W, end'.offset, HeaderAt')
            /\ HeaderAt' \in { EndAt(o)' : o \in W }
            /\ \A o \in W : CanBeRead(archive', archive'.at[o])
        BY <1>1, <2>7, <3>4, <3>6, <4>2, <4>3, <4>5, <4>6 DEF Headers, EndAt
      <4>. QED
        BY <4>7 DEF Walked, WalkedOver
    <3>8. PathInv'
      <4>1. SUFFICES ASSUME archive.damage \in Followable PROVE OnWritersPath'
        BY <1>1 DEF PathInv
      <4>2. /\ EndAt(HeaderAt) \in Headers \cup {DirectoryEnd}
            /\ Cardinality(Before(EndAt(HeaderAt))) = Len(entries) + 1
            /\ r = e
        BY <1>3, <4>1
      <4>3. /\ end = NumbersOf(DirectoryOf(archive))
            /\ \A i \in 1 .. Len(entries) : entries[i] = archive.written[i]
        BY <1>1, <4>1 DEF ZipInv, PathInv, OnWritersPath
      <4>. HIDE DEF r
      <4>4. \A i \in 1 .. Len(entries') : entries'[i] = archive.written[i]
        <5>1. \A i \in 1 .. Len(entries') : i \in 1 .. Len(entries) \/ i = Len(entries) + 1
          BY <1>2, <3>6
        <5>. QED
          BY <3>6, <4>2, <4>3, <5>1
      <4>5. /\ Headers' = Headers /\ DirectoryEnd' = DirectoryEnd
            /\ Before(HeaderAt)' = Before(EndAt(HeaderAt))
        BY <1>1, <3>4 DEF Headers, DirectoryEnd, Before
      <4>6. pc' = "entries"
        BY <1>1, <2>7
      <4>7. pc' \notin Errors \cup {"trap", "end64"}
        BY <4>6 DEF Errors
      <4>8. /\ HeaderAt' \in Headers' \cup {DirectoryEnd'}
            /\ Len(entries') = Cardinality(Before(HeaderAt)')
        BY <3>4, <3>6, <4>2, <4>5
      <4>9. end' = NumbersOf(DirectoryOf(archive'))
        BY <1>1, <2>7, <4>3
      <4>. QED
        BY <1>1, <4>4, <4>7, <4>8, <4>9 DEF OnWritersPath
    <3>. QED
      BY <3>1, <3>2, <3>7, <3>8 DEF ZipInv, FollowInv
  <2>. QED
    BY <2>1, <2>5, <2>6, <2>7
<1>6. \/ ~ HasHeader /\ Give("damaged")
      \/ HasHeader /\ NextCursor(h) > central /\ Give("truncated")
      \/ HasHeader /\ NextCursor(h) <= central /\ ~ z.ok /\ Give("invalidZip64")
      \/ HasHeader /\ NextCursor(h) <= central /\ z.ok /\ ReadLocal(h, v)
  BY DEF NextEntry
<1>7. ASSUME HasHeader PROVE NextCursor(h) > central => ~ (NextCursor(h) <= central)
  <2>1. HeaderAt \in Headers
    BY <1>7 DEF HasHeader, IsA, Headers
  <2>2. NextCursor(h) \in Nat /\ central \in Nat
    BY <2>1, CursorIsOffset, ListFacts
  <2>. DEFINE next == NextCursor(h)
  <2>3. next \in Nat
    BY <2>2
  <2>. HIDE DEF next
  <2>4. next > central => ~ (next <= central)
    BY <2>2, <2>3
  <2>. QED
    BY <2>4 DEF next
<1>. HIDE DEF h, z, v
<1>. QED
  BY <1>4, <1>5, <1>6, <1>7

LEMMA ListKeepsZipInv ==
  ASSUME ListInv, ZipInv, List, document' = document
  PROVE  ZipInv'
  BY BeginKeepsZipInv, TooShortKeepsZipInv, ReadTailKeepsZipInv, ReadEnd64KeepsZipInv,
     TooLargeKeepsZipInv, ReadCentralKeepsZipInv, NextEntryKeepsZipInv, FinishKeepsZipInv
     DEF List

LEMMA CutKeepsZipInv ==
  ASSUME ListInv, ZipInv, fileLen' \in Nat, fileLen' <= fileLen,
         UNCHANGED << archive, size, eocd, end, central, cursor, entries, reads, pc, document >>
  PROVE  ZipInv'
<1>1. fileLen \in Nat /\ size \in Nat /\ archive.length \in Nat
  BY ListFacts
<1>2. ArchiveJudged'
  BY JudgementStays DEF ZipInv
<1>3. Found' /\ Held' /\ AllWalked'
  BY DEF ZipInv, FollowInv, Found, Held, AllWalked
<1>4. Walked'
  BY DEF ZipInv, FollowInv, Walked, WalkedOver, Headers, HeaderAt, EndAt
<1>5. SizeKept'
  BY <1>1 DEF ZipInv, FollowInv, SizeKept
<1>6. PathInv'
  <2>1. SUFFICES ASSUME archive.damage \in Followable PROVE OnWritersPath'
    BY DEF PathInv
  <2>2. OnWritersPath
    BY <2>1 DEF ZipInv, PathInv
  <2>3. pc' \in Errors \cup {"trap"} => pc' = "source" \/ fileLen' < archive'.length
    BY <1>1, <2>2 DEF OnWritersPath
  <2>. QED
    BY <2>2, <2>3 DEF OnWritersPath, Headers, HeaderAt, Before, DirectoryEnd
<1>. QED
  BY <1>2, <1>3, <1>4, <1>5, <1>6 DEF ZipInv, FollowInv

LEMMA InitIsZipInv ==
  ASSUME InspectInit
  PROVE  ZipInv
<1>1. pc = "call"
  BY DEF InspectInit, ListingBegins
<1>2. ArchiveJudged
  <2>1. CASE archive \in Archives /\ document = DocumentOf(archive)
    <3>1. archive.damage = "none" => Listable(archive) /\ DirectoryOf(archive).count = Len(archive.written)
      BY <2>1, DamageAssumption DEF Intact
    <3>. QED
      BY <2>1, <3>1, DamageAssumption DEF ArchiveJudged, Followable
  <2>2. CASE document \in Documents /\ archive = [NoArchive EXCEPT !.length = document.length]
    <3>1. NoArchive \in [length : {0}, at : {<< >>}, written : {<< >>}, damage : {"noArchive"}]
      BY InspectAssumption
    <3>2. archive.at = << >> /\ archive.damage = "noArchive"
      BY <2>2, <3>1
    <3>3. DOMAIN << >> = {}
      OBVIOUS
    <3>4. OfKind(archive, "end") = {}
      BY <3>2, <3>3 DEF OfKind
    <3>5. Directories(archive) = {}
      BY <3>4 DEF Directories
    <3>6. ~ CanBeFollowed(archive)
      BY <3>5 DEF CanBeFollowed
    <3>. QED
      BY <3>2, <3>6 DEF ArchiveJudged, Followable, Unnoticed
  <2>. QED
    BY <2>1, <2>2 DEF InspectInit
<1>3. FollowInv
  BY <1>1 DEF FollowInv, Found, Held, Walked, AllWalked, SizeKept
<1>4. PathInv
  <2>1. pc \notin Errors \cup {"trap"}
    BY <1>1 DEF Errors
  <2>. QED
    BY <1>1, <2>1 DEF PathInv, OnWritersPath
<1>. QED
  BY <1>2, <1>3, <1>4 DEF ZipInv

(***************************************************************************)
(* What the invariant says of an archive that was listed, or refused.      *)
(***************************************************************************)
LEMMA ListedIsFollowed ==
  ASSUME ListInv, ZipInv, pc = "ok"
  PROVE  CanBeFollowed(archive)
<1>1. PICK d \in Directories(archive) : end = NumbersOf(archive.at[d])
  BY DEF ZipInv, FollowInv, Found
<1>2. PICK V \in SUBSET Headers : WalkedOver(V)
  BY DEF ZipInv, FollowInv, Walked
<1>. DEFINE n == archive.at[d]
            to == HeaderAt
<1>3. end.count = n.count /\ end.size = n.size /\ end.offset = n.offset
  BY <1>1 DEF NumbersOf
<1>. HIDE DEF n
<1>4. n.size > 0 => n.offset + n.size <= archive.length
  BY <1>3 DEF ZipInv, FollowInv, Held
<1>5. Cardinality(V) = n.count
  BY <1>2, <1>3 DEF WalkedOver, ZipInv, FollowInv, AllWalked
<1>6. /\ to \in {n.offset} \cup { HeaderEnd(archive.at[o], o) : o \in V }
      /\ Adjoin(archive, V, n.offset, to)
      /\ \A o \in V : CanBeRead(archive, archive.at[o])
  BY <1>2, <1>3 DEF WalkedOver, EndAt
<1>7. to <= n.offset + n.size
  <2>1. cursor <= end.size /\ cursor \in Nat /\ end.size \in Nat /\ end.offset \in Nat
    BY ListFacts DEF ZipInv, FollowInv, Held
  <2>2. to = end.offset + cursor
    BY DEF HeaderAt
  <2>. HIDE DEF to
  <2>. QED
    BY <1>3, <2>1, <2>2
<1>8. V \in SUBSET OfKind(archive, "central")
  BY <1>2 DEF Headers
<1>. HIDE DEF to
<1>. QED
  BY <1>4, <1>5, <1>6, <1>7, <1>8 DEF CanBeFollowed, n

LEMMA ListedIsFirstWritten ==
  ASSUME ListInv, ZipInv, pc = "ok", archive.damage \in Followable
  PROVE  /\ entries = SubSeq(archive.written, 1, Len(entries))
         /\ archive.damage \in {"none", "largerSize"} => entries = archive.written
<1>1. ArchiveRead /\ Listable(archive)
  BY DEF ListInv, ZipInv, ArchiveJudged
<1>2. /\ end = NumbersOf(DirectoryOf(archive)) /\ Len(entries) = end.count
      /\ \A i \in 1 .. Len(entries) : entries[i] = archive.written[i]
  BY DEF ZipInv, FollowInv, AllWalked, PathInv, OnWritersPath
<1>3. archive.written \in Seq(Entries) /\ DirectoryOf(archive).count <= Len(archive.written)
  BY <1>1, ListableFacts
<1>4. entries \in Seq(Entries)
  BY DEF ListInv, TypeOK
<1>5. Len(entries) = DirectoryOf(archive).count
  BY <1>2 DEF NumbersOf
<1>6. Len(entries) \in Nat /\ Len(archive.written) \in Nat /\ Len(entries) <= Len(archive.written)
  BY <1>3, <1>4, <1>5
<1>7. entries = SubSeq(archive.written, 1, Len(entries))
  <2>. DEFINE first == SubSeq(archive.written, 1, Len(entries))
  <2>1. first \in Seq(Entries) /\ Len(first) = Len(entries)
        /\ \A i \in 1 .. Len(entries) : first[i] = archive.written[i]
    BY <1>3, <1>6, SubSeqProperties
  <2>. HIDE DEF first
  <2>2. entries = first
    BY <1>2, <1>4, <2>1, SeqEqual
  <2>. QED
    BY <2>2 DEF first
<1>8. ASSUME archive.damage \in {"none", "largerSize"} PROVE entries = archive.written
  <2>1. Len(entries) = Len(archive.written)
    BY <1>5, <1>8 DEF ZipInv, ArchiveJudged
  <2>. QED
    BY <1>2, <1>3, <1>4, <2>1, SeqEqual
<1>. QED
  BY <1>7, <1>8

LEMMA ZipInvImplies ==
  ASSUME ListInv, ZipInv
  PROVE  ListedAsWritten /\ IntactIsListed
<1>1. ListedAsWritten
  <2>1. SUFFICES ASSUME pc = "ok", archive.damage # "shortBlock"
                 PROVE  \/ archive.damage \in {"none", "largerSize"} /\ entries = archive.written
                        \/ archive.damage = "smallerCount"
                           /\ entries = SubSeq(archive.written, 1, Len(entries))
    BY DEF ListedAsWritten
  <2>2. archive.damage \in Followable
    BY <2>1, ListedIsFollowed DEF ZipInv, ArchiveJudged
  <2>3. archive.damage \in {"none", "largerSize"} \/ archive.damage = "smallerCount"
    BY <2>2 DEF Followable, Unnoticed
  <2>. QED
    BY <2>1, <2>2, <2>3, ListedIsFirstWritten
<1>2. IntactIsListed
  <2>1. archive.damage = "none" => archive.damage \in Followable
    BY DEF Followable
  <2>. QED
    BY <2>1 DEF IntactIsListed, ZipInv, PathInv, OnWritersPath
<1>. QED
  BY <1>1, <1>2

-----------------------------------------------------------------------------
(***************************************************************************)
(* What is known of the document before anything was read.                 *)
(***************************************************************************)
LEMMA InitIsRead ==
  ASSUME InspectInit
  PROVE  ArchiveRead /\ DocumentRead /\ fileLen = archive.length
<1>1. CASE archive \in Archives /\ document = DocumentOf(archive)
  <2>1. ArchiveRead
    BY <1>1, ZipAssumption DEF ArchiveRead
  <2>2. /\ document.length = archive.length
        /\ document.words = [w \in {"length", "magic"} |-> 0]
        /\ document.magics = [o \in MagicOffsets |-> IF o = 0 THEN FirstMagic(archive) ELSE ""]
    BY <1>1 DEF DocumentOf
  <2>3. document.magics[0] = FirstMagic(archive)
    <3>1. 0 \in MagicOffsets
      BY DEF MagicOffsets
    <3>. QED
      BY <2>2, <3>1
  <2>4. FirstMagic(archive) \notin {"ANDROID!", "VNDRBOOT"}
    BY DEF FirstMagic
  <2>5. [w \in {"length", "magic"} |-> 0] \in [length : Nat, magic : Nat]
    OBVIOUS
  <2>. QED
    BY <2>1, <2>2, <2>3, <2>4, <2>5 DEF DocumentRead, InspectInit
<1>2. CASE document \in Documents /\ archive = [NoArchive EXCEPT !.length = document.length]
  <2>1. /\ document.length \in Nat /\ document.words \in HeaderWords
    BY <1>2, InspectAssumption
  <2>2. NoArchive \in [length : {0}, at : {<< >>}, written : {<< >>}, damage : {"noArchive"}]
    BY InspectAssumption
  <2>3. archive.length = document.length /\ archive.at = << >>
    BY <1>2, <2>2
  <2>4. DOMAIN << >> = {}
    OBVIOUS
  <2>. QED
    BY <2>1, <2>3, <2>4 DEF ArchiveRead, DocumentRead, InspectInit
<1>. QED
  BY <1>1, <1>2 DEF InspectInit

LEMMA InitIsListInv ==
  ASSUME InspectInit
  PROVE  ListInv
<1>1. /\ size = 0 /\ eocd = 0 /\ end = [count |-> 0, size |-> 0, offset |-> 0]
      /\ central = 0 /\ cursor = 0 /\ entries = << >> /\ reads = 0 /\ pc = "call"
  BY DEF InspectInit, ListingBegins
<1>2. ArchiveRead /\ fileLen = archive.length /\ archive.length \in Nat
  BY InitIsRead DEF ArchiveRead
<1>3. 0 \in Numbers
  BY ConstantNumbers DEF Numbers
<1>4. TypeOK
  <2>1. end \in [count : Numbers, size : Numbers, offset : Numbers]
    BY <1>1, <1>3
  <2>2. 0 \in 0 .. MaxUsize
    BY ConstantNumbers
  <2>3. pc \in Reading
    BY <1>1 DEF Reading
  <2>4. entries \in Seq(Entries)
    BY <1>1
  <2>. QED
    BY <1>1, <1>2, <2>1, <2>2, <2>3, <2>4 DEF TypeOK
<1>5. NothingListedYet /\ ReadsCounted /\ ReadsAreBounded
  BY <1>1 DEF NothingListedYet, ReadsCounted, ReadsAreBounded, CentralSize
<1>. QED
  BY <1>2, <1>4, <1>5 DEF ListInv

LEMMA InitIsReportInv ==
  ASSUME InspectInit
  PROVE  ReportInv
<1>1. prefix = 0 /\ report = Detection!NoReport /\ stage = "read"
  BY DEF InspectInit
<1>2. DocumentRead /\ fileLen = document.length /\ document.length \in Nat
  BY InitIsRead DEF ArchiveRead, DocumentRead
<1>3. report.code = 0 /\ report.detail.kind = "unavailable"
  BY <1>1 DEF Detection!NoReport, Detection!Unavailable
<1>4. ReportTyped
  BY <1>1, <1>2, <1>3 DEF ReportTyped, Detection!Prefix
<1>5. PrefixRead /\ Reported /\ Labelled
  BY <1>1 DEF PrefixRead, Reported, Labelled
<1>. QED
  BY <1>2, <1>4, <1>5 DEF ReportInv

-----------------------------------------------------------------------------
(***************************************************************************)
(* The classification of a document by its first n bytes.                  *)
(***************************************************************************)
LEMMA HitsAreChecks ==
  ASSUME NEW d, NEW n \in Nat
  PROVE  /\ Detection!Hits(d, n) \in SUBSET (1 .. 14)
         /\ Detection!Hits(d, n) # {} => Detection!Min(Detection!Hits(d, n)) \in Detection!Hits(d, n)
<1>1. DOMAIN Detection!Checks = 1 .. 14
  BY DEF Detection!Checks
<1>2. Detection!Hits(d, n) \in SUBSET (1 .. 14)
  BY <1>1 DEF Detection!Hits
<1>. DEFINE H == Detection!Hits(d, n)
<1>3. H # {} => Min(H) \in H
  BY <1>2, MinIsLeast
<1>. QED
  BY <1>2, <1>3 DEF Detection!Min, Min

(* The numbers of the k-th magic that is looked for. *)
Known(k, c) ==
  /\ c.code \in 1 .. 12 /\ c.at \in Nat /\ c.bytes \in Nat /\ c.at + c.bytes <= 4100
  /\ c.code = 1 <=> k = 1
  /\ c.code = 2 <=> k = 2

LEMMA CheckIsKnown ==
  ASSUME NEW k \in 1 .. 14
  PROVE  Known(k, Detection!Checks[k])
<1>1. Known(1, Detection!Checks[1])
  BY DEF Known, Detection!Checks
<1>2. Known(2, Detection!Checks[2])
  BY DEF Known, Detection!Checks
<1>3. Known(3, Detection!Checks[3])
  BY DEF Known, Detection!Checks
<1>4. Known(4, Detection!Checks[4])
  BY DEF Known, Detection!Checks
<1>5. Known(5, Detection!Checks[5])
  BY DEF Known, Detection!Checks
<1>6. Known(6, Detection!Checks[6])
  BY DEF Known, Detection!Checks
<1>7. Known(7, Detection!Checks[7])
  BY DEF Known, Detection!Checks
<1>8. Known(8, Detection!Checks[8])
  BY DEF Known, Detection!Checks
<1>9. Known(9, Detection!Checks[9])
  BY DEF Known, Detection!Checks
<1>10. Known(10, Detection!Checks[10])
  BY DEF Known, Detection!Checks
<1>11. Known(11, Detection!Checks[11])
  BY DEF Known, Detection!Checks
<1>12. Known(12, Detection!Checks[12])
  BY DEF Known, Detection!Checks
<1>13. Known(13, Detection!Checks[13])
  BY DEF Known, Detection!Checks
<1>14. Known(14, Detection!Checks[14])
  BY DEF Known, Detection!Checks
<1>15. k \in {1, 2, 3, 4, 5, 6, 7, 8, 9, 10, 11, 12, 13, 14}
  OBVIOUS
<1>. QED
  BY <1>1, <1>2, <1>3, <1>4, <1>5, <1>6, <1>7, <1>8, <1>9, <1>10, <1>11, <1>12, <1>13, <1>14, <1>15

LEMMA MagicsAreKnown ==
  ASSUME NEW k \in 1 .. 14
  PROVE  LET c == Detection!Checks[k]
         IN  /\ c.magic # "" /\ c.at \in MagicOffsets
             /\ c.magic \in {"PKlocal", "PKend"} => c.code = 5
<1>1. Detection!Checks[k].at \in MagicOffsets
  BY DEF Detection!Checks, MagicOffsets
<1>2. Detection!Checks[k].magic \in {"PKlocal", "PKend"} => Detection!Checks[k].code = 5
  BY DEF Detection!Checks
<1>. DEFINE Magics == { "ANDROID!", "VNDRBOOT", "sparse", "CrAU", "PKlocal", "PKend", "0707", "ext4",
                        "EROFS", "F2FS", "DTB", "ELF", "gDla" }
<1>3. Detection!Checks[k].magic \in Magics
  BY DEF Detection!Checks
<1>4. "" \notin Magics
  OBVIOUS
<1>. HIDE DEF Magics
<1>. QED
  BY <1>1, <1>2, <1>3, <1>4

LEMMA FirstChecks ==
  /\ Detection!Checks[1] = [magic |-> "ANDROID!", at |-> 0, bytes |-> 8, code |-> 1]
  /\ Detection!Checks[2] = [magic |-> "VNDRBOOT", at |-> 0, bytes |-> 8, code |-> 2]
  BY DEF Detection!Checks

(* The code is 13 for an init_boot image, else that of the first magic that is hit. *)
LEMMA CodeOfHits ==
  ASSUME NEW d, NEW n \in Nat
  PROVE  /\ Detection!Hits(d, n) = {} => Detection!DetectCode(d, n) = 0
         /\ Detection!Hits(d, n) # {} =>
              \E k \in Detection!Hits(d, n) :
                /\ k \in 1 .. 14 /\ \A j \in Detection!Hits(d, n) : k <= j
                /\ Detection!DetectCode(d, n) =
                     IF /\ k = 1 /\ Detection!BootParses(Detection!Image(d, n))
                        /\ Detection!IsInitBoot(Detection!BootFields(Detection!Image(d, n)))
                     THEN 13 ELSE Detection!Checks[k].code
<1>. DEFINE H == Detection!Hits(d, n)
            k == Detection!Min(H)
<1>1. Detection!Hits(d, n) = {} => Detection!DetectCode(d, n) = 0
  BY DEF Detection!DetectCode
<1>2. ASSUME H # {}
      PROVE  /\ k \in H /\ k \in 1 .. 14 /\ \A j \in H : k <= j
             /\ Detection!DetectCode(d, n) =
                  IF /\ k = 1 /\ Detection!BootParses(Detection!Image(d, n))
                     /\ Detection!IsInitBoot(Detection!BootFields(Detection!Image(d, n)))
                  THEN 13 ELSE Detection!Checks[k].code
  <2>1. H \in SUBSET (1 .. 14)
    BY HitsAreChecks
  <2>2. k = Min(H)
    BY DEF Detection!Min, Min
  <2>3. k \in H /\ \A j \in H : k <= j
    <3>1. H \in SUBSET Nat /\ H # {}
      BY <1>2, <2>1
    <3>. HIDE DEF H
    <3>. QED
      BY <2>2, <3>1, MinIsLeast
  <2>4. k \in 1 .. 14
    BY <2>1, <2>3
  <2>5. Detection!Checks[k].code = 1 <=> k = 1
    BY <2>4, CheckIsKnown DEF Known
  <2>6. Detection!DetectCode(d, n) =
          IF /\ Detection!Checks[k].code = 1 /\ Detection!BootParses(Detection!Image(d, n))
             /\ Detection!IsInitBoot(Detection!BootFields(Detection!Image(d, n)))
          THEN 13 ELSE Detection!Checks[k].code
    BY <1>2 DEF Detection!DetectCode
  <2>. HIDE DEF k, H
  <2>. QED
    BY <2>3, <2>4, <2>5, <2>6
<1>. QED
  BY <1>1, <1>2

LEMMA CodeIsTyped ==
  ASSUME NEW d, NEW n \in Nat
  PROVE  Detection!DetectCode(d, n) \in 0 .. 13
<1>1. CASE Detection!Hits(d, n) = {}
  BY <1>1, CodeOfHits
<1>2. CASE Detection!Hits(d, n) # {}
  <2>1. PICK k \in 1 .. 14 : Detection!DetectCode(d, n) \in {13, Detection!Checks[k].code}
    BY <1>2, CodeOfHits
  <2>2. Detection!Checks[k].code \in 1 .. 12
    BY <2>1, CheckIsKnown DEF Known
  <2>. QED
    BY <2>1, <2>2
<1>. QED
  BY <1>1, <1>2

(* Behind the last magic that is looked for, more bytes change nothing. *)
LEMMA HitsAreEarly ==
  ASSUME NEW d, NEW n \in Nat, NEW m \in Nat, n >= 4100, m >= 4100
  PROVE  Detection!Hits(d, n) = Detection!Hits(d, m)
<1>1. DOMAIN Detection!Checks = 1 .. 14
  BY DEF Detection!Checks
<1>2. ASSUME NEW k \in 1 .. 14
      PROVE  Detection!MagicAt(d, n, Detection!Checks[k]) <=> Detection!MagicAt(d, m, Detection!Checks[k])
  <2>. DEFINE c == Detection!Checks[k]
  <2>1. c.at \in Nat /\ c.bytes \in Nat /\ c.at + c.bytes <= 4100
    BY CheckIsKnown DEF Known
  <2>. HIDE DEF c
  <2>2. n >= c.at + c.bytes /\ m >= c.at + c.bytes
    BY <2>1
  <2>. QED
    BY <2>2 DEF Detection!MagicAt, c
<1>. QED
  BY <1>1, <1>2 DEF Detection!Hits

-----------------------------------------------------------------------------
(***************************************************************************)
(* The headers that are parsed from the first n bytes.                     *)
(***************************************************************************)
(* A header lies in the first bytes that are read and holds its magic. *)
Fits(s) == s \in Int /\ s >= 8 /\ s <= Detection!Prefix

LEMMA SizesFit ==
  /\ \A v \in 0 .. 4 : Fits(HeaderSize[v])
  /\ \A v \in 3 .. 4 : Fits(VendorHeaderSize[v])
<1>1. Detection!MaxHeaderVersion = 4
  BY DEF Detection!MaxHeaderVersion
<1>2. /\ HeaderSize \in [0 .. 4 -> 8 .. Detection!Prefix]
      /\ VendorHeaderSize \in [3 .. 4 -> 8 .. Detection!Prefix]
  BY <1>1, InspectAssumption
<1>3. Detection!Prefix \in Int
  BY DEF Detection!Prefix
<1>4. ASSUME NEW v \in 0 .. 4 PROVE Fits(HeaderSize[v])
  <2>1. HeaderSize[v] \in 8 .. Detection!Prefix
    BY <1>2
  <2>. QED
    BY <1>3, <2>1 DEF Fits
<1>5. ASSUME NEW v \in 3 .. 4 PROVE Fits(VendorHeaderSize[v])
  <2>1. VendorHeaderSize[v] \in 8 .. Detection!Prefix
    BY <1>2
  <2>. QED
    BY <1>3, <2>1 DEF Fits
<1>. QED
  BY <1>4, <1>5

LEMMA PrefixIs == Detection!Prefix = 65536
  BY DEF Detection!Prefix

LEMMA ImageFields ==
  ASSUME NEW d, d.words \in HeaderWords, NEW n \in Nat
  PROVE  LET i == Detection!Image(d, n) w == d.words
         IN  /\ i.length = n /\ i.magic = d.magics[0] /\ i.version = w.version
             /\ i.headerSize = w.headerSize /\ i.page = w.page /\ i.kernel = w.kernel
             /\ i.ramdisk = w.ramdisk /\ i.second = w.second
             /\ i.recoveryDtbo = w.recoveryDtbo /\ i.recoveryDtboOffset = w.recoveryDtboOffset
             /\ i.dtb = w.dtb /\ i.signature = w.signature /\ i.vendorRamdisk = w.vendorRamdisk
             /\ i.table = w.table /\ i.bootconfig = w.bootconfig
  BY DEF Detection!Image, HeaderWords

LEMMA FieldsAreWords ==
  ASSUME NEW d, d.words \in HeaderWords, NEW n \in Nat
  PROVE  /\ Detection!BootFields(Detection!Image(d, n)) = Detection!BootFields(d.words)
         /\ Detection!VendorFields(Detection!Image(d, n)) = Detection!VendorFields(d.words)
<1>. DEFINE i == Detection!Image(d, n)
            w == d.words
<1>1. /\ i.version = w.version
      /\ i.headerSize = w.headerSize /\ i.page = w.page /\ i.kernel = w.kernel
      /\ i.ramdisk = w.ramdisk /\ i.second = w.second
      /\ i.recoveryDtbo = w.recoveryDtbo /\ i.recoveryDtboOffset = w.recoveryDtboOffset
      /\ i.dtb = w.dtb /\ i.signature = w.signature /\ i.vendorRamdisk = w.vendorRamdisk
      /\ i.table = w.table /\ i.bootconfig = w.bootconfig
  BY ImageFields
<1>. HIDE DEF i, w
<1>2. Detection!BootFields(i) = Detection!BootFields(w)
  BY <1>1 DEF Detection!BootFields
<1>3. Detection!VendorFields(i) = Detection!VendorFields(w)
  BY <1>1 DEF Detection!VendorFields
<1>. QED
  BY <1>2, <1>3 DEF i, w

LEMMA MagicOfImage ==
  ASSUME DocumentRead, NEW n \in Nat
  PROVE  Detection!Image(document, n).magic = document.magics[0]
<1>1. CASE document.words \in HeaderWords
  BY <1>1, ImageFields
<1>2. CASE document.words \in [length : Nat, magic : Nat]
  BY <1>2 DEF Detection!Image
<1>. QED
  BY <1>1, <1>2 DEF DocumentRead

(* An image parses with the magic of its kind only, and a document without words has none. *)
LEMMA ParsesByMagic ==
  ASSUME DocumentRead, NEW n \in Nat
  PROVE  LET i == Detection!Image(document, n)
         IN  /\ Detection!BootParses(i) =>
                  document.magics[0] = "ANDROID!" /\ document.words \in HeaderWords /\ n >= 8
             /\ Detection!VendorParses(i) =>
                  document.magics[0] = "VNDRBOOT" /\ document.words \in HeaderWords /\ n >= 8
<1>. DEFINE i == Detection!Image(document, n)
<1>1. i.magic = document.magics[0]
  BY MagicOfImage
<1>2. document.magics[0] \in {"ANDROID!", "VNDRBOOT"} => document.words \in HeaderWords
  BY DEF DocumentRead
<1>3. document.words \in HeaderWords => i.length = n
  BY ImageFields
<1>4. HeaderSize[3] \in Int /\ VendorHeaderSize[3] \in Int /\ HeaderSize[3] >= 8 /\ VendorHeaderSize[3] >= 8
  <2>1. Fits(HeaderSize[3]) /\ Fits(VendorHeaderSize[3])
    BY SizesFit
  <2>. QED
    BY <2>1 DEF Fits
<1>. HIDE DEF i
<1>5. Detection!BootParses(i) => i.magic = "ANDROID!" /\ i.length >= HeaderSize[3]
  BY DEF Detection!BootParses
<1>6. Detection!VendorParses(i) => i.magic = "VNDRBOOT" /\ i.length >= VendorHeaderSize[3]
  BY DEF Detection!VendorParses
<1>7. Detection!BootParses(i) => document.magics[0] = "ANDROID!" /\ document.words \in HeaderWords /\ n >= 8
  BY <1>1, <1>2, <1>3, <1>4, <1>5
<1>8. Detection!VendorParses(i) => document.magics[0] = "VNDRBOOT" /\ document.words \in HeaderWords /\ n >= 8
  BY <1>1, <1>2, <1>3, <1>4, <1>6
<1>. QED
  BY <1>7, <1>8 DEF i

LEMMA LongPrefixParses ==
  ASSUME DocumentRead, NEW n \in Nat, NEW m \in Nat, n >= Detection!Prefix, m >= Detection!Prefix
  PROVE  Detection!HeaderDetails(document, n) = Detection!HeaderDetails(document, m)
<1>. DEFINE i == Detection!Image(document, n)
            j == Detection!Image(document, m)
<1>1. CASE document.words \in HeaderWords
  <2>1. /\ i.length = n /\ i.magic = document.magics[0] /\ i.version = document.words.version
        /\ j.length = m /\ j.magic = document.magics[0] /\ j.version = document.words.version
    BY <1>1, ImageFields
  <2>2. /\ Detection!BootFields(i) = Detection!BootFields(j)
        /\ Detection!VendorFields(i) = Detection!VendorFields(j)
    BY <1>1, FieldsAreWords
  <2>3. document.words.version \in Nat
    BY <1>1 DEF HeaderWords
  <2>. HIDE DEF i, j
  <2>4. ASSUME NEW s, Fits(s) PROVE n >= s /\ m >= s
    BY <2>4, PrefixIs DEF Fits
  <2>5. Detection!MaxHeaderVersion = 4
    BY DEF Detection!MaxHeaderVersion
  <2>. DEFINE ver == document.words.version
  <2>6. Detection!BootParses(i) <=> Detection!BootParses(j)
    <3>1. n >= HeaderSize[3] /\ m >= HeaderSize[3]
      BY <2>4, SizesFit
    <3>2. ver <= 4 => n >= HeaderSize[ver] /\ m >= HeaderSize[ver]
      <4>1. SUFFICES ASSUME ver <= 4 PROVE n >= HeaderSize[ver] /\ m >= HeaderSize[ver]
        OBVIOUS
      <4>2. ver \in 0 .. 4
        BY <2>3, <4>1
      <4>. QED
        BY <2>4, <4>2, SizesFit
    <3>. HIDE DEF ver
    <3>3. Detection!BootParses(i) <=> document.magics[0] = "ANDROID!" /\ ver <= 4
      BY <2>1, <2>5, <3>1, <3>2 DEF Detection!BootParses, ver
    <3>4. Detection!BootParses(j) <=> document.magics[0] = "ANDROID!" /\ ver <= 4
      BY <2>1, <2>5, <3>1, <3>2 DEF Detection!BootParses, ver
    <3>. QED
      BY <3>3, <3>4
  <2>7. Detection!VendorParses(i) <=> Detection!VendorParses(j)
    <3>1. n >= VendorHeaderSize[3] /\ m >= VendorHeaderSize[3]
      BY <2>4, SizesFit
    <3>2. ver \in 3 .. 4 => n >= VendorHeaderSize[ver] /\ m >= VendorHeaderSize[ver]
      BY <2>4, SizesFit
    <3>. HIDE DEF ver
    <3>3. Detection!VendorParses(i) <=> document.magics[0] = "VNDRBOOT" /\ ver \in 3 .. 4
      BY <2>1, <2>5, <3>1, <3>2 DEF Detection!VendorParses, ver
    <3>4. Detection!VendorParses(j) <=> document.magics[0] = "VNDRBOOT" /\ ver \in 3 .. 4
      BY <2>1, <2>5, <3>1, <3>2 DEF Detection!VendorParses, ver
    <3>. QED
      BY <3>3, <3>4
  <2>. QED
    BY <2>2, <2>6, <2>7 DEF Detection!HeaderDetails, i, j
<1>2. CASE document.words \notin HeaderWords
  <2>1. /\ ~ Detection!BootParses(i) /\ ~ Detection!VendorParses(i)
        /\ ~ Detection!BootParses(j) /\ ~ Detection!VendorParses(j)
    BY <1>2, ParsesByMagic
  <2>. QED
    BY <2>1 DEF Detection!HeaderDetails
<1>. QED
  BY <1>1, <1>2

LEMMA LongPrefixDetects ==
  ASSUME DocumentRead, NEW n \in Nat, NEW m \in Nat, n >= Detection!Prefix, m >= Detection!Prefix
  PROVE  Detection!DetectCode(document, n) = Detection!DetectCode(document, m)
<1>. DEFINE i == Detection!Image(document, n)
            j == Detection!Image(document, m)
<1>1. Detection!Hits(document, n) = Detection!Hits(document, m)
  BY PrefixIs, HitsAreEarly
<1>2. Detection!HeaderDetails(document, n) = Detection!HeaderDetails(document, m)
  BY LongPrefixParses
<1>3. /\ Detection!BootParses(i) <=> Detection!BootParses(j)
      /\ Detection!BootParses(i) => Detection!BootFields(i) = Detection!BootFields(j)
  <2>1. \A x : Detection!BootFields(x).kind = "boot"
    BY DEF Detection!BootFields
  <2>2. \A x : Detection!VendorFields(x).kind = "vendor"
    BY DEF Detection!VendorFields
  <2>3. Detection!Unavailable.kind = "unavailable"
    BY DEF Detection!Unavailable
  <2>4. /\ Detection!HeaderDetails(document, n) =
             IF Detection!BootParses(i) THEN Detection!BootFields(i)
             ELSE IF Detection!VendorParses(i) THEN Detection!VendorFields(i) ELSE Detection!Unavailable
        /\ Detection!HeaderDetails(document, m) =
             IF Detection!BootParses(j) THEN Detection!BootFields(j)
             ELSE IF Detection!VendorParses(j) THEN Detection!VendorFields(j) ELSE Detection!Unavailable
    BY DEF Detection!HeaderDetails
  <2>. HIDE DEF i, j
  <2>. QED
    BY <1>2, <2>1, <2>2, <2>3, <2>4
<1>. HIDE DEF i, j
<1>4. \A f : Detection!IsInitBoot(f) <=> f.version >= 4 /\ f.kernel = 0 /\ f.ramdisk > 0
  BY DEF Detection!IsInitBoot
<1>5. /\ Detection!DetectCode(document, n) =
           IF Detection!Hits(document, n) = {} THEN 0
           ELSE IF /\ Detection!Checks[Detection!Min(Detection!Hits(document, n))].code = 1
                   /\ Detection!BootParses(i) /\ Detection!IsInitBoot(Detection!BootFields(i)) THEN 13
           ELSE Detection!Checks[Detection!Min(Detection!Hits(document, n))].code
      /\ Detection!DetectCode(document, m) =
           IF Detection!Hits(document, m) = {} THEN 0
           ELSE IF /\ Detection!Checks[Detection!Min(Detection!Hits(document, m))].code = 1
                   /\ Detection!BootParses(j) /\ Detection!IsInitBoot(Detection!BootFields(j)) THEN 13
           ELSE Detection!Checks[Detection!Min(Detection!Hits(document, m))].code
  BY DEF Detection!DetectCode, i, j
<1>. QED
  BY <1>1, <1>3, <1>5

-----------------------------------------------------------------------------
(***************************************************************************)
(* The names of the codes.                                                 *)
(***************************************************************************)
LEMMA NamesOfCodes ==
  /\ Detection!LabelOf(0) = "unknown"
  /\ Detection!LabelOf(1) = "boot"
  /\ Detection!LabelOf(2) = "vendor_boot"
  /\ Detection!LabelOf(13) = "init_boot"
  BY DEF Detection!LabelOf

LEMMA NamesOfFormats ==
  ASSUME NEW code \in 1 .. 12
  PROVE  Detection!LabelOf(code) \notin {"unknown", "init_boot"}
<1>1. code \in {1, 2, 3, 4, 5, 6, 7, 8, 9, 10, 11, 12}
  OBVIOUS
<1>. QED
  BY <1>1 DEF Detection!LabelOf

(***************************************************************************)
(* The report of any first bytes: its details are those of the image its   *)
(* name is of.                                                             *)
(***************************************************************************)
LEMMA ReportFits ==
  ASSUME DocumentRead, NEW n \in Nat
  PROVE  LET code == Detection!DetectCode(document, n)
             detail == Detection!HeaderDetails(document, n)
             name == Detection!LabelOf(code)
         IN  /\ detail.kind \in {"boot", "vendor", "unavailable"}
             /\ name = "init_boot" <=> detail.kind = "boot" /\ Detection!IsInitBoot(detail)
             /\ detail.kind = "boot" => name \in {"boot", "init_boot"}
             /\ detail.kind = "vendor" => name = "vendor_boot"
             /\ name = "unknown" <=> Detection!Hits(document, n) = {}
<1>. DEFINE i == Detection!Image(document, n)
            code == Detection!DetectCode(document, n)
            detail == Detection!HeaderDetails(document, n)
            name == Detection!LabelOf(code)
            H == Detection!Hits(document, n)
            fits == /\ detail.kind \in {"boot", "vendor", "unavailable"}
                    /\ name = "init_boot" <=> detail.kind = "boot" /\ Detection!IsInitBoot(detail)
                    /\ detail.kind = "boot" => name \in {"boot", "init_boot"}
                    /\ detail.kind = "vendor" => name = "vendor_boot"
                    /\ name = "unknown" <=> H = {}
<1>. SUFFICES fits
  OBVIOUS
<1>1. H = {} => code = 0
  BY CodeOfHits
<1>2. H # {} => \E k \in H : /\ k \in 1 .. 14 /\ \A j \in H : k <= j
                             /\ code = IF k = 1 /\ Detection!BootParses(i)
                                          /\ Detection!IsInitBoot(Detection!BootFields(i))
                                       THEN 13 ELSE Detection!Checks[k].code
  BY CodeOfHits
<1>3. CASE Detection!BootParses(i)
  <2>1. document.magics[0] = "ANDROID!" /\ n >= 8
    BY <1>3, ParsesByMagic
  <2>2. 1 \in H
    <3>1. 1 \in DOMAIN Detection!Checks
      BY DEF Detection!Checks
    <3>2. Detection!MagicAt(document, n, Detection!Checks[1])
      BY <2>1, FirstChecks DEF Detection!MagicAt
    <3>. QED
      BY <3>1, <3>2 DEF Detection!Hits
  <2>3. detail = Detection!BootFields(i)
    BY <1>3 DEF Detection!HeaderDetails
  <2>4. detail.kind = "boot"
    BY <2>3 DEF Detection!BootFields
  <2>5. H \in SUBSET (1 .. 14)
    BY HitsAreChecks
  <2>. HIDE DEF code, detail, H, i
  <2>6. code = IF Detection!IsInitBoot(detail) THEN 13 ELSE Detection!Checks[1].code
    <3>1. PICK k \in 1 .. 14 : /\ \A j \in H : k <= j
                               /\ code = IF k = 1 /\ Detection!BootParses(i)
                                            /\ Detection!IsInitBoot(Detection!BootFields(i))
                                         THEN 13 ELSE Detection!Checks[k].code
      BY <1>2, <2>2
    <3>2. k = 1
      BY <2>2, <3>1
    <3>. QED
      BY <1>3, <2>3, <3>1, <3>2
  <2>7. Detection!Checks[1].code = 1
    BY FirstChecks
  <2>8. name = IF Detection!IsInitBoot(detail) THEN "init_boot" ELSE "boot"
    BY <2>6, <2>7, NamesOfCodes
  <2>. QED
    BY <2>2, <2>4, <2>8
<1>4. CASE ~ Detection!BootParses(i)
  <2>1. H # {} => code \in 1 .. 12
    BY <1>2, <1>4, CheckIsKnown DEF Known
  <2>2. name # "init_boot" /\ (name = "unknown" <=> H = {})
    BY <1>1, <2>1, NamesOfCodes, NamesOfFormats
  <2>3. CASE Detection!VendorParses(i)
    <3>1. document.magics[0] = "VNDRBOOT" /\ n >= 8
      BY <2>3, ParsesByMagic
    <3>2. 2 \in H
      <4>1. 2 \in DOMAIN Detection!Checks
        BY DEF Detection!Checks
      <4>2. Detection!MagicAt(document, n, Detection!Checks[2])
        BY <3>1, FirstChecks DEF Detection!MagicAt
      <4>. QED
        BY <4>1, <4>2 DEF Detection!Hits
    <3>3. 1 \notin H
      <4>1. ~ Detection!MagicAt(document, n, Detection!Checks[1])
        BY <3>1, FirstChecks DEF Detection!MagicAt
      <4>. QED
        BY <4>1 DEF Detection!Hits
    <3>4. detail = Detection!VendorFields(i)
      BY <1>4, <2>3 DEF Detection!HeaderDetails
    <3>5. detail.kind = "vendor"
      BY <3>4 DEF Detection!VendorFields
    <3>. HIDE DEF code, detail, H, i
    <3>6. code = 2
      <4>1. PICK k \in H : /\ k \in 1 .. 14 /\ \A j \in H : k <= j
                           /\ code = Detection!Checks[k].code
        BY <1>2, <1>4, <3>2
      <4>2. k = 2
        BY <3>2, <3>3, <4>1
      <4>. QED
        BY <4>1, <4>2, FirstChecks
    <3>7. name = "vendor_boot"
      BY <3>6, NamesOfCodes
    <3>. QED
      BY <2>2, <3>5, <3>7
  <2>4. CASE ~ Detection!VendorParses(i)
    <3>1. detail.kind = "unavailable"
      BY <1>4, <2>4 DEF Detection!HeaderDetails, Detection!Unavailable
    <3>. QED
      BY <2>2, <3>1
  <2>. QED
    BY <2>3, <2>4
<1>. QED
  BY <1>3, <1>4

-----------------------------------------------------------------------------
(***************************************************************************)
(* The report, step by step.                                               *)
(***************************************************************************)
LEMMA CutKeepsReportInv ==
  ASSUME ReportInv, ListInv, fileLen' \in Nat, fileLen' <= fileLen,
         UNCHANGED << archive, document, prefix, report, label, stage >>
  PROVE  ReportInv'
<1>1. DocumentRead'
  BY DEF ReportInv, DocumentRead
<1>2. ReportTyped'
  <2>1. fileLen \in Nat /\ document.length \in Nat /\ fileLen <= document.length
    BY ListFacts DEF ReportInv, DocumentRead
  <2>2. fileLen' \in 0 .. document'.length
    BY <2>1
  <2>. QED
    BY <2>2 DEF ReportInv, ReportTyped, Detection!Prefix
<1>3. PrefixRead'
  <2>1. fileLen \in Nat /\ prefix \in Nat
    BY ListFacts DEF ReportInv, ReportTyped
  <2>. QED
    BY <2>1 DEF ReportInv, PrefixRead, Detection!Prefix
<1>4. Reported'
  BY DEF ReportInv, Reported
<1>5. Labelled'
  BY DEF ReportInv, Labelled
<1>. QED
  BY <1>1, <1>2, <1>3, <1>4, <1>5 DEF ReportInv

LEMMA ListKeepsFile ==
  ASSUME List
  PROVE  UNCHANGED << archive, fileLen >>
  BY DEF List, Begin, TooShort, ReadTail, ReadEnd64, TooLarge, ReadCentral, NextEntry, Finish

LEMMA ReadPrefixKeepsReportInv ==
  ASSUME ReportInv, ListInv, Detection!ReadPrefix, UNCHANGED zipVars
  PROVE  ReportInv'
<1>1. UNCHANGED << archive, fileLen, document, report, label >>
  BY DEF Detection!ReadPrefix, zipVars
<1>2. fileLen \in Nat /\ fileLen <= document.length
  BY ListFacts DEF ReportInv, DocumentRead
<1>3. DocumentRead'
  BY <1>1 DEF ReportInv, DocumentRead
<1>4. CASE prefix' = Detection!Min({Detection!Prefix, fileLen}) /\ stage' = "inspect"
  <2>1. prefix' = IF Detection!Prefix <= fileLen THEN Detection!Prefix ELSE fileLen
    <3>1. Detection!Prefix \in Nat
      BY PrefixIs
    <3>2. prefix' = Min({Detection!Prefix, fileLen})
      BY <1>4 DEF Detection!Min, Min
    <3>. QED
      BY <1>2, <3>1, <3>2, MinOfTwo
  <2>2. /\ prefix' \in Nat /\ prefix' <= 65536 /\ prefix' <= document.length
        /\ prefix' < 65536 => fileLen <= prefix'
    <3>1. prefix' = IF 65536 <= fileLen THEN 65536 ELSE fileLen
      BY <2>1, PrefixIs
    <3>2. document.length \in Int
      BY DEF ReportInv, DocumentRead, ListInv, ArchiveRead
    <3>. QED
      BY <1>2, <3>1, <3>2
  <2>3. ReportTyped'
    BY <1>1, <1>4, <2>2 DEF ReportInv, ReportTyped, Detection!Prefix
  <2>4. PrefixRead'
    BY <1>1, <2>2 DEF PrefixRead, Detection!Prefix
  <2>5. Reported' /\ Labelled'
    BY <1>4 DEF Reported, Labelled
  <2>. QED
    BY <1>3, <2>3, <2>4, <2>5 DEF ReportInv
<1>5. CASE stage' = "failed" /\ prefix' = prefix
  <2>1. ReportTyped'
    BY <1>1, <1>5 DEF ReportInv, ReportTyped, Detection!Prefix
  <2>2. PrefixRead' /\ Reported' /\ Labelled'
    BY <1>5 DEF PrefixRead, Reported, Labelled
  <2>. QED
    BY <1>3, <2>1, <2>2 DEF ReportInv
<1>. QED
  BY <1>4, <1>5 DEF Detection!ReadPrefix

LEMMA InspectKeepsReportInv ==
  ASSUME ReportInv, ListInv, Detection!Inspect, UNCHANGED zipVars
  PROVE  ReportInv'
<1>1. /\ UNCHANGED << archive, fileLen, document, prefix, label >>
      /\ stage = "inspect" /\ stage' = "show"
      /\ report' = [ code |-> Detection!DetectCode(document, prefix),
                     detail |-> Detection!HeaderDetails(document, prefix) ]
  BY DEF Detection!Inspect, zipVars
<1>2. DocumentRead /\ prefix \in Nat
  BY PrefixIs DEF ReportInv, ReportTyped
<1>3. DocumentRead'
  BY <1>1, <1>2 DEF DocumentRead
<1>4. ReportTyped'
  <2>1. report'.code \in 0 .. 13
    BY <1>1, <1>2, CodeIsTyped
  <2>2. report'.detail.kind \in {"boot", "vendor", "unavailable"}
    BY <1>1, <1>2, ReportFits
  <2>. QED
    BY <1>1, <2>1, <2>2 DEF ReportInv, ReportTyped, Detection!Prefix
<1>5. PrefixRead'
  BY <1>1 DEF ReportInv, PrefixRead, Detection!Prefix
<1>6. Reported'
  BY <1>1 DEF Reported
<1>7. Labelled'
  BY <1>1 DEF Labelled
<1>. QED
  BY <1>3, <1>4, <1>5, <1>6, <1>7 DEF ReportInv

LEMMA ShowKeepsReportInv ==
  ASSUME ReportInv, ListInv, Detection!Show, UNCHANGED zipVars
  PROVE  ReportInv'
<1>1. /\ UNCHANGED << archive, fileLen, document, prefix, report >>
      /\ stage = "show" /\ stage' = "shown"
      /\ label' = Detection!LabelOf(report.code)
  BY DEF Detection!Show, zipVars
<1>2. DocumentRead'
  BY <1>1 DEF ReportInv, DocumentRead
<1>3. ReportTyped'
  BY <1>1 DEF ReportInv, ReportTyped, Detection!Prefix
<1>4. PrefixRead'
  BY <1>1 DEF ReportInv, PrefixRead, Detection!Prefix
<1>5. Reported'
  BY <1>1 DEF ReportInv, Reported
<1>6. Labelled'
  BY <1>1 DEF Labelled
<1>. QED
  BY <1>2, <1>3, <1>4, <1>5, <1>6 DEF ReportInv

-----------------------------------------------------------------------------
(***************************************************************************)
(* The whole block: the two calls touch variables of their own, and the    *)
(* owner of the document only what is left of it.                          *)
(***************************************************************************)
ShownListed == stage = "shown" /\ report.code = ZipCode => pc \notin Reading \cup {"trap"}

IInv == ListInv /\ ReportInv /\ ZipInv /\ ShownListed

LEMMA StutterKeepsIInv ==
  ASSUME IInv, UNCHANGED inspectVars
  PROVE  IInv'
<1>1. /\ UNCHANGED << archive, fileLen, size, eocd, end, central, cursor, entries, reads, pc >>
      /\ UNCHANGED << document, prefix, report, label, stage >>
  BY DEF inspectVars, zipVars, detectVars
<1>2. ListInv /\ ReportInv /\ fileLen \in 0 .. archive.length /\ fileLen \in Nat
  BY ListFacts DEF IInv
<1>3. ListInv'
  BY <1>1, <1>2, CutKeepsListInv
<1>4. ReportInv'
  BY <1>1, <1>2, CutKeepsReportInv
<1>5. ZipInv'
  BY <1>1, <1>2, CutKeepsZipInv DEF IInv
<1>6. ShownListed'
  BY <1>1 DEF IInv, ShownListed
<1>. QED
  BY <1>3, <1>4, <1>5, <1>6 DEF IInv

LEMMA NextKeepsIInv ==
  ASSUME IInv, InspectNext
  PROVE  IInv'
<1>1. ListInv /\ ReportInv /\ fileLen \in 0 .. archive.length /\ fileLen \in Nat
      /\ archive.length \in Nat
  BY ListFacts DEF IInv
<1>2. ASSUME UNCHANGED zipVars PROVE ListInv'
  <2>1. /\ fileLen' \in 0 .. archive.length
        /\ UNCHANGED << archive, size, eocd, end, central, cursor, entries, reads, pc >>
    BY <1>1, <1>2 DEF zipVars
  <2>. QED
    BY <1>1, <2>1, CutKeepsListInv
<1>7. ASSUME UNCHANGED zipVars, UNCHANGED document PROVE ZipInv'
  <2>1. /\ fileLen' \in Nat /\ fileLen' <= fileLen
        /\ UNCHANGED << archive, size, eocd, end, central, cursor, entries, reads, pc, document >>
    BY <1>1, <1>7 DEF zipVars
  <2>. QED
    BY <1>1, <2>1, CutKeepsZipInv DEF IInv
<1>3. CASE Identify
  <2>1. UNCHANGED zipVars /\ (Detection!ReadPrefix \/ Detection!Inspect)
    BY <1>3 DEF Identify
  <2>3. UNCHANGED document /\ stage' # "shown"
    BY <2>1 DEF Detection!ReadPrefix, Detection!Inspect
  <2>4. ZipInv' /\ ShownListed'
    BY <1>7, <2>1, <2>3 DEF ShownListed
  <2>2. ReportInv'
    BY <1>1, <2>1, ReadPrefixKeepsReportInv, InspectKeepsReportInv
  <2>. QED
    BY <1>2, <2>1, <2>2, <2>4 DEF IInv
<1>4. CASE ListEntries
  <2>1. List /\ UNCHANGED << document, prefix, report, label, stage >>
    BY <1>4 DEF ListEntries, detectVars
  <2>2. ListInv'
    BY <1>1, <2>1, ListKeepsListInv
  <2>3. UNCHANGED << archive, fileLen >>
    BY <2>1, ListKeepsFile
  <2>4. ReportInv'
    BY <1>1, <2>1, <2>3, CutKeepsReportInv
  <2>5. ZipInv'
    BY <1>1, <2>1, ListKeepsZipInv DEF IInv
  <2>6. ShownListed'
    BY <1>4, <2>1 DEF ListEntries, ShownListed
  <2>. QED
    BY <2>2, <2>4, <2>5, <2>6 DEF IInv
<1>5. CASE ShowResult
  <2>1. UNCHANGED zipVars /\ Detection!Show
    BY <1>5 DEF ShowResult
  <2>2. ReportInv'
    BY <1>1, <2>1, ShowKeepsReportInv
  <2>3. UNCHANGED << document, report, pc >>
    BY <2>1 DEF Detection!Show, zipVars
  <2>4. ZipInv'
    BY <1>7, <2>1, <2>3
  <2>5. ShownListed'
    BY <1>5, <2>3 DEF ShowResult, Listed, ShownListed, Reading
  <2>. QED
    BY <1>2, <2>1, <2>2, <2>4, <2>5 DEF IInv
<1>6. CASE CutDocument
  <2>1. CASE /\ Detection!Cut
             /\ UNCHANGED << archive, size, eocd, end, central, cursor, entries, reads, pc >>
    <3>1. /\ UNCHANGED << document, prefix, report, label, stage >>
          /\ \E n \in Cuts : n < fileLen /\ fileLen' = n
      BY <2>1 DEF Detection!Cut
    <3>2. fileLen' \in Nat /\ fileLen' <= fileLen
      <4>1. Cuts \subseteq Nat
        BY InspectAssumption
      <4>. QED
        BY <1>1, <3>1, <4>1
    <3>3. fileLen' \in 0 .. archive.length
      BY <1>1, <3>2
    <3>4. ListInv'
      BY <1>1, <2>1, <3>3, CutKeepsListInv
    <3>5. ReportInv'
      BY <1>1, <2>1, <3>1, <3>2, CutKeepsReportInv
    <3>6. ZipInv'
      BY <1>1, <2>1, <3>1, <3>2, CutKeepsZipInv DEF IInv
    <3>7. ShownListed'
      BY <2>1, <3>1 DEF IInv, ShownListed
    <3>. QED
      BY <3>4, <3>5, <3>6, <3>7 DEF IInv
  <2>2. CASE Truncate /\ UNCHANGED detectVars
    <3>1. UNCHANGED << archive, document, prefix, report, label, stage >>
      BY <2>2 DEF Truncate, detectVars
    <3>2. ListInv' /\ fileLen' <= fileLen
      BY <1>1, <2>2, TruncateKeepsListInv
    <3>3. fileLen' \in Nat
      <4>1. fileLen' \in 0 .. archive.length
        BY <3>1, <3>2 DEF ListInv, TypeOK
      <4>. QED
        BY <4>1, <1>1
    <3>4. ReportInv'
      BY <1>1, <3>1, <3>2, <3>3, CutKeepsReportInv
    <3>5. UNCHANGED << size, eocd, end, central, cursor, entries, reads, pc >>
      BY <2>2 DEF Truncate
    <3>6. ZipInv'
      BY <1>1, <3>1, <3>2, <3>3, <3>5, CutKeepsZipInv DEF IInv
    <3>7. ShownListed'
      BY <3>1, <3>5 DEF IInv, ShownListed
    <3>. QED
      BY <3>2, <3>4, <3>6, <3>7 DEF IInv
  <2>. QED
    BY <1>6, <2>1, <2>2 DEF CutDocument
<1>. QED
  BY <1>3, <1>4, <1>5, <1>6 DEF InspectNext

LEMMA IInvHolds == InspectSpec => []IInv
<1>1. InspectInit => IInv
  BY InitIsListInv, InitIsReportInv, InitIsZipInv DEF IInv, ShownListed, InspectInit
<1>2. IInv /\ [InspectNext]_inspectVars => IInv'
  BY StutterKeepsIInv, NextKeepsIInv
<1>. QED
  BY <1>1, <1>2, PTL DEF InspectSpec

(* An archive that begins with a record is known by its first bytes. *)
LEMMA ArchiveCode ==
  ASSUME NEW a, FirstMagic(a) \in {"PKlocal", "PKend"}, NEW n \in Nat, n >= 22
  PROVE  Detection!DetectCode(DocumentOf(a), n) = 5
<1>. DEFINE d == DocumentOf(a)
            H == Detection!Hits(d, n)
<1>1. FirstMagic(a) \in {"PKlocal", "PKend"}
  OBVIOUS
<1>2. \A o \in MagicOffsets : d.magics[o] = IF o = 0 THEN FirstMagic(a) ELSE ""
  BY DEF DocumentOf
<1>3. DOMAIN Detection!Checks = 1 .. 14
  BY DEF Detection!Checks
<1>. HIDE DEF d
<1>4. H \in SUBSET (1 .. 14)
  BY HitsAreChecks
<1>5. ASSUME NEW k \in H
      PROVE  Detection!Checks[k].code = 5
  <2>. DEFINE c == Detection!Checks[k]
  <2>1. /\ c.magic # "" /\ c.at \in MagicOffsets
        /\ c.magic \in {"PKlocal", "PKend"} => c.code = 5
    BY <1>4, <1>5, MagicsAreKnown
  <2>2. d.magics[c.at] = c.magic
    BY <1>5 DEF Detection!Hits, Detection!MagicAt
  <2>. HIDE DEF c
  <2>3. c.magic = FirstMagic(a)
    BY <1>2, <2>1, <2>2
  <2>. QED
    BY <1>1, <2>1, <2>3 DEF c
<1>6. H # {}
  <2>1. /\ Detection!Checks[5] = [magic |-> "PKlocal", at |-> 0, bytes |-> 4, code |-> 5]
        /\ Detection!Checks[6] = [magic |-> "PKend", at |-> 0, bytes |-> 4, code |-> 5]
    BY DEF Detection!Checks
  <2>2. d.magics[0] = FirstMagic(a)
    <3>1. 0 \in MagicOffsets
      BY DEF MagicOffsets
    <3>. QED
      BY <1>2, <3>1
  <2>3. Detection!MagicAt(d, n, Detection!Checks[5]) \/ Detection!MagicAt(d, n, Detection!Checks[6])
    BY <1>1, <2>1, <2>2 DEF Detection!MagicAt
  <2>. QED
    BY <1>3, <2>3 DEF Detection!Hits
<1>7. PICK k \in H :
        Detection!DetectCode(d, n) = IF /\ k = 1 /\ Detection!BootParses(Detection!Image(d, n))
                                        /\ Detection!IsInitBoot(Detection!BootFields(Detection!Image(d, n)))
                                     THEN 13 ELSE Detection!Checks[k].code
  BY <1>6, CodeOfHits
<1>8. k # 1
  BY <1>5, FirstChecks
<1>. QED
  BY <1>5, <1>7, <1>8 DEF d

LEMMA IntactIsFound ==
  ASSUME IInv
  PROVE  IntactIsShown
<1>1. SUFFICES ASSUME stage = "shown", archive.damage = "none", fileLen = archive.length,
                      pc # "source", FirstMagic(archive) # ""
               PROVE  label = "ZIP" /\ pc = "ok" /\ entries = archive.written
  BY DEF IntactIsShown
<1>2. stage = "shown" /\ archive.damage = "none" /\ fileLen = archive.length /\ pc # "source"
  BY <1>1
<1>3. FirstMagic(archive) \in {"PKlocal", "PKend"}
  BY <1>1 DEF FirstMagic
<1>4. ListInv /\ ReportInv /\ ZipInv /\ ShownListed
  BY DEF IInv
<1>5. Listable(archive) /\ document = DocumentOf(archive) /\ ArchiveRead
  BY <1>2, <1>4 DEF ZipInv, ArchiveJudged, ListInv, Followable
<1>6. prefix \in Nat /\ prefix >= 22
  <2>1. archive.length >= 22 /\ archive.length \in Nat
    <3>1. EndOf(archive) \in Nat /\ EndOf(archive) + EndSize <= archive.length
      BY <1>5, ListableFacts
    <3>. QED
      BY <1>5, <3>1 DEF EndSize, ArchiveRead
  <2>2. prefix \in Nat /\ (prefix < 65536 => fileLen <= prefix)
    BY <1>2, <1>4, PrefixIs DEF ReportInv, ReportTyped, PrefixRead
  <2>3. archive.length <= prefix \/ 65536 <= prefix
    BY <1>2, <2>2
  <2>. QED
    BY <2>1, <2>2, <2>3
<1>7. report.code = ZipCode
  <2>1. report = [ code |-> Detection!DetectCode(document, prefix),
                   detail |-> Detection!HeaderDetails(document, prefix) ]
    BY <1>2, <1>4 DEF ReportInv, Reported
  <2>2. Detection!DetectCode(document, prefix) = 5
    BY <1>3, <1>5, <1>6, ArchiveCode
  <2>. QED
    BY <2>1, <2>2 DEF ZipCode
<1>8. label = "ZIP"
  <2>1. label = Detection!LabelOf(report.code)
    BY <1>2, <1>4 DEF ReportInv, Labelled
  <2>2. Detection!LabelOf(5) = "ZIP"
    BY DEF Detection!LabelOf
  <2>. QED
    BY <1>7, <2>1, <2>2 DEF ZipCode
<1>9. pc = "ok"
  <2>1. pc \notin Reading \cup {"trap"}
    BY <1>2, <1>4, <1>7 DEF ShownListed
  <2>2. pc \in Errors \cup {"trap"} => pc = "source" \/ fileLen < archive.length
    BY <1>2, <1>4, ZipInvImplies DEF IntactIsListed
  <2>3. ~ (fileLen < archive.length)
    BY <1>2, <1>5 DEF ArchiveRead
  <2>4. pc \notin Errors
    BY <1>2, <2>2, <2>3
  <2>. QED
    BY <1>4, <2>1, <2>4 DEF ListInv, TypeOK
<1>. QED
  <2>1. entries = archive.written
    BY <1>2, <1>4, <1>9, ListedIsFirstWritten DEF Followable
  <2>. QED
    BY <1>8, <1>9, <2>1

LEMMA IInvImplies ==
  ASSUME IInv
  PROVE  /\ InspectTypeOK /\ ReadsAreBounded /\ PrefixIsEnough /\ LabelFitsDetails
         /\ ListedAsWritten /\ IntactIsListed /\ IntactIsShown
<1>. USE DEF IInv
<1>1. DocumentRead /\ prefix \in Nat /\ document.length \in Nat
  BY DEF ReportInv, ReportTyped, DocumentRead, ListInv, ArchiveRead
<1>2. InspectTypeOK
  <2>1. prefix \in 0 .. Detection!Prefix
    <3>1. prefix <= Detection!Prefix
      BY DEF ReportInv, ReportTyped
    <3>. QED
      BY <1>1, <3>1
  <2>2. Detection!TypeOK
    BY <2>1 DEF ReportInv, ReportTyped, Detection!TypeOK
  <2>. QED
    BY <2>2 DEF ListInv, InspectTypeOK
<1>3. PrefixIsEnough
  <2>1. SUFFICES ASSUME stage = "shown", fileLen = document.length
                 PROVE  report = [ code |-> Detection!DetectCode(document, document.length),
                                   detail |-> Detection!HeaderDetails(document, document.length) ]
    BY DEF PrefixIsEnough, Detection!PrefixIsEnough
  <2>2. report = [ code |-> Detection!DetectCode(document, prefix),
                   detail |-> Detection!HeaderDetails(document, prefix) ]
    BY <2>1 DEF ReportInv, Reported
  <2>3. /\ prefix <= document.length
        /\ prefix < Detection!Prefix => document.length <= prefix
    BY <2>1 DEF ReportInv, PrefixRead
  <2>4. CASE prefix = document.length
    BY <2>2, <2>4
  <2>5. CASE prefix >= Detection!Prefix /\ document.length >= Detection!Prefix
    BY <1>1, <2>2, <2>5, LongPrefixDetects, LongPrefixParses
  <2>. QED
    BY <1>1, <2>3, <2>4, <2>5, PrefixIs
<1>4. LabelFitsDetails
  <2>1. SUFFICES ASSUME stage = "shown"
                 PROVE  /\ label = "init_boot" <=> report.detail.kind = "boot"
                                                   /\ Detection!IsInitBoot(report.detail)
                        /\ report.detail.kind = "boot" => label \in {"boot", "init_boot"}
                        /\ report.detail.kind = "vendor" => label = "vendor_boot"
                        /\ label = "unknown" <=> Detection!Hits(document, prefix) = {}
    BY DEF LabelFitsDetails, Detection!LabelFitsDetails
  <2>2. /\ report = [ code |-> Detection!DetectCode(document, prefix),
                      detail |-> Detection!HeaderDetails(document, prefix) ]
        /\ label = Detection!LabelOf(report.code)
    BY <2>1 DEF ReportInv, Reported, Labelled
  <2>3. /\ report.detail = Detection!HeaderDetails(document, prefix)
        /\ label = Detection!LabelOf(Detection!DetectCode(document, prefix))
    BY <2>2
  <2>. QED
    BY <1>1, <2>3, ReportFits
<1>5. ReadsAreBounded
  BY DEF ListInv
<1>6. ListedAsWritten /\ IntactIsListed
  BY ZipInvImplies
<1>7. IntactIsShown
  BY IntactIsFound
<1>. QED
  BY <1>2, <1>3, <1>4, <1>5, <1>6, <1>7

-----------------------------------------------------------------------------
(***************************************************************************)
(* Whatever archives and documents there are, and whenever they are cut:   *)
(* every variable of the two calls stays in its range, the sizes and       *)
(* offsets out of ZIP64 blocks included.                                   *)
(***************************************************************************)
THEOREM InspectIsTyped == InspectSpec => []InspectTypeOK
  BY IInvHolds, IInvImplies, PTL

(***************************************************************************)
(* list of zip.rs: the number of entries an archive claims buys no reads,  *)
(* only the bytes of its central directory do.                             *)
(***************************************************************************)
THEOREM ReadsArePaidFor == InspectSpec => []ReadsAreBounded
  BY IInvHolds, IInvImplies, PTL

(***************************************************************************)
(* inspectFile on the first bytes says what detectFormat and inspectHeader *)
(* say of all of them, for every document that was not cut.                *)
(***************************************************************************)
THEOREM PrefixSuffices == InspectSpec => []PrefixIsEnough
  BY IInvHolds, IInvImplies, PTL

(***************************************************************************)
(* The name the screen shows and the details under it are of one image.    *)
(***************************************************************************)
THEOREM LabelAndDetailsAgree == InspectSpec => []LabelFitsDetails
  BY IInvHolds, IInvImplies, PTL

(***************************************************************************)
(* list of zip.rs: an archive that is listed is one its writer left intact,*)
(* with the entries he wrote, or one whose count or size only was changed, *)
(* with the first or all of them, but for the block that is too short for  *)
(* its values; of any other damage no listing is made.                     *)
(***************************************************************************)
THEOREM ListedIsWhatWasWritten == InspectSpec => []ListedAsWritten
  BY IInvHolds, IInvImplies, PTL

(***************************************************************************)
(* list of zip.rs refuses no intact archive, however long its comment,     *)
(* wherever its numbers are kept and whatever else its headers carry.      *)
(***************************************************************************)
THEOREM IntactIsUnderstood == InspectSpec => []IntactIsListed
  BY IInvHolds, IInvImplies, PTL

(***************************************************************************)
(* The block of chooseResult shows an intact archive as a ZIP, with the    *)
(* entries its writer put there.                                           *)
(***************************************************************************)
THEOREM IntactArchiveIsShown == InspectSpec => []IntactIsShown
  BY IInvHolds, IInvImplies, PTL

=============================================================================
