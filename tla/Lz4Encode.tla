------------------------------ MODULE Lz4Encode ------------------------------
(***************************************************************************)
(* The LZ4 block encoder lz4_compress_block of                             *)
(* native/src/imageforge_core.rs: a hash-chain matcher with one position   *)
(* of lazy matching.  One action per stage of the outer loop; the chain    *)
(* walk of lz4_find_match is a loop of its own, one candidate per step.    *)
(*                                                                         *)
(* head and chain are the arrays of the code: head[h] is the newest        *)
(* position of bucket h, chain[p % ChainSize] the position that was the    *)
(* newest before p.  Nil is the u32::MAX that fills both, and a position   *)
(* is stored as what an u32 holds of it.                                   *)
(***************************************************************************)
EXTENDS Lz4Format, FiniteSets

CONSTANTS
  Alphabet,      \* bytes the inputs are made of
  MaxInput,      \* bound: longest input
  Caps,          \* bound: destination capacities tried
  LastLiterals,  \* LZ4_LAST_LITERALS, 5 in the code
  MfLimit,       \* LZ4_MF_LIMIT, 12
  MaxOffset,     \* LZ4_MAX_OFFSET, 65535
  Attempts,      \* LZ4_HC_ATTEMPTS, 128
  LazyLength,    \* LZ4_HC_LAZY_LENGTH, 128
  U32,           \* u32::MAX + 1
  Buckets,       \* the values of lz4_hash4
  Hash           \* lz4_hash4, a function of the MinMatch bytes of a probe

ChainSize == MaxOffset + 1
Nil == -1
Stored(p) == IF p % U32 = U32 - 1 THEN Nil ELSE p % U32

ASSUME EncodeAssumption ==
  /\ Alphabet \subseteq Bytes
  /\ MaxInput \in Nat /\ Caps \subseteq Nat
  /\ LastLiterals \in Nat \ {0} /\ MfLimit \in Nat
  /\ MfLimit >= MinMatch + LastLiterals
  /\ LastLiterals >= MinMatch - 1  \* lz4_insert reads MinMatch bytes at the end of a match
  /\ MaxOffset \in Nat \ {0} /\ MaxOffset < Byte * Byte
  /\ Attempts \in Nat \ {0} /\ LazyLength \in Nat
  /\ U32 \in Nat \ {0}
  /\ Hash \in [[1 .. MinMatch -> Alphabet] -> Buckets]
  \* 1020 <= 1024 + 15 and 16 >= 2: what the worst case size needs of the format
  /\ 4 * ByteMax <= Byte * MinMatch + RunMask /\ Slack >= 2

VARIABLES
  input,   \* the bytes to compress
  cap,     \* size of the destination
  enc,     \* the bytes written so far
  anchor,  \* first byte not yet written
  i,       \* position being searched
  head, chain,
  walk,    \* the running lz4_find_match: [at, cand, tries, start, len]
  found,   \* the match found at i: [start, len]
  epc,     \* stage of the loop
  promise  \* history: the [at, len] a deferral was made for, or NoPromise

encVars == << input, cap, enc, anchor, i, head, chain, walk, found, epc, promise >>

N == Len(input)
At(k) == input[k + 1]
MatchLimit == IF N >= LastLiterals THEN N - LastLiterals ELSE 0
Probe(k) == [j \in 1 .. MinMatch |-> At(k + j - 1)]
Bucket(k) == Hash[Probe(k)]

NoMatch == [start |-> 0, len |-> 0]
NoWalk == [at |-> 0, cand |-> Nil, tries |-> 0, start |-> 0, len |-> 0]
NoPromise == [at |-> 0, len |-> 0]

EncStages == {"loop", "walk", "lazyWalk", "emit", "last", "ok", "tooSmall"}

Inputs == UNION { [1 .. k -> Alphabet] : k \in 0 .. MaxInput }

Init ==
  /\ input \in Inputs
  /\ cap \in Caps
  /\ enc = << >> /\ anchor = 0 /\ i = 0
  /\ head = [h \in Buckets |-> Nil]
  /\ chain = [p \in 0 .. ChainSize - 1 |-> Nil]
  /\ walk = NoWalk /\ found = NoMatch /\ promise = NoPromise
  /\ epc = IF N = 0 THEN "ok" ELSE "loop"

-----------------------------------------------------------------------------
(***************************************************************************)
(* Insert position p in the arrays and start a walk from its predecessor.  *)
(***************************************************************************)
InsertAndWalk(p) ==
  /\ chain' = [chain EXCEPT ![p % ChainSize] = head[Bucket(p)]]
  /\ head' = [head EXCEPT ![Bucket(p)] = Stored(p)]
  /\ walk' = [at |-> p, cand |-> head[Bucket(p)], tries |-> 0, start |-> 0, len |-> 0]

SearchPosition ==
  /\ epc = "loop" /\ i + MfLimit <= N
  /\ InsertAndWalk(i)
  /\ epc' = "walk"
  /\ UNCHANGED << input, cap, enc, anchor, i, found, promise >>

EndSearch ==
  /\ epc = "loop" /\ i + MfLimit > N
  /\ epc' = "last"
  /\ UNCHANGED << input, cap, enc, anchor, i, head, chain, walk, found, promise >>

(* The while condition of lz4_find_match and the break on distance. *)
CandidateLeft_NoDistance ==
  /\ walk.cand # Nil /\ walk.tries < Attempts
  /\ walk.cand < walk.at

CandidateLeft_OneMore ==
  /\ walk.cand # Nil /\ walk.tries <= Attempts
  /\ walk.cand < walk.at /\ walk.at - walk.cand <= MaxOffset

CandidateLeft ==
  /\ walk.cand # Nil /\ walk.tries < Attempts
  /\ walk.cand < walk.at /\ walk.at - walk.cand <= MaxOffset

(* How far the texts at c and p agree, short of the match limit. *)
Agreement(c, p) ==
  CHOOSE l \in MinMatch .. MatchLimit - p :
    /\ \A k \in MinMatch .. l - 1 : At(c + k) = At(p + k)
    /\ p + l = MatchLimit \/ At(c + l) # At(p + l)

WorthComparing ==
  \/ walk.len < MinMatch
  \/ /\ walk.at + walk.len < MatchLimit
     /\ At(walk.cand + walk.len) = At(walk.at + walk.len)

NextTry_Uncounted == walk.tries
NextTry == walk.tries + 1

WalkStep ==
  /\ epc \in {"walk", "lazyWalk"} /\ CandidateLeft
  /\ LET length == IF WorthComparing /\ Probe(walk.cand) = Probe(walk.at)
                   THEN Agreement(walk.cand, walk.at) ELSE 0 IN
     walk' = [walk EXCEPT !.cand = chain[walk.cand % ChainSize],
                          !.tries = NextTry,
                          !.start = IF length > walk.len THEN walk.cand ELSE @,
                          !.len = IF length > walk.len THEN length ELSE @]
  /\ UNCHANGED << input, cap, enc, anchor, i, head, chain, found, epc, promise >>

(* No match at i: move on. *)
WalkFindsNothing ==
  /\ epc = "walk" /\ ~ CandidateLeft /\ walk.len < MinMatch
  /\ i' = i + 1
  /\ epc' = "loop"
  /\ UNCHANGED << input, cap, enc, anchor, head, chain, walk, found, promise >>

(* A match at i that is short enough to also look at i + 1. *)
LooksAhead == walk.len < LazyLength /\ i + 1 + MfLimit <= N

WalkFindsMatch ==
  /\ epc = "walk" /\ ~ CandidateLeft /\ walk.len >= MinMatch
  /\ found' = [start |-> walk.start, len |-> walk.len]
  /\ IF LooksAhead
     THEN InsertAndWalk(i + 1) /\ epc' = "lazyWalk"
     ELSE epc' = "emit" /\ UNCHANGED << head, chain, walk >>
  /\ UNCHANGED << input, cap, enc, anchor, i, promise >>

(* The match at i + 1 is longer: the loop restarts there, found is dropped. *)
LazyDefers ==
  /\ epc = "lazyWalk" /\ ~ CandidateLeft
  /\ walk.len >= MinMatch /\ walk.len > found.len
  /\ i' = i + 1
  /\ epc' = "loop"
  /\ promise' = [at |-> i + 1, len |-> walk.len]
  /\ UNCHANGED << input, cap, enc, anchor, head, chain, walk, found >>

LazyKeeps ==
  /\ epc = "lazyWalk" /\ ~ CandidateLeft
  /\ walk.len < MinMatch \/ walk.len <= found.len
  /\ epc' = "emit"
  /\ UNCHANGED << input, cap, enc, anchor, i, head, chain, walk, found, promise >>

-----------------------------------------------------------------------------
(* write_length: full length bytes, then the remainder. *)
LengthBytes_Inclusive(length) ==
  LET full == IF length = 0 THEN 0 ELSE (length - 1) \div ByteMax
  IN [k \in 1 .. full |-> ByteMax] \o << length - full * ByteMax >>

LengthBytes(length) ==
  [k \in 1 .. length \div ByteMax |-> ByteMax] \o << length % ByteMax >>

Extension(length) == IF length >= RunMask THEN LengthBytes(length - RunMask) ELSE << >>

(***************************************************************************)
(* The match found at i, extended backwards into the pending literals.     *)
(***************************************************************************)
Backwards_PastAnchor ==
  CHOOSE b \in 0 .. found.start :
    /\ \A k \in 1 .. b : At(found.start - k) = At(i - k)
    /\ b = found.start \/ At(found.start - b - 1) # At(i - b - 1)

Backwards ==
  LET room == IF found.start < i - anchor THEN found.start ELSE i - anchor IN
  CHOOSE b \in 0 .. room :
    /\ \A k \in 1 .. b : At(found.start - k) = At(i - k)
    /\ b = room \/ At(found.start - b - 1) # At(i - b - 1)

MatchStart == i - Backwards
MatchSource == found.start - Backwards
MatchLength == found.len + Backwards
MatchEnd == MatchStart + MatchLength

SequenceBytes ==
  LET literals == MatchStart - anchor
      code == MatchLength - MinMatch
  IN << Token(literals, code) >> \o Extension(literals)
     \o SubSeq(input, anchor + 1, MatchStart)
     \o OffsetBytes(MatchStart - MatchSource) \o Extension(code)

(***************************************************************************)
(* lz4_insert for the positions i + 1 .. MatchEnd - 1 in ascending order:  *)
(* what the loop leaves in the arrays.  Older(p) is what the bucket of p   *)
(* holds at the moment p is inserted.                                      *)
(***************************************************************************)
Inside == i + 1 .. MatchEnd - 1
Newest(S) == CHOOSE p \in S : \A q \in S : q <= p
Earlier(p) == { q \in Inside : q < p /\ Bucket(q) = Bucket(p) }
Older(p) == IF Earlier(p) = {} THEN head[Bucket(p)] ELSE Stored(Newest(Earlier(p)))
InBucket(h) == { p \in Inside : Bucket(p) = h }
InSlot(s) == { p \in Inside : p % ChainSize = s }

EmitSequence ==
  /\ epc = "emit"
  /\ IF Len(enc) + Len(SequenceBytes) > cap
     THEN /\ epc' = "tooSmall"
          /\ UNCHANGED << enc, anchor, i, head, chain >>
     ELSE /\ enc' = enc \o SequenceBytes
          /\ head' = [h \in Buckets |->
                        IF InBucket(h) = {} THEN head[h] ELSE Stored(Newest(InBucket(h)))]
          /\ chain' = [s \in 0 .. ChainSize - 1 |->
                         IF InSlot(s) = {} THEN chain[s] ELSE Older(Newest(InSlot(s)))]
          /\ i' = MatchEnd
          /\ anchor' = MatchEnd
          /\ epc' = "loop"
  /\ promise' = NoPromise
  /\ UNCHANGED << input, cap, walk, found >>

LastBytes ==
  << Token(N - anchor, 0) >> \o Extension(N - anchor) \o SubSeq(input, anchor + 1, N)

EmitLast_FullRefused ==
  /\ epc = "last"
  /\ IF Len(enc) + Len(LastBytes) >= cap
     THEN epc' = "tooSmall" /\ UNCHANGED enc
     ELSE epc' = "ok" /\ enc' = enc \o LastBytes
  /\ UNCHANGED << input, cap, anchor, i, head, chain, walk, found, promise >>

EmitLast ==
  /\ epc = "last"
  /\ IF Len(enc) + Len(LastBytes) > cap
     THEN epc' = "tooSmall" /\ UNCHANGED enc
     ELSE epc' = "ok" /\ enc' = enc \o LastBytes
  /\ UNCHANGED << input, cap, anchor, i, head, chain, walk, found, promise >>

EncNext ==
  \/ SearchPosition \/ EndSearch \/ WalkStep \/ WalkFindsNothing \/ WalkFindsMatch
  \/ LazyDefers \/ LazyKeeps \/ EmitSequence \/ EmitLast

EncSpec == Init /\ [][EncNext]_encVars

-----------------------------------------------------------------------------
(***************************************************************************)
(* Every variable stays in its range; enc never outgrows the destination.  *)
(***************************************************************************)
TypeOK ==
  /\ input \in Inputs /\ cap \in Caps
  /\ enc \in Seq(Bytes) /\ Len(enc) <= cap
  /\ anchor \in 0 .. N /\ i \in anchor .. N
  /\ head \in [Buckets -> 0 .. N \cup {Nil}]
  /\ chain \in [0 .. ChainSize - 1 -> 0 .. N \cup {Nil}]
  /\ walk \in [at : 0 .. N, cand : 0 .. N \cup {Nil}, tries : 0 .. Attempts,
              start : 0 .. N, len : 0 .. N]
  /\ found \in [start : 0 .. N, len : 0 .. N]
  /\ promise \in [at : 0 .. N, len : 0 .. N]
  /\ epc \in EncStages

(***************************************************************************)
(* Whatever stale, overwritten or self-referring entries the chain arrays  *)
(* hold, the match that is emitted is one the decoder can undo: it does    *)
(* not reach back over bytes already written, its source lies before it at *)
(* a distance the 16-bit offset can hold, the two texts agree, and the     *)
(* last literals of the block stay literals.                               *)
(***************************************************************************)
MatchIsValid ==
  epc = "emit" =>
    /\ anchor <= MatchStart /\ MatchLength >= MinMatch
    /\ MatchEnd <= N - LastLiterals
    /\ 0 <= MatchSource /\ MatchSource < MatchStart
    /\ MatchStart - MatchSource <= MaxOffset
    /\ \A k \in 0 .. MatchLength - 1 : At(MatchSource + k) = At(MatchStart + k)

(***************************************************************************)
(* Incompressible input grows by no more than a length byte for every      *)
(* ByteMax literals and a constant: a destination of that size never makes *)
(* the encoder give up.                                                    *)
(***************************************************************************)
LargeEnough == N + N \div ByteMax + Slack
NeverTooSmall == epc = "tooSmall" => cap < LargeEnough

(***************************************************************************)
(* The encoder comes to an end.  Positions inserted twice (by the look     *)
(* ahead at i + 1 and again when it becomes i, or as the inside of the     *)
(* match) leave an entry that refers to itself: only the count of          *)
(* candidates tried ends a walk that enters it.                            *)
(***************************************************************************)
Termination == <>(epc \in {"ok", "tooSmall"})

(***************************************************************************)
(* "A longer match one byte later is worth emitting a literal for": when   *)
(* the match at i is given up for a longer one at i + 1, the next match    *)
(* emitted is at least as long as that, and there is one.                  *)
(***************************************************************************)
LazyMatchEmitted ==
  promise # NoPromise =>
    /\ epc # "last"
    /\ epc = "emit" => MatchLength >= promise.len
=============================================================================
