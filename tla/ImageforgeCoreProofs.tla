------------------------- MODULE ImageforgeCoreProofs -------------------------
(***************************************************************************)
(* Theorems about the two functions of imageforge_core.rs that read a      *)
(* caller's bytes from the first to the last: the LZ4 block decoder, and   *)
(* the checksum.                                                           *)
(*                                                                         *)
(* The decoder's safety properties hold for every base, every set of       *)
(* destination sizes and every bound on the block and the window.  The     *)
(* inductive invariant adds three facts to the checked properties: the     *)
(* write position is past the window, the offset of a pending match lies   *)
(* in the text already written, and Budget, the accounting behind          *)
(* SizeBound and TrapsOnlyBeyondUsize: what a stage has written, and is    *)
(* committed to write, is paid for by the source bytes it has read.        *)
(*                                                                         *)
(* The checksum is the remainder of a division of polynomials, for every   *)
(* register, polynomial and message.                                       *)
(***************************************************************************)
EXTENDS Lz4Decode, Crc32, WellFoundedInduction, TLAPS

Written == dp - blk.prefix

Running == pc \notin {"enter", "none"}

PastWindow == Running => blk.prefix <= dp

OffsetInText == pc \in {"matchExt", "copy"} => off \in 1 .. dp

(***************************************************************************)
(* Every source byte read pays for ByteMax bytes written.  A token leaves  *)
(* one byte of it unspent until the literals are copied; a match owes its  *)
(* RunMask + MinMatch to the three bytes of its token and offset.          *)
(***************************************************************************)
Budget ==
  /\ pc \in {"token", "done"} => Written <= ByteMax * sp
  /\ pc \in {"litExt", "lits", "offset"} => Written <= ByteMax * (sp - 1)
  /\ pc \in {"litExt", "lits"} => lit <= RunMask + ByteMax * (sp - 1)
  /\ pc \in {"matchExt", "copy"} => Written + mat <= RunMask + ByteMax * (sp - 3)

IInv ==
  /\ TypeOK
  /\ PastWindow
  /\ OffsetInText
  /\ Budget
  /\ DecodedIsDefined
  /\ WindowKept
  /\ TailUntouched
  /\ TrapsOnlyBeyondUsize

-----------------------------------------------------------------------------
(* The numbers of the format that the steps use, without their definitions. *)
LEMMA FormatFacts ==
  /\ Nibble \in Nat /\ Nibble >= 2
  /\ Byte \in Nat /\ ByteMax \in Nat /\ ByteMax >= 1 /\ RunMask \in Nat
  /\ Byte = ByteMax + 1
  /\ MinMatch \in Nat /\ MinMatch >= 1 /\ Slack \in Nat
  /\ RunMask + MinMatch <= 3 * ByteMax
<1>1. Nibble \in Nat /\ Nibble >= 2
  BY FormatAssumption
<1>2. Nibble * Nibble \in Nat /\ Nibble * Nibble >= 2
  BY <1>1
<1>. QED
  BY <1>1, <1>2, FormatAssumption DEF Byte, ByteMax, RunMask

(* Reading one byte more adds ByteMax to the budget, reading n of them at least n. *)
LEMMA BudgetGrows ==
  ASSUME NEW s \in Int, NEW n \in Nat
  PROVE  /\ ByteMax * (s + n) = ByteMax * s + ByteMax * n
         /\ ByteMax * n >= n
         /\ ByteMax * s \in Int
<1>1. ByteMax \in Nat /\ ByteMax >= 1
  BY FormatFacts
<1>2. ASSUME NEW m \in Nat, m >= 1 PROVE m * n >= n /\ m * (s + n) = m * s + m * n
  BY <1>2
<1>. QED
  BY <1>1, <1>2

(* The two nibbles of a byte, and the offset of two bytes. *)
LEMMA NibblesInRange ==
  ASSUME NEW b \in Bytes
  PROVE  LiteralNibble(b) \in 0 .. RunMask /\ MatchNibble(b) \in 0 .. RunMask
<1>1. b \in Nat /\ Nibble \in Nat /\ Nibble >= 2 /\ b < Nibble * Nibble
  BY FormatFacts DEF Bytes, ByteMax, Byte
<1>2. b \div Nibble \in 0 .. Nibble - 1 /\ b % Nibble \in 0 .. Nibble - 1
  <2>1. ASSUME NEW n \in Nat, n >= 2, NEW q \in Int, NEW m \in Int, m < n * n, n * q <= m
        PROVE  q < n
    <3>1. ASSUME q >= n PROVE n * q >= n * n
      BY <2>1, <3>1
    <3>. QED
      BY <2>1, <3>1
  <2>2. b \div Nibble \in Nat /\ b % Nibble \in 0 .. Nibble - 1
    BY <1>1
  <2>3. Nibble * (b \div Nibble) <= b
    BY <1>1, <2>2
  <2>. QED
    BY <1>1, <2>1, <2>2, <2>3
<1>. QED
  BY <1>2 DEF LiteralNibble, MatchNibble, RunMask

(* A sum that wraps gets smaller; one that fits is itself. *)
LEMMA WrapFacts ==
  ASSUME NEW n \in Nat
  PROVE  Wrap(n) \in 0 .. n /\ (Wrap(n) # n => n >= Usize)
<1>1. Usize \in Nat /\ Usize >= 1
  BY DecodeAssumption
<1>. QED
  BY <1>1 DEF Wrap

LEMMA OffsetIsNat ==
  ASSUME NEW low \in Bytes, NEW high \in Bytes
  PROVE  OffsetOf(low, high) \in Nat
<1>1. low \in Nat /\ high \in Nat /\ Byte \in Nat
  BY FormatFacts DEF Bytes
<1>2. Byte * high \in Nat
  BY <1>1
<1>. QED
  BY <1>1, <1>2 DEF OffsetOf

(* Where a self-overlapping copy reads: inside the text it refers to. *)
LEMMA SourceOfMatch ==
  ASSUME NEW d \in Nat, NEW o \in 1 .. d, NEW k \in Nat, k >= d
  PROVE  d - o + ((k - d) % o) \in 0 .. d - 1
<1>1. (k - d) % o \in 0 .. o - 1
  OBVIOUS
<1>. QED
  BY <1>1

(* The byte at a source position is a byte. *)
LEMMA SourceByte ==
  ASSUME TypeOK, NEW k \in Nat, k < SrcLen
  PROVE  SrcAt(k) \in Bytes
BY DEF TypeOK, SrcAt, SrcLen

-----------------------------------------------------------------------------
LEMMA InitInv == Init => IInv
<1> SUFFICES ASSUME NEW b \in Blocks, StartOn(b)
             PROVE  IInv
  BY DEF Init
<1> USE FormatFacts
<1>1. b.src \in Seq(Bytes) /\ b.cap \in Nat /\ b.prefix \in Nat
         /\ b \in [src : Seq(Bytes), cap : Nat, prefix : Nat]
  <2>1. PICK n \in 0 .. MaxSrc : b.src \in [1 .. n -> Bytes]
    BY DEF Blocks, SeqsUpTo
  <2>2. n \in Nat
    BY DecodeAssumption
  <2>3. b.src \in Seq(Bytes)
    BY <2>1, <2>2
  <2>4. b.cap \in Caps /\ b.prefix \in 0 .. MaxPrefix
        /\ b = [src |-> b.src, cap |-> b.cap, prefix |-> b.prefix]
    BY DEF Blocks
  <2>5. b.cap \in Nat /\ b.prefix \in Nat
    BY <2>4, DecodeAssumption
  <2>. QED
    BY <2>3, <2>4, <2>5
<1>2. \A k \in Nat : WindowByte(k) \in Bytes
  BY DEF WindowByte, Bytes
<1>3. TypeOK
  <2>1. dst \in [0 .. b.cap - 1 -> Bytes \cup {Unset}]
    BY <1>1, <1>2 DEF StartOn
  <2>2. 0 \in Bytes /\ SrcLen \in Nat
    BY <1>1 DEF Bytes, SrcLen, StartOn
  <2>. QED
    BY <1>1, <2>1, <2>2 DEF StartOn, TypeOK, Stages
<1>4. WindowKept /\ TailUntouched
  BY <1>1 DEF StartOn, WindowKept, TailUntouched
<1>. QED
  BY <1>3, <1>4 DEF StartOn, IInv, PastWindow, Running, OffsetInText, Budget, DecodedIsDefined,
                    TrapsOnlyBeyondUsize

(***************************************************************************)
(* A refused call changes only the stage, so only the invariants that      *)
(* speak of a running decoder lose their premise.                          *)
(***************************************************************************)
LEMMA RejectInv ==
  ASSUME IInv, Reject
  PROVE  IInv'
<1> USE DEF Reject
<1>1. TypeOK'
  BY DEF IInv, TypeOK, Stages, SrcLen
<1>2. WindowKept' /\ TailUntouched'
  BY DEF IInv, WindowKept, TailUntouched, WindowByte
<1>. QED
  BY <1>1, <1>2 DEF IInv, PastWindow, Running, OffsetInText, Budget, DecodedIsDefined,
                    TrapsOnlyBeyondUsize

LEMMA TrapInv ==
  ASSUME IInv, pc # "enter", pc # "none", Trap,
         blk.cap + ByteMax * SrcLen >= Usize \/ SrcLen + ByteMax * SrcLen >= Usize
  PROVE  IInv'
<1> USE DEF Trap
<1>1. TypeOK'
  BY DEF IInv, TypeOK, Stages, SrcLen
<1>2. WindowKept' /\ TailUntouched'
  BY DEF IInv, WindowKept, TailUntouched, WindowByte
<1>3. TrapsOnlyBeyondUsize'
  BY DEF TrapsOnlyBeyondUsize, SrcLen
<1>. QED
  BY <1>1, <1>2, <1>3 DEF IInv, PastWindow, Running, OffsetInText, Budget, DecodedIsDefined

(* What has been read pays for no more than the whole block would. *)
LEMMA PaidBySource ==
  ASSUME TypeOK
  PROVE  /\ sp \in Nat /\ SrcLen \in Nat /\ sp <= SrcLen
         /\ ByteMax * sp \in Int /\ ByteMax * SrcLen \in Int
         /\ ByteMax * sp <= ByteMax * SrcLen
<1>1. sp \in Nat /\ SrcLen \in Nat /\ sp <= SrcLen /\ SrcLen - sp \in Nat
  BY DEF TypeOK, SrcLen
<1>2. SrcLen = sp + (SrcLen - sp)
  BY <1>1
<1>3. ByteMax * SrcLen = ByteMax * sp + ByteMax * (SrcLen - sp) /\ ByteMax * (SrcLen - sp) >= 0
  BY <1>1, <1>2, BudgetGrows
<1>4. ByteMax * (SrcLen - sp) \in Int /\ ByteMax * sp \in Int /\ ByteMax * SrcLen \in Int
  BY <1>1, FormatFacts
<1>. QED
  BY <1>1, <1>3, <1>4

(***************************************************************************)
(* One step per action; under it one per conjunct the action can disturb.  *)
(***************************************************************************)
LEMMA EnterInv ==
  ASSUME IInv, Enter
  PROVE  IInv'
<1>1. CASE blk.prefix > blk.cap
  BY <1>1, RejectInv DEF Enter
<1>2. CASE ~ (blk.prefix > blk.cap)
  <2>1. /\ pc = "enter" /\ pc' = "token" /\ dp' = blk.prefix
        /\ UNCHANGED << blk, dst, sp, lit, mat, off, tok >>
    BY <1>2 DEF Enter
  <2>2. TypeOK'
    BY <1>2, <2>1 DEF IInv, TypeOK, Stages, SrcLen
  <2>3. Budget'
    <3>1. ByteMax * sp \in Int /\ ByteMax * sp >= 0
      BY FormatFacts DEF IInv, TypeOK
    <3>. QED
      BY <2>1, <3>1 DEF IInv, TypeOK, Budget, Written
  <2>4. DecodedIsDefined'
    <3>1. \A k \in 0 .. blk.cap - 1 : WindowByte(k) \in Bytes
      BY FormatFacts DEF WindowByte, Bytes
    <3>. QED
      BY <1>2, <2>1, <3>1 DEF IInv, TypeOK, DecodedIsDefined, WindowKept
  <2>5. WindowKept' /\ TailUntouched'
    BY <2>1 DEF IInv, TypeOK, WindowKept, TailUntouched, WindowByte
  <2>. QED
    BY <2>1, <2>2, <2>3, <2>4, <2>5 DEF IInv, TypeOK, PastWindow, OffsetInText, TrapsOnlyBeyondUsize
<1>. QED
  BY <1>1, <1>2

LEMMA EndOfBlockInv ==
  ASSUME IInv, EndOfBlock
  PROVE  IInv'
<1>1. TypeOK'
  BY DEF IInv, EndOfBlock, TypeOK, Stages, SrcLen
<1>. QED
  BY <1>1 DEF IInv, EndOfBlock, PastWindow, Running, OffsetInText, Budget, Written,
              DecodedIsDefined, WindowKept, TailUntouched, WindowByte, TrapsOnlyBeyondUsize

LEMMA ReadTokenInv ==
  ASSUME IInv, ReadToken
  PROVE  IInv'
<1>1. /\ pc = "token" /\ sp < SrcLen /\ sp \in Nat
      /\ UNCHANGED << blk, dst, dp, mat, off >> /\ sp' = sp + 1
      /\ tok' = SrcAt(sp) /\ lit' = LiteralNibble(SrcAt(sp))
      /\ pc' \in {"litExt", "lits"}
  BY DEF IInv, ReadToken, TypeOK
<1>2. SrcAt(sp) \in Bytes
  BY <1>1, SourceByte DEF IInv
<1>3. TypeOK'
  <2>1. lit' \in Nat
    <3>1. lit' \in 0 .. RunMask /\ RunMask \in Nat
      BY <1>1, <1>2, NibblesInRange, FormatFacts
    <3>. QED
      BY <3>1
  <2>2. sp' \in 0 .. SrcLen' /\ SrcLen' = SrcLen
    <3>1. SrcLen' = SrcLen /\ SrcLen \in Nat
      BY <1>1 DEF IInv, TypeOK, SrcLen
    <3>. QED
      BY <1>1, <3>1
  <2>3. pc' \in Stages
    BY <1>1 DEF Stages
  <2>. QED
    BY <1>1, <1>2, <2>1, <2>2, <2>3 DEF IInv, TypeOK
<1>4. Budget'
  <2>1. Written <= ByteMax * sp
    BY <1>1 DEF IInv, Budget
  <2>2. Written' = Written /\ sp' - 1 = sp
    BY <1>1 DEF Written
  <2>3. lit' <= RunMask + ByteMax * sp
    <3>1. lit' \in 0 .. RunMask
      BY <1>1, <1>2, NibblesInRange
    <3>2. ByteMax * sp \in Int /\ ByteMax * sp >= 0
      BY <1>1, FormatFacts
    <3>. QED
      BY <3>1, <3>2, FormatFacts
  <2>. QED
    BY <1>1, <2>1, <2>2, <2>3 DEF Budget
<1>. QED
  BY <1>1, <1>3, <1>4 DEF IInv, PastWindow, Running, OffsetInText, TrapsOnlyBeyondUsize,
                          DecodedIsDefined, WindowKept, TailUntouched, WindowByte

LEMMA ReadLiteralExtensionInv ==
  ASSUME IInv, ReadLiteralExtension
  PROVE  IInv'
<1>1. CASE sp >= SrcLen
  BY <1>1, RejectInv DEF ReadLiteralExtension
<1>2. CASE ~ (sp >= SrcLen)
  <2>1. /\ pc = "litExt" /\ sp < SrcLen /\ sp \in Nat
        /\ UNCHANGED << blk, dst, dp, mat, off, tok >> /\ sp' = sp + 1
        /\ lit' = Wrap(lit + SrcAt(sp)) /\ pc' \in {"litExt", "lits"}
    BY <1>2 DEF IInv, ReadLiteralExtension, TypeOK, SrcLen
  <2>2. lit' \in Nat /\ lit' <= lit + ByteMax /\ lit \in Nat
    <3>1. SrcAt(sp) \in 0 .. ByteMax /\ lit \in Nat
      BY <2>1, SourceByte DEF IInv, TypeOK, Bytes
    <3>2. lit + SrcAt(sp) \in Nat /\ lit + SrcAt(sp) <= lit + ByteMax
      BY <3>1, FormatFacts
    <3>. QED
      BY <2>1, <3>1, <3>2, WrapFacts, FormatFacts
  <2>3. TypeOK'
    BY <2>1, <2>2 DEF IInv, TypeOK, Stages, SrcLen
  <2>4. Budget'
    <3>1. /\ Written <= ByteMax * (sp - 1) /\ Written' = Written
          /\ lit <= RunMask + ByteMax * (sp - 1)
      BY <2>1 DEF IInv, Budget, Written
    <3>2. ByteMax * (sp' - 1) = ByteMax * (sp - 1) + ByteMax * 1 /\ ByteMax * 1 >= 1
      <4>1. sp' - 1 = (sp - 1) + 1 /\ sp - 1 \in Int
        BY <2>1
      <4>. QED
        BY <4>1, BudgetGrows
    <3>3. ByteMax * (sp - 1) \in Int /\ ByteMax * 1 = ByteMax /\ Written \in Int
      BY <2>1, FormatFacts DEF IInv, TypeOK, Written
    <3>4. lit' <= RunMask + ByteMax * (sp' - 1)
      BY <2>2, <3>1, <3>2, <3>3, FormatFacts
    <3>. QED
      BY <2>1, <3>1, <3>2, <3>3, <3>4, FormatFacts DEF Budget
  <2>. QED
    BY <2>1, <2>3, <2>4 DEF IInv, PastWindow, Running, OffsetInText, TrapsOnlyBeyondUsize,
                            DecodedIsDefined, WindowKept, TailUntouched, WindowByte
<1>. QED
  BY <1>1, <1>2

(* The literals come from the source one for one, so the budget grows faster than dp. *)
LEMMA CopyLiteralsInv ==
  ASSUME IInv, CopyLiterals
  PROVE  IInv'
<1>1. CASE Wrap(sp + lit) > SrcLen \/ Wrap(dp + lit) > blk.cap
  BY <1>1, RejectInv DEF CopyLiterals
<1>3. CASE /\ ~ (Wrap(sp + lit) > SrcLen \/ Wrap(dp + lit) > blk.cap)
           /\ sp + lit > SrcLen \/ dp + lit > blk.cap
  <2>1. pc = "lits" /\ Trap
    BY <1>3 DEF CopyLiterals
  <2>2. /\ dp \in Nat /\ lit \in Nat /\ dp <= blk.cap /\ sp \in Nat /\ blk.cap \in Nat
        /\ SrcLen \in Nat
    BY DEF IInv, TypeOK, SrcLen
  <2>3. sp + lit >= Usize \/ dp + lit >= Usize
    <3>1. CASE sp + lit > SrcLen
      <4>1. sp + lit \in Nat /\ Wrap(sp + lit) # sp + lit
        BY <1>3, <2>2, <3>1
      <4>. QED
        BY <4>1, WrapFacts
    <3>2. CASE dp + lit > blk.cap
      <4>1. dp + lit \in Nat /\ Wrap(dp + lit) # dp + lit
        BY <1>3, <2>2, <3>2
      <4>. QED
        BY <4>1, WrapFacts
    <3>. QED
      BY <1>3, <3>1, <3>2
  <2>4. lit <= ByteMax * SrcLen
    <3>1. lit <= RunMask + ByteMax * (sp - 1)
      BY <2>1 DEF IInv, Budget
    <3>2. ByteMax * sp = ByteMax * (sp - 1) + ByteMax * 1 /\ ByteMax * 1 = ByteMax
      <4>1. sp = (sp - 1) + 1 /\ sp - 1 \in Int
        BY <2>2
      <4>. QED
        BY <4>1, BudgetGrows, FormatFacts
    <3>3. RunMask <= ByteMax
      <4>1. Nibble * Nibble >= Nibble
        BY FormatFacts
      <4>. QED
        BY <4>1, FormatFacts DEF RunMask, ByteMax, Byte
    <3>4. ByteMax * (sp - 1) \in Int
      BY <2>2, FormatFacts
    <3>. QED
      BY <2>2, <3>1, <3>2, <3>3, <3>4, PaidBySource, FormatFacts DEF IInv
  <2>5. sp <= SrcLen /\ ByteMax * SrcLen \in Int /\ Usize \in Nat
    BY PaidBySource, DecodeAssumption DEF IInv
  <2>6. blk.cap + ByteMax * SrcLen >= Usize \/ SrcLen + ByteMax * SrcLen >= Usize
    BY <2>2, <2>3, <2>4, <2>5
  <2>. QED
    BY <2>1, <2>6, TrapInv
<1>2. CASE /\ ~ (Wrap(sp + lit) > SrcLen \/ Wrap(dp + lit) > blk.cap)
           /\ ~ (sp + lit > SrcLen \/ dp + lit > blk.cap)
  <2>1. /\ pc = "lits" /\ sp + lit <= SrcLen /\ dp + lit <= blk.cap
        /\ sp \in Nat /\ dp \in Nat /\ lit \in Nat /\ blk.cap \in Nat /\ blk.prefix \in Nat
        /\ SrcLen \in Nat
    BY <1>2 DEF IInv, CopyLiterals, TypeOK, SrcLen
  <2>2. dst' = [k \in DOMAIN dst |->
                  IF k \in dp .. dp + lit - 1 THEN SrcAt(sp + k - dp) ELSE dst[k]]
    BY <1>2 DEF CopyLiterals
  <2>3. /\ sp' = sp + lit /\ dp' = dp + lit
        /\ pc' \in {"done", "offset"}
        /\ UNCHANGED << blk, lit, mat, off, tok >>
    BY <1>2 DEF CopyLiterals
  <2>4. /\ DOMAIN dst = 0 .. blk.cap - 1
        /\ \A k \in 0 .. blk.cap - 1 : dst[k] \in Bytes \cup {Unset}
    BY DEF IInv, TypeOK
  <2>5. \A k \in dp .. dp + lit - 1 : SrcAt(sp + k - dp) \in Bytes
    <3>1. SUFFICES ASSUME NEW k \in dp .. dp + lit - 1
                   PROVE  SrcAt(sp + k - dp) \in Bytes
      OBVIOUS
    <3>2. sp + k - dp \in Nat /\ sp + k - dp < SrcLen
      BY <2>1
    <3>. QED
      BY <3>2, SourceByte DEF IInv
  <2>6. \A k \in 0 .. blk.cap - 1 :
          dst'[k] = IF k \in dp .. dp + lit - 1 THEN SrcAt(sp + k - dp) ELSE dst[k]
    BY <2>2, <2>4
  <2>7. dst' \in [0 .. blk.cap - 1 -> Bytes \cup {Unset}]
    BY <2>2, <2>4, <2>5
  <2>8. TypeOK'
    BY <2>1, <2>3, <2>7 DEF IInv, TypeOK, Stages, SrcLen
  <2>9. Budget'
    <3>1. Written <= ByteMax * (sp - 1)
      BY <2>1 DEF IInv, Budget
    <3>2. ByteMax * (sp' - 1) = ByteMax * (sp - 1) + ByteMax * lit /\ ByteMax * lit >= lit
      <4>1. sp' - 1 = (sp - 1) + lit /\ sp - 1 \in Int
        BY <2>1, <2>3
      <4>. QED
        BY <2>1, <4>1, BudgetGrows
    <3>3. ByteMax * sp' = ByteMax * (sp' - 1) + ByteMax * 1 /\ ByteMax * 1 >= 1
      <4>1. sp' = (sp' - 1) + 1 /\ sp' - 1 \in Int
        BY <2>1, <2>3
      <4>. QED
        BY <4>1, BudgetGrows
    <3>4. ByteMax * (sp - 1) \in Int /\ ByteMax * lit \in Int /\ ByteMax * 1 \in Int
      BY <2>1, FormatFacts
    <3>5. Written' = Written + lit /\ Written \in Int
      BY <2>1, <2>3 DEF Written
    <3>. QED
      BY <2>1, <2>3, <3>1, <3>2, <3>3, <3>4, <3>5 DEF Budget
  <2>10. DecodedIsDefined'
    <3>1. \A k \in 0 .. dp - 1 : dst[k] \in Bytes
      BY <2>1 DEF IInv, DecodedIsDefined
    <3>2. \A k \in 0 .. dp + lit - 1 : dst'[k] \in Bytes
      BY <2>1, <2>5, <2>6, <3>1
    <3>. QED
      BY <2>1, <2>3, <3>2 DEF DecodedIsDefined
  <2>11. WindowKept' /\ PastWindow'
    <3>1. blk.prefix <= dp
      BY <2>1 DEF IInv, PastWindow, Running
    <3>2. \A k \in 0 .. blk.cap - 1 : k < blk.prefix => dst'[k] = WindowByte(k)
      BY <2>1, <2>6, <3>1 DEF IInv, WindowKept
    <3>. QED
      BY <2>1, <2>3, <3>1, <3>2 DEF WindowKept, WindowByte, PastWindow
  <2>12. TailUntouched'
    BY <2>1, <2>3, <2>6 DEF IInv, TailUntouched
  <2>. QED
    BY <2>3, <2>8, <2>9, <2>10, <2>11, <2>12 DEF IInv, OffsetInText, TrapsOnlyBeyondUsize
<1>. QED
  BY <1>1, <1>2, <1>3

LEMMA ReadOffsetInv ==
  ASSUME IInv, ReadOffset
  PROVE  IInv'
<1> DEFINE o == OffsetOf(SrcAt(sp), SrcAt(sp + 1))
<1>1. CASE sp + 2 > SrcLen \/ o = 0 \/ o > dp
  BY <1>1, RejectInv DEF ReadOffset
<1>2. CASE ~ (sp + 2 > SrcLen \/ o = 0 \/ o > dp)
  <2>1. /\ pc = "offset" /\ off' = o /\ sp' = sp + 2 /\ mat' = MatchNibble(tok)
        /\ pc' \in {"matchExt", "copy"} /\ UNCHANGED << blk, dst, dp, lit, tok >>
    BY <1>2 DEF ReadOffset
  <2>2. sp \in Nat /\ dp \in Nat /\ SrcLen \in Nat /\ sp + 2 <= SrcLen
    BY <1>2 DEF IInv, TypeOK, SrcLen
  <2>3. o \in 1 .. dp
    <3>1. SrcAt(sp) \in Bytes /\ SrcAt(sp + 1) \in Bytes
      BY <2>2, SourceByte DEF IInv
    <3>2. o \in Nat
      BY <3>1, OffsetIsNat
    <3>. QED
      BY <1>2, <2>2, <3>2
  <2>4. mat' \in 0 .. RunMask
    BY <2>1, NibblesInRange DEF IInv, TypeOK
  <2>5. TypeOK'
    BY <2>1, <2>2, <2>3, <2>4, FormatFacts DEF IInv, TypeOK, Stages, SrcLen
  <2>6. Budget'
    <3>1. Written <= ByteMax * (sp - 1)
      BY <2>1 DEF IInv, Budget
    <3>2. sp' - 3 = sp - 1 /\ Written' = Written /\ Written \in Int
      BY <2>1, <2>2 DEF IInv, TypeOK, Written
    <3>3. ByteMax * (sp - 1) \in Int
      BY <2>2, FormatFacts
    <3>. QED
      BY <2>1, <2>4, <3>1, <3>2, <3>3, FormatFacts DEF Budget
  <2>. QED
    BY <2>1, <2>3, <2>5, <2>6 DEF IInv, PastWindow, Running, OffsetInText, TrapsOnlyBeyondUsize,
                                  DecodedIsDefined, WindowKept, TailUntouched, WindowByte
<1>. QED
  BY <1>1, <1>2

LEMMA ReadMatchExtensionInv ==
  ASSUME IInv, ReadMatchExtension
  PROVE  IInv'
<1>1. CASE sp >= SrcLen
  BY <1>1, RejectInv DEF ReadMatchExtension
<1>2. CASE ~ (sp >= SrcLen)
  <2>1. /\ pc = "matchExt" /\ sp < SrcLen /\ sp \in Nat
        /\ UNCHANGED << blk, dst, dp, lit, off, tok >> /\ sp' = sp + 1
        /\ mat' = Wrap(mat + SrcAt(sp)) /\ pc' \in {"matchExt", "copy"}
    BY <1>2 DEF IInv, ReadMatchExtension, TypeOK, SrcLen
  <2>2. mat' \in Nat /\ mat' <= mat + ByteMax
    <3>1. SrcAt(sp) \in 0 .. ByteMax /\ mat \in Nat
      BY <2>1, SourceByte DEF IInv, TypeOK, Bytes
    <3>2. mat + SrcAt(sp) \in Nat /\ mat + SrcAt(sp) <= mat + ByteMax
      BY <3>1, FormatFacts
    <3>. QED
      BY <2>1, <3>1, <3>2, WrapFacts, FormatFacts
  <2>3. TypeOK'
    BY <2>1, <2>2 DEF IInv, TypeOK, Stages, SrcLen
  <2>4. Budget'
    <3>1. Written + mat <= RunMask + ByteMax * (sp - 3)
      BY <2>1 DEF IInv, Budget
    <3>2. ByteMax * (sp' - 3) = ByteMax * (sp - 3) + ByteMax * 1
      <4>1. sp' - 3 = (sp - 3) + 1 /\ sp - 3 \in Int
        BY <2>1
      <4>. QED
        BY <4>1, BudgetGrows
    <3>3. ByteMax * 1 = ByteMax /\ ByteMax * (sp - 3) \in Int
      BY <2>1, FormatFacts
    <3>4. Written' = Written /\ Written \in Int /\ mat \in Nat
      BY <2>1 DEF IInv, TypeOK, Written
    <3>. QED
      BY <2>1, <2>2, <3>1, <3>2, <3>3, <3>4, FormatFacts DEF Budget
  <2>. QED
    BY <2>1, <2>3, <2>4 DEF IInv, PastWindow, Running, OffsetInText, TrapsOnlyBeyondUsize,
                            DecodedIsDefined, WindowKept, TailUntouched, WindowByte
<1>. QED
  BY <1>1, <1>2

(* The copy reads only text already written, and is paid for by its token and offset. *)
LEMMA CopyMatchInv ==
  ASSUME IInv, CopyMatch
  PROVE  IInv'
<1> DEFINE length == Wrap(mat + MinMatch)
           Source(k) == dp - off + ((k - dp) % off)
<1>1. CASE Wrap(dp + length) > blk.cap
  BY <1>1, RejectInv DEF CopyMatch
<1>4. /\ mat \in Nat /\ MinMatch \in Nat /\ mat + MinMatch \in Nat /\ length \in Nat
      /\ length <= mat + MinMatch
  <2>1. mat \in Nat /\ MinMatch \in Nat /\ mat + MinMatch \in Nat
    BY FormatFacts DEF IInv, TypeOK
  <2>. QED
    BY <2>1, WrapFacts
<1> HIDE DEF length
<1>3. CASE ~ (Wrap(dp + length) > blk.cap) /\ dp + length > blk.cap
  <2>1. pc = "copy" /\ Trap
    BY <1>3 DEF CopyMatch, length
  <2>2. /\ dp \in Nat /\ dp <= blk.cap /\ sp \in Nat /\ blk.cap \in Nat /\ blk.prefix \in Nat
        /\ blk.prefix <= dp
    BY <2>1 DEF IInv, TypeOK, PastWindow, Running
  <2>3. dp + length >= Usize
    <3>1. dp + length \in Nat /\ Wrap(dp + length) # dp + length
      BY <1>3, <1>4, <2>2
    <3>. QED
      BY <3>1, WrapFacts
  <2>4. mat + MinMatch <= ByteMax * SrcLen
    <3>1. dp - blk.prefix + mat <= RunMask + ByteMax * (sp - 3)
      BY <2>1 DEF IInv, Budget, Written
    <3>2. ByteMax * sp = ByteMax * (sp - 3) + ByteMax * 3
      <4>1. sp = (sp - 3) + 3 /\ sp - 3 \in Int
        BY <2>2
      <4>. QED
        BY <4>1, BudgetGrows
    <3>3. ByteMax * 3 = 3 * ByteMax /\ ByteMax * (sp - 3) \in Int
      BY <2>2, FormatFacts
    <3>. QED
      BY <1>4, <2>2, <3>1, <3>2, <3>3, PaidBySource, FormatFacts DEF IInv
  <2>5. ByteMax * SrcLen \in Int /\ Usize \in Nat
    BY PaidBySource, DecodeAssumption DEF IInv
  <2>6. blk.cap + ByteMax * SrcLen >= Usize
    BY <1>4, <2>2, <2>3, <2>4, <2>5
  <2>. QED
    BY <2>1, <2>6, TrapInv
<1>2. CASE ~ (Wrap(dp + length) > blk.cap) /\ ~ (dp + length > blk.cap)
  <2>1. /\ pc = "copy" /\ dp + length <= blk.cap
        /\ sp \in Nat /\ dp \in Nat /\ mat \in Nat /\ length \in Nat
        /\ blk.cap \in Nat /\ blk.prefix \in Nat /\ off \in 1 .. dp
    BY <1>2, <1>4 DEF IInv, CopyMatch, TypeOK, OffsetInText
  <2>2. dst' = [k \in DOMAIN dst |->
                  IF k \in dp .. dp + length - 1 THEN dst[Source(k)] ELSE dst[k]]
    BY <1>2 DEF CopyMatch, length
  <2>3. /\ dp' = dp + length /\ pc' = "token"
        /\ UNCHANGED << blk, sp, lit, mat, off, tok >>
    BY <1>2 DEF CopyMatch, length
  <2>4. /\ DOMAIN dst = 0 .. blk.cap - 1
        /\ \A k \in 0 .. blk.cap - 1 : dst[k] \in Bytes \cup {Unset}
    BY DEF IInv, TypeOK
  <2>5. \A k \in 0 .. dp - 1 : dst[k] \in Bytes
    BY <2>1 DEF IInv, DecodedIsDefined
  <2>6. \A k \in dp .. dp + length - 1 : dst[Source(k)] \in Bytes
    <3>1. SUFFICES ASSUME NEW k \in dp .. dp + length - 1
                   PROVE  Source(k) \in 0 .. dp - 1
      BY <2>5
    <3>2. k \in Nat /\ k >= dp
      BY <2>1
    <3>. QED
      BY <2>1, <3>2, SourceOfMatch
  <2>7. \A k \in 0 .. blk.cap - 1 :
          dst'[k] = IF k \in dp .. dp + length - 1 THEN dst[Source(k)] ELSE dst[k]
    BY <2>2, <2>4
  <2> HIDE DEF Source
  <2>8. dst' \in [0 .. blk.cap - 1 -> Bytes \cup {Unset}]
    BY <2>2, <2>4, <2>6
  <2>9. TypeOK'
    BY <2>1, <2>3, <2>8 DEF IInv, TypeOK, Stages, SrcLen
  <2>10. Budget'
    <3>1. Written + mat <= RunMask + ByteMax * (sp - 3)
      BY <2>1 DEF IInv, Budget
    <3>2. ByteMax * sp = ByteMax * (sp - 3) + ByteMax * 3
      <4>1. sp = (sp - 3) + 3 /\ sp - 3 \in Int
        BY <2>1
      <4>. QED
        BY <4>1, BudgetGrows
    <3>3. ByteMax * 3 = 3 * ByteMax /\ ByteMax * (sp - 3) \in Int
      BY <2>1, FormatFacts
    <3>4. Written' <= Written + mat + MinMatch /\ Written \in Int /\ Written' \in Int
      BY <1>4, <2>1, <2>3 DEF Written
    <3>. QED
      BY <1>4, <2>1, <2>3, <3>1, <3>2, <3>3, <3>4, FormatFacts DEF Budget
  <2>11. DecodedIsDefined'
    <3>1. \A k \in 0 .. dp + length - 1 : dst'[k] \in Bytes
      BY <2>1, <2>5, <2>6, <2>7
    <3>. QED
      BY <2>1, <2>3, <3>1 DEF DecodedIsDefined
  <2>12. WindowKept' /\ PastWindow'
    <3>1. blk.prefix <= dp
      BY <2>1 DEF IInv, PastWindow, Running
    <3>2. \A k \in 0 .. blk.cap - 1 : k < blk.prefix => dst'[k] = WindowByte(k)
      BY <2>1, <2>7, <3>1 DEF IInv, WindowKept
    <3>. QED
      BY <2>1, <2>3, <3>1, <3>2 DEF WindowKept, WindowByte, PastWindow
  <2>13. TailUntouched'
    BY <2>1, <2>3, <2>7 DEF IInv, TailUntouched
  <2>. QED
    BY <2>3, <2>9, <2>10, <2>11, <2>12, <2>13 DEF IInv, OffsetInText, TrapsOnlyBeyondUsize
<1>. QED
  BY <1>1, <1>2, <1>3

LEMMA StepInv == IInv /\ [Next]_decVars => IInv'
<1> SUFFICES ASSUME IInv, [Next]_decVars
             PROVE  IInv'
  OBVIOUS
<1>1. CASE Enter
  BY <1>1, EnterInv
<1>2. CASE EndOfBlock
  BY <1>2, EndOfBlockInv
<1>3. CASE ReadToken
  BY <1>3, ReadTokenInv
<1>4. CASE ReadLiteralExtension
  BY <1>4, ReadLiteralExtensionInv
<1>5. CASE CopyLiterals
  BY <1>5, CopyLiteralsInv
<1>6. CASE ReadOffset
  BY <1>6, ReadOffsetInv
<1>7. CASE ReadMatchExtension
  BY <1>7, ReadMatchExtensionInv
<1>8. CASE CopyMatch
  BY <1>8, CopyMatchInv
<1>9. CASE UNCHANGED decVars
  BY <1>9 DEF decVars, IInv, TypeOK, SrcLen, PastWindow, Running, OffsetInText, Budget, Written,
              DecodedIsDefined, WindowKept, TailUntouched, WindowByte, TrapsOnlyBeyondUsize
<1>. QED
  BY <1>1, <1>2, <1>3, <1>4, <1>5, <1>6, <1>7, <1>8, <1>9 DEF Next

-----------------------------------------------------------------------------
(***************************************************************************)
(* The invariant holds in every reachable state.                           *)
(***************************************************************************)
THEOREM Invariant == Spec => []IInv
BY InitInv, StepInv, PTL DEF Spec

(***************************************************************************)
(* Positions, lengths and the destination keep their ranges: the decoder   *)
(* neither reads outside the block nor writes outside the destination.     *)
(***************************************************************************)
THEOREM TypeCorrect == Spec => []TypeOK
<1>1. IInv => TypeOK
  BY DEF IInv
<1>. QED
  BY <1>1, Invariant, PTL

(***************************************************************************)
(* imageforge_lz4_block_max_size is a bound for every block: a caller that *)
(* sizes its destination with it never has it fill up.                     *)
(***************************************************************************)
THEOREM BlockMaxSizeIsABound == Spec => []SizeBound
<1>1. IInv => SizeBound
  <2> SUFFICES ASSUME IInv, pc = "done"
               PROVE  Written <= BlockMaxSize(SrcLen)
    BY DEF SizeBound, Written
  <2>1. Written <= ByteMax * sp
    BY DEF IInv, Budget
  <2>2. sp \in Nat /\ SrcLen \in Nat /\ SrcLen - sp \in Nat /\ Written \in Int
    BY DEF IInv, TypeOK, SrcLen, Written
  <2>3. ByteMax * SrcLen = ByteMax * sp + ByteMax * (SrcLen - sp) /\ ByteMax * (SrcLen - sp) >= 0
    <3>1. SrcLen = sp + (SrcLen - sp)
      BY <2>2
    <3>. QED
      BY <2>2, <3>1, BudgetGrows
  <2>4. ByteMax * sp \in Int /\ ByteMax * SrcLen \in Int /\ ByteMax * SrcLen = SrcLen * ByteMax
    BY <2>2, FormatFacts
  <2>. QED
    BY <2>1, <2>2, <2>3, <2>4, FormatFacts DEF BlockMaxSize
<1>. QED
  BY <1>1, Invariant, PTL

(***************************************************************************)
(* No match, however it overlaps or reaches back, copies an undefined byte *)
(* of the caller's buffer into the decoded text.                           *)
(***************************************************************************)
THEOREM DecodesOnlyDefinedBytes == Spec => []DecodedIsDefined
<1>1. IInv => DecodedIsDefined
  BY DEF IInv
<1>. QED
  BY <1>1, Invariant, PTL

(***************************************************************************)
(* The window in front of the block is only read.                          *)
(***************************************************************************)
THEOREM WindowIsKept == Spec => []WindowKept
<1>1. IInv => WindowKept
  BY DEF IInv
<1>. QED
  BY <1>1, Invariant, PTL

(***************************************************************************)
(* What lies past the write position is left as the caller passed it.      *)
(***************************************************************************)
THEOREM TailIsUntouched == Spec => []TailUntouched
<1>1. IInv => TailUntouched
  BY DEF IInv
<1>. QED
  BY <1>1, Invariant, PTL

(***************************************************************************)
(* No sum of a block and a destination that together stay below usize, at  *)
(* ByteMax bytes for each byte of the block, ever stops the process.       *)
(***************************************************************************)
THEOREM SmallBlocksNeverTrap == Spec => []TrapsOnlyBeyondUsize
<1>1. IInv => TrapsOnlyBeyondUsize
  BY DEF IInv
<1>. QED
  BY <1>1, Invariant, PTL

-----------------------------------------------------------------------------
(* The checksum: numbers, first. *)
LEMMA LeastStep ==
  ASSUME NEW S \in SUBSET Nat, S # {}
  PROVE  \E n \in S : \A m \in S : n <= m
<1>. DEFINE R == { pair \in Nat \X Nat : pair[1] < pair[2] }
<1>1. IsWellFoundedOn(R, Nat)
  BY NatLessThanWellFounded DEF OpToRel
<1>2. ASSUME NEW m \in Nat, NEW n \in Nat, m < n PROVE << m, n >> \in R
  BY <1>2
<1>. HIDE DEF R
<1>3. PICK n \in S : \A m \in S : ~ (<< m, n >> \in R)
  BY <1>1, WFMin
<1>4. ASSUME NEW m \in S PROVE n <= m
  <2>1. m \in Nat /\ n \in Nat
    OBVIOUS
  <2>2. ~ (m < n)
    BY <1>2, <1>3, <2>1
  <2>. QED
    BY <2>1, <2>2
<1>. QED
  BY <1>4

(***************************************************************************)
(* The reference division.  Its steps are a function defined by recursion; *)
(* that there is one is shown by the least length without.                 *)
(***************************************************************************)
Divisions(n, w) ==
  w = [k \in 0 .. n |-> IF k = 0 THEN Zeros ELSE Divided(w[k - 1], DividendBit(k - 1))]

LEMMA DivisionExists ==
  ASSUME NEW n \in Nat
  PROVE  \E w : Divisions(n, w)
<1>. DEFINE Bad == { m \in Nat : ~ \E w : Divisions(m, w) }
<1>. SUFFICES ASSUME Bad # {} PROVE FALSE
  OBVIOUS
<1>1. PICK m \in Bad : \A b \in Bad : m <= b
  <2>1. Bad \in SUBSET Nat
    OBVIOUS
  <2>. QED
    BY <2>1, LeastStep
<1>2. m \in Nat /\ ~ \E w : Divisions(m, w)
  OBVIOUS
<1>3. CASE m = 0
  <2>. DEFINE w == [k \in 0 .. 0 |-> Zeros]
  <2>1. Divisions(0, w)
    BY DEF Divisions
  <2>. QED
    BY <1>2, <1>3, <2>1
<1>4. CASE m # 0
  <2>1. m - 1 \in Nat /\ m - 1 \notin Bad
    BY <1>1, <1>2, <1>4
  <2>2. PICK u : Divisions(m - 1, u)
    BY <2>1
  <2>. DEFINE w == [k \in 0 .. m |->
                      IF k = m THEN Divided(u[m - 1], DividendBit(m - 1)) ELSE u[k]]
              Step(f, k) == IF k = 0 THEN Zeros ELSE Divided(f[k - 1], DividendBit(k - 1))
  <2>3. u = [k \in 0 .. m - 1 |-> Step(u, k)]
    BY <2>2 DEF Divisions
  <2>4. ASSUME NEW k \in 0 .. m PROVE w[k] = Step(w, k)
    <3>1. CASE k = 0
      <4>1. w[k] = u[0] /\ 0 \in 0 .. m - 1
        BY <1>2, <1>4, <3>1
      <4>. QED
        BY <2>3, <3>1, <4>1
    <3>2. CASE k # 0 /\ k # m
      <4>1. w[k] = u[k] /\ w[k - 1] = u[k - 1] /\ k \in 0 .. m - 1
        BY <1>2, <3>2
      <4>. QED
        BY <2>3, <3>2, <4>1
    <3>3. CASE k # 0 /\ k = m
      <4>1. w[k - 1] = u[m - 1] /\ w[k] = Divided(u[m - 1], DividendBit(m - 1))
        BY <1>2, <3>3
      <4>. QED
        BY <3>3, <4>1
    <3>. QED
      BY <3>1, <3>2, <3>3
  <2>5. w = [k \in 0 .. m |-> Step(w, k)]
    BY <2>4
  <2>6. Divisions(m, w)
    BY <2>5 DEF Divisions
  <2>. QED
    BY <1>2, <2>6
<1>. QED
  BY <1>3, <1>4

ByteValues == [1 .. ByteBits -> {0, 1}]
Registers == [1 .. Width -> {0, 1}]

LEMMA CrcNumbers ==
  /\ Width \in Nat /\ Width > 0 /\ ByteBits \in Nat /\ ByteBits > 0 /\ ByteBits <= Width
  /\ Poly \in Registers
BY CrcAssumption DEF Registers

LEMMA LengthIsTyped ==
  ASSUME data \in Seq(ByteValues)
  PROVE  Len(data) \in Nat /\ MessageLength \in Nat
<1>1. Len(data) \in Nat
  OBVIOUS
<1>. QED
  BY <1>1, CrcNumbers DEF MessageLength

(* The defining equations. *)
LEMMA RemainderSteps ==
  ASSUME data \in Seq(ByteValues)
  PROVE  /\ Remainders[0] = Zeros
         /\ \A k \in 1 .. MessageLength + Width :
              Remainders[k] = Divided(Remainders[k - 1], DividendBit(k - 1))
<1>. DEFINE n == MessageLength + Width
<1>1. n \in Nat
  BY LengthIsTyped, CrcNumbers
<1>2. Divisions(n, Remainders)
  <2>1. \E w : Divisions(n, w)
    BY <1>1, DivisionExists
  <2>. QED
    BY <2>1 DEF Divisions, Remainders
<1>3. 0 \in 0 .. n /\ \A k \in 1 .. n : k \in 0 .. n /\ k # 0
  BY <1>1
<1>. HIDE DEF n
<1>4. /\ Remainders[0] = Zeros
      /\ \A k \in 1 .. n : Remainders[k] = Divided(Remainders[k - 1], DividendBit(k - 1))
  BY <1>2, <1>3 DEF Divisions
<1>. QED
  BY <1>4 DEF n

-----------------------------------------------------------------------------
(***************************************************************************)
(* Bits of the message.                                                    *)
(***************************************************************************)
LEMMA ProductGrows ==
  ASSUME NEW b \in Nat, NEW m \in Nat, NEW n \in Nat, m < n
  PROVE  b * m + b <= b * n
<1>1. n - m - 1 \in Nat /\ n = m + 1 + (n - m - 1)
  OBVIOUS
<1>2. b * (n - m - 1) \in Nat
  BY <1>1
<1>3. b * n = b * m + b + b * (n - m - 1)
  BY <1>1
<1>. QED
  BY <1>2, <1>3

(* Where a bit of the message is: byte q, bit r of it. *)
LEMMA PlaceOfBit ==
  ASSUME NEW q \in Nat, NEW r \in Nat, r < ByteBits
  PROVE  (ByteBits * q + r) \div ByteBits = q /\ (ByteBits * q + r) % ByteBits = r
<1>. DEFINE x == ByteBits * q + r
            d == x \div ByteBits
            e == x % ByteBits
<1>1. x \in Nat /\ ByteBits \in Nat /\ ByteBits > 0
  BY CrcNumbers
<1>2. d \in Nat /\ e \in Nat /\ e < ByteBits /\ x = ByteBits * d + e
  BY <1>1
<1>. HIDE DEF d, e
<1>3. ~ (d < q)
  <2>. SUFFICES ASSUME d < q PROVE FALSE
    OBVIOUS
  <2>1. ByteBits * d + ByteBits <= ByteBits * q
    BY <1>1, <1>2, ProductGrows
  <2>. QED
    BY <1>1, <1>2, <2>1
<1>4. ~ (q < d)
  <2>. SUFFICES ASSUME q < d PROVE FALSE
    OBVIOUS
  <2>1. ByteBits * q + ByteBits <= ByteBits * d
    BY <1>1, <1>2, ProductGrows
  <2>. QED
    BY <1>1, <1>2, <2>1
<1>5. d = q
  BY <1>2, <1>3, <1>4
<1>6. e = r
  BY <1>1, <1>2, <1>5
<1>. QED
  BY <1>5, <1>6 DEF d, e

LEMMA MessageBitAt ==
  ASSUME data \in Seq(ByteValues), NEW q \in Nat, q < Len(data), NEW i \in 1 .. ByteBits
  PROVE  MessageBit(ByteBits * q + i - 1) = data[q + 1][i]
<1>. DEFINE r == i - 1
            k == ByteBits * q + r
<1>1. r \in Nat /\ r < ByteBits /\ r + 1 = i /\ ByteBits \in Nat
  BY CrcNumbers
<1>2. Len(data) \in Nat
  OBVIOUS
<1>3. ByteBits * q + i - 1 = k /\ k \in Nat
  BY <1>1
<1>4. ByteBits * q + ByteBits <= ByteBits * Len(data)
  BY <1>1, <1>2, ProductGrows
<1>5. k < MessageLength
  BY <1>1, <1>2, <1>4 DEF MessageLength
<1>6. k \div ByteBits = q /\ k % ByteBits = r
  BY <1>1, PlaceOfBit
<1>. HIDE DEF k, r
<1>. QED
  BY <1>1, <1>3, <1>5, <1>6 DEF MessageBit

LEMMA MessageBitIsTyped ==
  ASSUME data \in Seq(ByteValues), NEW k \in Nat
  PROVE  MessageBit(k) \in {0, 1}
<1>1. CASE k < MessageLength
  <2>. DEFINE q == k \div ByteBits
              r == k % ByteBits
  <2>1. q \in Nat /\ r \in Nat /\ r < ByteBits /\ k = ByteBits * q + r
    BY CrcNumbers
  <2>. HIDE DEF q, r
  <2>2. q < Len(data)
    <3>. SUFFICES ASSUME ~ (q < Len(data)) PROVE FALSE
      OBVIOUS
    <3>1. Len(data) \in Nat /\ MessageLength \in Nat
      BY LengthIsTyped
    <3>2. CASE q = Len(data)
      BY <1>1, <2>1, <3>1, <3>2, CrcNumbers DEF MessageLength
    <3>3. CASE Len(data) < q
      <4>1. ByteBits * Len(data) + ByteBits <= ByteBits * q
        BY <2>1, <3>1, <3>3, CrcNumbers, ProductGrows
      <4>. QED
        BY <1>1, <2>1, <3>1, <4>1, CrcNumbers DEF MessageLength
    <3>. QED
      BY <2>1, <3>1, <3>2, <3>3
  <2>3. data[q + 1] \in ByteValues
    BY <2>1, <2>2
  <2>4. r + 1 \in 1 .. ByteBits
    BY <2>1, CrcNumbers
  <2>5. data[q + 1][r + 1] \in {0, 1}
    BY <2>3, <2>4 DEF ByteValues
  <2>. QED
    BY <1>1, <2>5 DEF MessageBit, q, r
<1>2. CASE ~ (k < MessageLength)
  BY <1>2 DEF MessageBit
<1>. QED
  BY <1>1, <1>2

(* The bits of the zeros behind the message. *)
LEMMA BehindTheMessage ==
  ASSUME data \in Seq(ByteValues), NEW k \in Nat, k >= MessageLength
  PROVE  MessageBit(k) = 0
<1>1. MessageLength \in Nat
  BY LengthIsTyped
<1>. QED
  BY <1>1 DEF MessageBit

-----------------------------------------------------------------------------
(***************************************************************************)
(* Registers: the sum of two bits, and what the operators of the loop and  *)
(* of the division do to one bit.                                          *)
(***************************************************************************)
LEMMA BitSums ==
  ASSUME NEW a \in {0, 1}, NEW b \in {0, 1}, NEW c \in {0, 1}
  PROVE  /\ (a + b) % 2 \in {0, 1} /\ (a + 0) % 2 = a /\ (0 + a) % 2 = a
         /\ (1 + a) % 2 = 1 - a /\ (1 - a) \in {0, 1}
         /\ (((a + b) % 2) + c) % 2 = (((a + c) % 2) + b) % 2
         /\ (((0 + b) % 2) + c) % 2 = (c + b) % 2
<1>1. a = 0 \/ a = 1
  OBVIOUS
<1>2. b = 0 \/ b = 1
  OBVIOUS
<1>3. c = 0 \/ c = 1
  OBVIOUS
<1>. QED
  BY <1>1, <1>2, <1>3

LEMMA XorBits ==
  ASSUME NEW a \in Registers, NEW b \in Registers
  PROVE  Xor(a, b) \in Registers
<1>1. ASSUME NEW k \in 1 .. Width PROVE (a[k] + b[k]) % 2 \in {0, 1}
  <2>1. a[k] \in {0, 1} /\ b[k] \in {0, 1}
    BY DEF Registers
  <2>. QED
    BY <2>1, BitSums
<1>. QED
  BY <1>1 DEF Xor, Registers

LEMMA ConstantRegisters == Zeros \in Registers /\ Ones \in Registers
BY DEF Zeros, Ones, Registers

LEMMA DividedBits ==
  ASSUME NEW r, NEW bit, NEW k \in 1 .. Width
  PROVE  Divided(r, bit)[k]
           = LET s == IF k < Width THEN r[k + 1] ELSE bit
             IN  IF r[1] = 1 THEN (s + Poly[k]) % 2 ELSE s
BY DEF Divided, Xor

(***************************************************************************)
(* The first Width steps only fill the register: no power is high enough   *)
(* to be divided.                                                          *)
(***************************************************************************)
Filling(k) ==
  \A i \in 1 .. Width :
    Remainders[k][i] = IF i <= Width - k THEN 0 ELSE DividendBit(i + k - Width - 1)

LEMMA FirstStepsFill ==
  ASSUME data \in Seq(ByteValues)
  PROVE  \A k \in 0 .. Width : Filling(k)
<1>. DEFINE Bad == { k \in Nat : k <= Width /\ ~ Filling(k) }
<1>1. Width \in Nat /\ Width > 0 /\ MessageLength \in Nat
  BY CrcNumbers, LengthIsTyped
<1>2. Filling(0)
  <2>1. ASSUME NEW i \in 1 .. Width PROVE Remainders[0][i] = 0 /\ i <= Width - 0
    BY <1>1, RemainderSteps DEF Zeros
  <2>. QED
    BY <2>1 DEF Filling
<1>3. ASSUME NEW k \in Nat, k > 0, k <= Width, Filling(k - 1)
      PROVE  Filling(k)
  <2>. DEFINE r == Remainders[k - 1]
  <2>1. Remainders[k] = Divided(r, DividendBit(k - 1))
    <3>1. k \in 1 .. MessageLength + Width
      BY <1>1, <1>3
    <3>. QED
      BY <3>1, RemainderSteps
  <2>2. \A i \in 1 .. Width : r[i] = IF i <= Width - (k - 1) THEN 0 ELSE DividendBit(i + (k - 1) - Width - 1)
    BY <1>3 DEF Filling
  <2>. HIDE DEF r
  <2>3. r[1] = 0
    <3>1. 1 \in 1 .. Width /\ 1 <= Width - (k - 1)
      BY <1>1, <1>3
    <3>. QED
      BY <2>2, <3>1
  <2>4. ASSUME NEW i \in 1 .. Width
        PROVE  Remainders[k][i] = IF i <= Width - k THEN 0 ELSE DividendBit(i + k - Width - 1)
    <3>1. Remainders[k][i] = IF i < Width THEN r[i + 1] ELSE DividendBit(k - 1)
      BY <2>1, <2>3, DividedBits
    <3>2. CASE i < Width
      <4>1. i + 1 \in 1 .. Width /\ (i + 1 <= Width - (k - 1) <=> i <= Width - k)
            /\ i + 1 + (k - 1) - Width - 1 = i + k - Width - 1
        BY <1>1, <1>3, <3>2
      <4>. QED
        BY <2>2, <3>1, <3>2, <4>1
    <3>3. CASE ~ (i < Width)
      <4>1. i = Width /\ ~ (i <= Width - k) /\ i + k - Width - 1 = k - 1
        BY <1>1, <1>3, <3>3
      <4>. QED
        BY <3>1, <3>3, <4>1
    <3>. QED
      BY <3>2, <3>3
  <2>. QED
    BY <2>4 DEF Filling
<1>4. Bad = {}
  <2>. SUFFICES ASSUME Bad # {} PROVE FALSE
    OBVIOUS
  <2>1. PICK k \in Bad : \A b \in Bad : k <= b
    <3>1. Bad \in SUBSET Nat
      OBVIOUS
    <3>. HIDE DEF Bad
    <3>. QED
      BY <3>1, LeastStep
  <2>2. k \in Nat /\ k <= Width /\ ~ Filling(k) /\ k # 0
    BY <1>2
  <2>3. k - 1 \in Nat /\ k - 1 <= Width /\ ~ (k <= k - 1)
    BY <1>1, <2>2
  <2>4. Filling(k - 1)
    BY <2>1, <2>3
  <2>. QED
    BY <1>3, <2>2, <2>4
<1>. QED
  BY <1>1, <1>4

-----------------------------------------------------------------------------
(***************************************************************************)
(* The invariant.  The register of the loop is what the division has left  *)
(* after Width steps more than bits were shifted, without the bits of the  *)
(* message that the division has taken in and the loop has not: those of   *)
(* the byte it is at, it has.                                              *)
(***************************************************************************)
Shifted == ByteBits * pos - bits

CrcTyped ==
  /\ data \in Seq(ByteValues) /\ crc \in Registers
  /\ pos \in 0 .. Len(data) /\ bits \in 0 .. ByteBits /\ (pos = 0 => bits = 0)
  /\ phase \in {"running", "returned"}

RunsWithTheDivision ==
  phase = "running" =>
    \A i \in 1 .. Width :
      Remainders[Shifted + Width][i]
        = IF i <= bits THEN crc[i] ELSE (crc[i] + MessageBit(Shifted + i - 1)) % 2

CrcInv == CrcTyped /\ RunsWithTheDivision /\ ReturnsTheRemainder

(* The register the loop begins with is the first bits of the dividend without the message. *)
LEMMA CrcInitEstablishes == CrcInit => CrcInv
<1>. SUFFICES ASSUME CrcInit PROVE CrcInv
  OBVIOUS
<1>1. data \in Seq(ByteValues)
  BY CrcAssumption DEF CrcInit, ByteValues
<1>2. pos = 0 /\ bits = 0 /\ Width \in Nat /\ ByteBits \in Nat /\ Len(data) \in Nat
  BY <1>1, CrcNumbers DEF CrcInit
<1>3. CrcTyped
  BY <1>1, <1>2, ConstantRegisters DEF CrcInit, CrcTyped
<1>4. Shifted = 0 /\ Shifted + Width = Width
  BY <1>2 DEF Shifted
<1>5. ASSUME NEW i \in 1 .. Width PROVE Remainders[Width][i] = 1 - MessageBit(i - 1)
  <2>1. Filling(Width)
    BY <1>1, <1>2, FirstStepsFill
  <2>2. ~ (i <= Width - Width) /\ i + Width - Width - 1 = i - 1 /\ i - 1 < Width
    BY <1>2
  <2>3. Remainders[Width][i] = DividendBit(i - 1)
    BY <2>1, <2>2 DEF Filling
  <2>. QED
    BY <2>2, <2>3 DEF DividendBit
<1>6. RunsWithTheDivision
  <2>. SUFFICES ASSUME phase = "running", NEW i \in 1 .. Width
                PROVE  Remainders[Width][i] = (crc[i] + MessageBit(i - 1)) % 2 /\ ~ (i <= bits)
                       /\ Shifted + i - 1 = i - 1
    BY <1>4 DEF RunsWithTheDivision
  <2>1. i - 1 \in Nat /\ Shifted + i - 1 = i - 1 /\ ~ (i <= bits)
    BY <1>2, <1>4
  <2>2. crc[i] = 1
    BY DEF CrcInit, Ones
  <2>3. MessageBit(i - 1) \in {0, 1}
    BY <1>1, <2>1, MessageBitIsTyped
  <2>4. (1 + MessageBit(i - 1)) % 2 = 1 - MessageBit(i - 1)
    BY <2>3, BitSums
  <2>. QED
    BY <1>5, <2>1, <2>2, <2>4
<1>7. ReturnsTheRemainder
  <2>. SUFFICES ASSUME phase = "returned" PROVE crc = Not(Remainder)
    BY DEF ReturnsTheRemainder
  <2>1. data = << >> /\ crc = Zeros
    BY DEF CrcInit
  <2>2. MessageLength = 0
    BY <1>2, <2>1 DEF MessageLength
  <2>3. Remainder = Remainders[Width]
    BY <1>2, <2>2 DEF Remainder
  <2>4. ASSUME NEW i \in 1 .. Width PROVE (Remainder[i] + Ones[i]) % 2 = 0
    <3>1. i - 1 \in Nat /\ i - 1 >= MessageLength
      BY <2>2
    <3>2. MessageBit(i - 1) = 0
      BY <1>1, <3>1, BehindTheMessage
    <3>3. Remainder[i] = 1
      BY <1>5, <2>3, <3>2
    <3>. QED
      BY <3>3 DEF Ones
  <2>5. Not(Remainder) = Zeros
    BY <2>4 DEF Not, Xor, Zeros
  <2>. QED
    BY <2>1, <2>5
<1>. QED
  BY <1>3, <1>6, <1>7 DEF CrcInv

(* The division is of the message alone. *)
LEMMA SameDivision ==
  ASSUME data' = data
  PROVE  /\ Remainders' = Remainders /\ Remainder' = Remainder /\ MessageLength' = MessageLength
         /\ \A k : MessageBit(k)' = MessageBit(k)
<1>1. MessageLength' = MessageLength
  BY DEF MessageLength
<1>2. \A k : MessageBit(k)' = MessageBit(k)
  BY <1>1 DEF MessageBit
<1>3. Remainders' = Remainders
  BY <1>1 DEF Remainders, DividendBit, MessageBit
<1>. QED
  BY <1>1, <1>2, <1>3 DEF Remainder

LEMMA StateFacts ==
  ASSUME CrcTyped
  PROVE  /\ data \in Seq(ByteValues) /\ Len(data) \in Nat /\ pos \in Nat /\ pos <= Len(data)
         /\ bits \in Nat /\ bits <= ByteBits /\ ByteBits \in Nat /\ ByteBits > 0 /\ ByteBits <= Width
         /\ Width \in Nat /\ Width > 0 /\ MessageLength \in Nat
         /\ Shifted \in Nat /\ ByteBits * pos \in Nat /\ ByteBits * pos <= MessageLength
<1>1. /\ data \in Seq(ByteValues) /\ Len(data) \in Nat /\ pos \in Nat /\ pos <= Len(data)
      /\ bits \in Nat /\ bits <= ByteBits /\ ByteBits \in Nat /\ ByteBits > 0 /\ ByteBits <= Width
      /\ Width \in Nat /\ Width > 0 /\ MessageLength \in Nat
  BY CrcNumbers, LengthIsTyped DEF CrcTyped
<1>2. CASE pos = 0
  <2>1. bits = 0 /\ ByteBits * pos = 0
    BY <1>1, <1>2 DEF CrcTyped
  <2>. QED
    BY <1>1, <2>1 DEF Shifted
<1>3. CASE pos # 0
  <2>1. ByteBits * 0 + ByteBits <= ByteBits * pos
    BY <1>1, <1>3, ProductGrows
  <2>2. ByteBits * pos \in Nat /\ ByteBits * 0 = 0
    BY <1>1
  <2>3. ByteBits * pos <= MessageLength
    <3>1. CASE pos = Len(data)
      BY <1>1, <2>2, <3>1 DEF MessageLength
    <3>2. CASE pos < Len(data)
      <4>1. ByteBits * pos + ByteBits <= ByteBits * Len(data)
        BY <1>1, <3>2, ProductGrows
      <4>. QED
        BY <1>1, <2>2, <4>1 DEF MessageLength
    <3>. QED
      BY <1>1, <3>1, <3>2
  <2>. QED
    BY <1>1, <2>1, <2>2, <2>3 DEF Shifted
<1>. QED
  BY <1>1, <1>2, <1>3

(* The division has taken the bits of the byte in; now the loop has. *)
LEMMA TakeByteKeeps ==
  ASSUME CrcInv, TakeByte
  PROVE  CrcInv'
<1>1. CrcTyped /\ RunsWithTheDivision
  BY DEF CrcInv
<1>2. /\ phase = "running" /\ bits = 0 /\ pos < Len(data)
      /\ crc' = Xor(crc, Widened(data[pos + 1])) /\ pos' = pos + 1 /\ bits' = ByteBits
      /\ data' = data /\ phase' = phase
  BY DEF TakeByte
<1>. DEFINE byte == data[pos + 1]
<1>3. byte \in ByteValues
  BY <1>1, <1>2, StateFacts
<1>4. Widened(byte) \in Registers
  <2>1. ASSUME NEW k \in 1 .. Width, k <= ByteBits PROVE byte[k] \in {0, 1}
    BY <1>1, <1>3, <2>1, StateFacts DEF ByteValues
  <2>. QED
    BY <2>1 DEF Widened, Registers
<1>5. crc' \in Registers
  BY <1>1, <1>2, <1>4, XorBits DEF CrcTyped
<1>6. CrcTyped'
  BY <1>1, <1>2, <1>5, StateFacts DEF CrcTyped
<1>7. Shifted' = Shifted /\ Shifted = ByteBits * pos /\ Shifted \in Nat
  <2>1. ByteBits * (pos + 1) = ByteBits * pos + ByteBits /\ ByteBits * pos \in Nat
    BY <1>1, StateFacts
  <2>. QED
    BY <1>1, <1>2, <2>1, StateFacts DEF Shifted
<1>8. RunsWithTheDivision'
  <2>. SUFFICES ASSUME NEW i \in 1 .. Width
                PROVE  Remainders[Shifted + Width][i]
                         = IF i <= ByteBits THEN crc'[i] ELSE (crc'[i] + MessageBit(Shifted + i - 1)) % 2
    BY <1>2, <1>7, SameDivision DEF RunsWithTheDivision
  <2>. DEFINE bit == MessageBit(Shifted + i - 1)
  <2>1. i \in Nat /\ i >= 1 /\ Shifted + i - 1 \in Nat
    BY <1>7
  <2>2. bit \in {0, 1} /\ crc[i] \in {0, 1}
    BY <1>1, <2>1, StateFacts, MessageBitIsTyped DEF CrcTyped, Registers
  <2>3. Remainders[Shifted + Width][i] = (crc[i] + bit) % 2
    BY <1>1, <1>2, <2>1 DEF RunsWithTheDivision
  <2>4. crc'[i] = (crc[i] + Widened(byte)[i]) % 2
    BY <1>2 DEF Xor
  <2>5. CASE i <= ByteBits
    <3>1. i \in 1 .. ByteBits
      BY <1>1, <2>1, <2>5, StateFacts
    <3>2. bit = byte[i]
      BY <1>1, <1>2, <1>7, <3>1, StateFacts, MessageBitAt
    <3>3. Widened(byte)[i] = byte[i]
      BY <2>5 DEF Widened
    <3>. QED
      BY <2>3, <2>4, <2>5, <3>2, <3>3
  <2>6. CASE ~ (i <= ByteBits)
    <3>1. Widened(byte)[i] = 0
      BY <2>6 DEF Widened
    <3>2. crc'[i] = crc[i]
      BY <2>2, <2>4, <3>1, BitSums
    <3>. QED
      BY <2>3, <2>6, <3>2
  <2>. QED
    BY <2>5, <2>6
<1>9. ReturnsTheRemainder'
  BY <1>2 DEF ReturnsTheRemainder
<1>. QED
  BY <1>6, <1>8, <1>9 DEF CrcInv

(* Both registers shift, and both are reduced or neither: the first bits agree. *)
LEMMA ShiftBitKeeps ==
  ASSUME CrcInv, ShiftBit
  PROVE  CrcInv'
<1>. DEFINE mask == IF crc[1] = 1 THEN Poly ELSE Zeros
            r == Remainders[Shifted + Width]
            s == Remainders[Shifted + 1 + Width]
            M(i) == MessageBit(Shifted + i - 1)
<1>1. CrcTyped /\ RunsWithTheDivision
  BY DEF CrcInv
<1>2. /\ phase = "running" /\ bits > 0
      /\ crc' = Xor(ShiftRight(crc), mask) /\ bits' = bits - 1
      /\ data' = data /\ pos' = pos /\ phase' = phase
  BY DEF ShiftBit
<1>3. pos # 0 /\ crc \in Registers
  BY <1>1, <1>2 DEF CrcTyped
<1>4. ShiftRight(crc) \in Registers
  <2>1. ASSUME NEW k \in 1 .. Width, k < Width PROVE crc[k + 1] \in {0, 1}
    <3>1. k + 1 \in 1 .. Width
      BY <1>1, <2>1, StateFacts
    <3>. QED
      BY <1>3, <3>1 DEF Registers
  <2>. QED
    BY <2>1 DEF ShiftRight, Registers
<1>5. mask \in Registers
  BY CrcNumbers, ConstantRegisters
<1>6. crc' \in Registers
  BY <1>2, <1>4, <1>5, XorBits
<1>7. CrcTyped'
  BY <1>1, <1>2, <1>3, <1>6, StateFacts DEF CrcTyped
<1>8. Shifted' = Shifted + 1 /\ Shifted \in Nat /\ Shifted + 1 <= MessageLength
  <2>1. Shifted' = Shifted + 1
    <3>1. ByteBits * pos \in Nat
      BY <1>1, StateFacts
    <3>. QED
      BY <1>1, <1>2, <3>1, StateFacts DEF Shifted
  <2>2. Shifted + 1 <= MessageLength
    BY <1>1, <1>2, StateFacts DEF Shifted
  <2>. QED
    BY <1>1, <2>1, <2>2, StateFacts
<1>9. s = Divided(r, MessageBit(Shifted + Width))
  <2>1. /\ Shifted + 1 + Width \in 1 .. MessageLength + Width
        /\ Shifted + 1 + Width - 1 = Shifted + Width
        /\ ~ (Shifted + Width < Width)
    BY <1>1, <1>8, StateFacts
  <2>2. s = Divided(r, DividendBit(Shifted + Width))
    BY <1>1, <2>1, StateFacts, RemainderSteps
  <2>. QED
    BY <2>1, <2>2 DEF DividendBit
<1>10. \A i \in 1 .. Width : r[i] = IF i <= bits THEN crc[i] ELSE (crc[i] + M(i)) % 2
  BY <1>1, <1>2 DEF RunsWithTheDivision
<1>11. r[1] = crc[1]
  <2>1. 1 \in 1 .. Width /\ 1 <= bits
    BY <1>1, <1>2, StateFacts
  <2>. HIDE DEF r
  <2>. QED
    BY <1>10, <2>1
<1>12. ASSUME NEW i \in 1 .. Width PROVE M(i) \in {0, 1} /\ crc[i] \in {0, 1}
  <2>1. Shifted + i - 1 \in Nat
    BY <1>8
  <2>. QED
    BY <1>1, <1>3, <2>1, StateFacts, MessageBitIsTyped DEF Registers
<1>13. RunsWithTheDivision'
  <2>. SUFFICES ASSUME NEW i \in 1 .. Width
                PROVE  s[i] = IF i <= bits - 1 THEN crc'[i]
                              ELSE (crc'[i] + MessageBit(Shifted + 1 + i - 1)) % 2
    BY <1>2, <1>8, SameDivision DEF RunsWithTheDivision
  <2>. HIDE DEF s, r
  <2>. DEFINE low == IF i < Width THEN crc[i + 1] ELSE 0
              next == IF i < Width THEN r[i + 1] ELSE MessageBit(Shifted + Width)
              taken == MessageBit(Shifted + i)
  <2>1. i \in Nat /\ i >= 1 /\ i <= Width /\ Shifted + 1 + i - 1 = Shifted + i /\ Shifted + i \in Nat
    BY <1>8, CrcNumbers
  <2>2. s[i] = IF crc[1] = 1 THEN (next + Poly[i]) % 2 ELSE next
    BY <1>9, <1>11, DividedBits
  <2>3. crc'[i] = (low + mask[i]) % 2
    BY <1>2 DEF Xor, ShiftRight
  <2>4. taken \in {0, 1}
    BY <1>1, <2>1, StateFacts, MessageBitIsTyped
  <2>5. low \in {0, 1}
    <3>1. CASE i < Width
      <4>1. i + 1 \in 1 .. Width
        BY <2>1, <3>1, CrcNumbers
      <4>. QED
        BY <1>12, <3>1, <4>1
    <3>. QED
      BY <3>1
  <2>6. mask[i] = (IF crc[1] = 1 THEN Poly[i] ELSE 0) /\ mask[i] \in {0, 1}
    BY <1>5 DEF Zeros, Registers
  <2>7. next = IF i <= bits - 1 THEN low ELSE (low + taken) % 2
    <3>1. CASE i < Width
      <4>1. i + 1 \in 1 .. Width /\ (i + 1 <= bits <=> i <= bits - 1) /\ Shifted + (i + 1) - 1 = Shifted + i
        BY <1>1, <1>8, <2>1, <3>1, StateFacts
      <4>2. r[i + 1] = IF i + 1 <= bits THEN crc[i + 1] ELSE (crc[i + 1] + M(i + 1)) % 2
        BY <1>10, <4>1
      <4>. QED
        BY <3>1, <4>1, <4>2
    <3>2. CASE ~ (i < Width)
      <4>1. i = Width /\ ~ (i <= bits - 1)
        BY <1>1, <2>1, <3>2, StateFacts
      <4>2. (0 + taken) % 2 = taken
        BY <2>4, BitSums
      <4>. QED
        BY <3>2, <4>1, <4>2
    <3>. QED
      BY <3>1, <3>2
  <2>. HIDE DEF low, next, taken, mask
  <2>8. s[i] = IF i <= bits - 1 THEN (low + mask[i]) % 2 ELSE (((low + mask[i]) % 2) + taken) % 2
    <3>1. (low + 0) % 2 = low /\ (((low + taken) % 2) + 0) % 2 = (low + taken) % 2
      BY <2>4, <2>5, BitSums
    <3>2. (((low + taken) % 2) + mask[i]) % 2 = (((low + mask[i]) % 2) + taken) % 2
      BY <2>4, <2>5, <2>6, BitSums
    <3>3. CASE crc[1] = 1
      BY <2>2, <2>6, <2>7, <3>2, <3>3
    <3>4. CASE crc[1] # 1
      <4>1. s[i] = next /\ mask[i] = 0
        BY <2>2, <2>6, <3>4
      <4>. QED
        BY <2>7, <3>1, <4>1
    <3>. QED
      BY <3>3, <3>4
  <2>. QED
    BY <2>1, <2>3, <2>8 DEF taken
<1>14. ReturnsTheRemainder'
  BY <1>2 DEF ReturnsTheRemainder
<1>. QED
  BY <1>7, <1>13, <1>14 DEF CrcInv

(* Behind the message there are only zeros: the two registers are one. *)
LEMMA ReturnKeeps ==
  ASSUME CrcInv, Return
  PROVE  CrcInv'
<1>1. CrcTyped /\ RunsWithTheDivision
  BY DEF CrcInv
<1>2. /\ phase = "running" /\ bits = 0 /\ pos = Len(data)
      /\ crc' = Not(crc) /\ phase' = "returned"
      /\ data' = data /\ pos' = pos /\ bits' = bits
  BY DEF Return
<1>3. CrcTyped'
  <2>1. crc' \in Registers
    BY <1>1, <1>2, XorBits, ConstantRegisters DEF CrcTyped, Not
  <2>. QED
    BY <1>1, <1>2, <2>1 DEF CrcTyped
<1>4. Shifted = MessageLength /\ MessageLength \in Nat
  <2>1. ByteBits * pos \in Nat
    BY <1>1, StateFacts
  <2>. QED
    BY <1>1, <1>2, <2>1, StateFacts DEF Shifted, MessageLength
<1>5. ASSUME NEW i \in 1 .. Width PROVE Remainder[i] = crc[i]
  <2>1. Shifted + i - 1 \in Nat /\ Shifted + i - 1 >= MessageLength /\ ~ (i <= bits)
    BY <1>2, <1>4
  <2>2. MessageBit(Shifted + i - 1) = 0
    BY <1>1, <2>1, StateFacts, BehindTheMessage
  <2>3. Remainders[Shifted + Width][i] = (crc[i] + 0) % 2
    BY <1>1, <1>2, <2>1, <2>2 DEF RunsWithTheDivision
  <2>4. crc[i] \in {0, 1}
    BY <1>1 DEF CrcTyped, Registers
  <2>5. (crc[i] + 0) % 2 = crc[i]
    BY <2>4, BitSums
  <2>. QED
    BY <1>4, <2>3, <2>5 DEF Remainder
<1>6. Not(Remainder) = Not(crc)
  BY <1>5 DEF Not, Xor
<1>7. ReturnsTheRemainder'
  BY <1>2, <1>6, SameDivision DEF ReturnsTheRemainder
<1>8. RunsWithTheDivision'
  BY <1>2 DEF RunsWithTheDivision
<1>. QED
  BY <1>3, <1>7, <1>8 DEF CrcInv

(***************************************************************************)
(* imageforge_crc32 is division by the polynomial: for every width of the  *)
(* register, every polynomial, every width of a byte no wider than the     *)
(* register and every message, the loop that takes a byte at once and      *)
(* never appends a zero returns the complement of the remainder.           *)
(***************************************************************************)
THEOREM CrcIsTheRemainder == CrcSpec => []ReturnsTheRemainder
<1>1. CrcInv /\ [CrcNext]_crcVars => CrcInv'
  <2>. SUFFICES ASSUME CrcInv, [CrcNext]_crcVars PROVE CrcInv'
    OBVIOUS
  <2>1. CASE UNCHANGED crcVars
    <3>1. UNCHANGED << data, crc, pos, bits, phase >>
      BY <2>1 DEF crcVars
    <3>2. CrcTyped' /\ Shifted' = Shifted
      BY <3>1 DEF CrcInv, CrcTyped, Shifted
    <3>3. RunsWithTheDivision'
      BY <3>1, <3>2, SameDivision DEF CrcInv, RunsWithTheDivision
    <3>4. ReturnsTheRemainder'
      BY <3>1, SameDivision DEF CrcInv, ReturnsTheRemainder
    <3>. QED
      BY <3>2, <3>3, <3>4 DEF CrcInv
  <2>. QED
    BY <2>1, TakeByteKeeps, ShiftBitKeeps, ReturnKeeps DEF CrcNext
<1>2. CrcInv => ReturnsTheRemainder
  BY DEF CrcInv
<1>. QED
  BY <1>1, <1>2, CrcInitEstablishes, PTL DEF CrcSpec

=============================================================================
