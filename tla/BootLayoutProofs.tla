-------------------------- MODULE BootLayoutProofs --------------------------
(***************************************************************************)
(* Type correctness, SectionsInSource, SectionsInOrder and TailCovered of  *)
(* the layout, for every set of images, size of page and width of number.  *)
(*                                                                         *)
(* The inductive invariant adds what the cursor means: until the layout    *)
(* ends it is behind the header and behind every section placed.  A dtb    *)
(* taken from the end of the image moves the cursor to the end, which is   *)
(* behind the header only because an image that has a dtb is no shorter    *)
(* than its header.                                                        *)
(***************************************************************************)
EXTENDS BootLayout, SequenceTheorems, TLAPS

BootHeaders ==
  [kind : {"boot"}, version : Nat, headerSize : Nat, page : Nat,
   kernel : Nat, ramdisk : Nat, second : Nat, recoveryDtbo : Nat,
   recoveryDtboOffset : Nat, dtb : Nat, signature : Nat]

VendorHeaders ==
  [kind : {"vendor"}, version : Nat, headerSize : Nat, page : Nat,
   vendorRamdisk : Nat, dtb : Nat, table : Nat, bootconfig : Nat]

HeaderParsed ==
  /\ hdr \in BootHeaders \cup VendorHeaders
  /\ hdr.kind = "boot" /\ hdr.dtb # 0 => hdr.headerSize <= source

NothingPlacedYet == stage = "header" => sections = << >>

HeaderChecked == stage \notin {"header", "rejected"} => Page \in Nat \ {0}

CursorPast ==
  stage \notin {"header", "accepted", "rejected"} =>
    /\ hdr.headerSize <= cursor
    /\ \A k \in Placed : End(sections[k]) <= cursor

IInv ==
  /\ TypeOK
  /\ HeaderParsed
  /\ NothingPlacedYet
  /\ HeaderChecked
  /\ CursorPast
  /\ SectionsInSource
  /\ SectionsInOrder

AllSections == [kind : Stages \cup {"signature"}, offset : Nat, size : Nat]

-----------------------------------------------------------------------------
(* Aligning never moves back. *)
LEMMA AlignUpIsPast ==
  ASSUME NEW value \in Nat, NEW alignment \in Nat \ {0}
  PROVE  AlignUp(value, alignment) \in Nat /\ AlignUp(value, alignment) >= value
<1>1. value % alignment \in 0 .. alignment - 1
  OBVIOUS
<1>. QED
  BY <1>1 DEF AlignUp

LEMMA ConstantFacts ==
  /\ MaxU64 \in Nat /\ MinPage \in Nat \ {0} /\ TableAlign \in Nat \ {0}
  /\ ModernPage \in Nat \ {0}
  BY LayoutAssumption, HeaderAssumption

LEMMA HeaderFields ==
  ASSUME HeaderParsed
  PROVE  /\ hdr.version \in Nat /\ hdr.headerSize \in Nat /\ hdr.page \in Nat
         /\ hdr.dtb \in Nat
         /\ hdr.kind = "boot" =>
              /\ hdr.kernel \in Nat /\ hdr.ramdisk \in Nat /\ hdr.second \in Nat
              /\ hdr.recoveryDtbo \in Nat /\ hdr.recoveryDtboOffset \in Nat
              /\ hdr.signature \in Nat
         /\ hdr.kind = "vendor" =>
              hdr.vendorRamdisk \in Nat /\ hdr.table \in Nat /\ hdr.bootconfig \in Nat
<1>1. CASE hdr \in BootHeaders
  BY <1>1 DEF BootHeaders
<1>2. CASE hdr \in VendorHeaders
  BY <1>2 DEF VendorHeaders
<1>. QED
  BY <1>1, <1>2 DEF HeaderParsed

(* The end of a section placed is a number. *)
LEMMA EndIsNat ==
  ASSUME NEW secs \in Seq(AllSections), NEW k \in DOMAIN secs
  PROVE  /\ secs[k].offset \in Nat
         /\ End(secs[k]) \in Nat /\ secs[k].offset <= End(secs[k])
<1>1. secs[k] \in AllSections
  OBVIOUS
<1>. QED
  BY <1>1 DEF AllSections, End

-----------------------------------------------------------------------------
(***************************************************************************)
(* Giving the layout up, and passing over an absent section.               *)
(***************************************************************************)
LEMMA RejectKeepsIInv ==
  ASSUME IInv, Reject
  PROVE  IInv'
  BY ConstantFacts
  DEF Reject, IInv, TypeOK, Stages, HeaderParsed, NothingPlacedYet, HeaderChecked, CursorPast,
      SectionsInSource, SectionsInOrder, Placed

LEMMA SkipKeepsIInv ==
  ASSUME IInv, NEW next \in Stages \ {"header"}, Skip(next),
         stage \notin {"header", "accepted", "rejected"}
  PROVE  IInv'
<1>1. UNCHANGED << hdr, source, cursor, sections >> /\ stage' = next
  BY DEF Skip
<1>2. TypeOK' /\ HeaderParsed' /\ NothingPlacedYet'
  BY <1>1 DEF IInv, TypeOK, HeaderParsed, NothingPlacedYet
<1>3. HeaderChecked' /\ CursorPast'
  BY <1>1 DEF IInv, HeaderChecked, CursorPast, Placed, Page, Modern
<1>4. SectionsInSource' /\ SectionsInOrder'
  BY <1>1 DEF IInv, SectionsInSource, SectionsInOrder, Placed, Sequential
<1>. QED
  BY <1>2, <1>3, <1>4 DEF IInv

(***************************************************************************)
(* One section more.  A sequential one must not start before the cursor.   *)
(***************************************************************************)
LEMMA AppendKeepsOrder ==
  ASSUME IInv, UNCHANGED << hdr, source >>,
         stage \notin {"header", "accepted", "rejected"},
         NEW kind \in Stages, NEW offset \in Nat, NEW size \in Nat,
         sections' = Append(sections, Section(kind, offset, size)),
         offset + size <= source,
         kind = "dtb" \/ cursor <= offset
  PROVE  /\ sections' \in Seq(AllSections)
         /\ SectionsInSource'
         /\ SectionsInOrder'
         /\ \A k \in Placed' :
              End(sections'[k]) = offset + size
                \/ (k \in Placed /\ End(sections'[k]) = End(sections[k]))
<1>. DEFINE s == Section(kind, offset, size)
            n == Len(sections)
<1>0. s \in AllSections
  BY DEF Section, AllSections
<1>1. sections \in Seq(AllSections) /\ s \in AllSections /\ n \in Nat
  BY <1>0 DEF IInv, TypeOK, AllSections
<1>2. s.kind = kind /\ s.offset = offset /\ End(s) = offset + size
  BY DEF Section, End
<1>. HIDE DEF s
<1>3. sections' = Append(sections, s)
  BY DEF s
<1>4. sections' \in Seq(AllSections)
  BY <1>1, <1>3
<1>5. /\ Placed = 1 .. n /\ Placed' = 1 .. n + 1
      /\ \A k \in 1 .. n : sections'[k] = sections[k]
      /\ sections'[n + 1] = s
  BY <1>1, <1>3 DEF Placed
<1>6. SectionsInSource'
  <2>1. SUFFICES ASSUME NEW k \in 1 .. n + 1 PROVE End(sections'[k]) <= source
    BY <1>5, <2>1 DEF SectionsInSource, End
  <2>2. CASE k = n + 1
    BY <1>2, <1>5, <2>2
  <2>3. CASE k \in 1 .. n
    BY <1>5, <2>3 DEF IInv, SectionsInSource
  <2>. QED
    BY <1>1, <2>2, <2>3
<1>7. SectionsInOrder'
  <2>1. SUFFICES ASSUME NEW k \in 1 .. n + 1, sections'[k].kind \notin {"dtb", "signature"}
                 PROVE  /\ hdr.headerSize <= sections'[k].offset
                        /\ \A j \in 1 .. k - 1 : End(sections'[j]) <= sections'[k].offset
    BY <1>5 DEF SectionsInOrder, Sequential, End
  <2>2. CASE k = n + 1
    <3>1. cursor <= offset /\ sections'[k].offset = offset
      BY <1>2, <1>5, <2>1, <2>2
    <3>2. hdr.headerSize <= cursor /\ hdr.headerSize \in Nat /\ cursor \in Nat
      BY HeaderFields, ConstantFacts DEF IInv, CursorPast, TypeOK
    <3>3. ASSUME NEW j \in 1 .. n PROVE End(sections'[j]) <= offset
      <4>1. End(sections[j]) <= cursor
        BY <1>5 DEF IInv, CursorPast
      <4>2. End(sections[j]) \in Nat
        BY <1>1, <1>5, EndIsNat DEF Placed
      <4>. QED
        BY <1>5, <3>1, <3>2, <4>1, <4>2
    <3>. QED
      BY <1>1, <2>2, <3>1, <3>2, <3>3
  <2>3. CASE k \in 1 .. n
    <3>1. Sequential(k) /\ k \in Placed
      BY <1>5, <2>1, <2>3 DEF Sequential
    <3>2. /\ hdr.headerSize <= sections[k].offset
          /\ \A j \in 1 .. k - 1 : End(sections[j]) <= sections[k].offset
      BY <3>1 DEF IInv, SectionsInOrder
    <3>3. \A j \in 1 .. k - 1 : j \in 1 .. n
      BY <1>1, <2>3
    <3>. QED
      BY <1>5, <2>3, <3>2, <3>3
  <2>. QED
    BY <1>1, <2>2, <2>3
<1>8. ASSUME NEW k \in Placed'
      PROVE  End(sections'[k]) = offset + size
               \/ (k \in Placed /\ End(sections'[k]) = End(sections[k]))
  BY <1>1, <1>2, <1>5
<1>. QED
  BY <1>4, <1>6, <1>7, <1>8

LEMMA PlaceKeepsIInv ==
  ASSUME IInv,
         stage \notin {"header", "accepted", "rejected"},
         NEW kind \in Stages, NEW offset \in Nat, NEW size \in Nat,
         NEW alignment \in Nat \ {0}, NEW next \in Stages \ {"header"},
         \/ cursor <= offset
         \/ kind = "dtb" /\ offset + size = source /\ hdr.headerSize <= source,
         Place(Section(kind, offset, size), alignment, next)
  PROVE  IInv'
<1>. DEFINE s == Section(kind, offset, size)
<1>1. CASE ~ InSource(s) \/ ~ FitsU64(AlignUp(End(s), alignment))
  BY <1>1, RejectKeepsIInv DEF Place
<1>2. CASE InSource(s) /\ FitsU64(AlignUp(End(s), alignment))
  <2>1. /\ sections' = Append(sections, s)
        /\ cursor' = AlignUp(End(s), alignment)
        /\ stage' = next
        /\ UNCHANGED << hdr, source >>
    BY <1>2 DEF Place
  <2>2. End(s) = offset + size /\ End(s) \in Nat
    BY DEF Section, End
  <2>3. cursor' \in Nat /\ offset + size <= cursor' /\ cursor' <= MaxU64
    BY <1>2, <2>1, <2>2, AlignUpIsPast DEF FitsU64
  <2>4. offset + size <= source
    BY <1>2, <2>2 DEF InSource
  <2>5. /\ sections' \in Seq(AllSections)
        /\ SectionsInSource'
        /\ SectionsInOrder'
        /\ \A k \in Placed' :
             End(sections'[k]) = offset + size
               \/ (k \in Placed /\ End(sections'[k]) = End(sections[k]))
    BY <2>1, <2>4, AppendKeepsOrder
  <2>6. TypeOK' /\ HeaderParsed' /\ NothingPlacedYet'
    BY <2>1, <2>3, <2>5, ConstantFacts
    DEF IInv, TypeOK, HeaderParsed, NothingPlacedYet, AllSections
  <2>7. HeaderChecked'
    BY <2>1 DEF IInv, HeaderChecked, Page, Modern
  <2>8. CursorPast'
    <3>1. cursor \in Nat /\ source \in Nat /\ hdr.headerSize \in Nat
      BY HeaderFields, ConstantFacts DEF IInv, TypeOK
    <3>2. hdr.headerSize <= cursor'
      BY <2>3, <3>1 DEF IInv, CursorPast
    <3>3. ASSUME NEW k \in Placed PROVE End(sections[k]) <= cursor'
      <4>1. End(sections[k]) \in Nat
        BY EndIsNat DEF IInv, TypeOK, AllSections, Placed
      <4>2. End(sections[k]) <= cursor /\ End(sections[k]) <= source
        BY DEF IInv, CursorPast, SectionsInSource
      <4>. QED
        BY <2>3, <3>1, <4>1, <4>2
    <3>4. ASSUME NEW k \in Placed' PROVE End(sections'[k]) <= cursor'
      BY <2>3, <2>5, <3>3
    <3>. QED
      BY <2>1, <3>2, <3>4 DEF CursorPast, End
  <2>. QED
    BY <2>5, <2>6, <2>7, <2>8 DEF IInv
<1>. QED
  BY <1>1, <1>2

(* A section that lies where the one before it ended. *)
LEMMA PlaceNextKeepsIInv ==
  ASSUME IInv,
         NEW kind \in Stages \ {"header", "accepted", "rejected"}, NEW size \in Nat,
         NEW alignment, HeaderChecked => alignment \in Nat \ {0},
         NEW next \in Stages \ {"header"},
         PlaceNext(kind, size, alignment, next)
  PROVE  IInv'
<1>1. stage = kind /\ cursor \in Nat /\ alignment \in Nat \ {0}
  BY ConstantFacts DEF PlaceNext, IInv, TypeOK
<1>2. CASE size = 0
  BY <1>1, <1>2, SkipKeepsIInv DEF PlaceNext
<1>3. CASE size # 0
  BY <1>1, <1>3, PlaceKeepsIInv DEF PlaceNext
<1>. QED
  BY <1>2, <1>3

(***************************************************************************)
(* The steps that are more than one section behind another.                *)
(***************************************************************************)
LEMMA StartKeepsIInv ==
  ASSUME IInv, StartAfterHeader
  PROVE  IInv'
<1>1. CASE ~ ValidPage \/ ~ LongEnoughHeader \/ ~ FitsU64(AlignUp(hdr.headerSize, Page))
  BY <1>1, RejectKeepsIInv DEF StartAfterHeader
<1>2. CASE ValidPage /\ LongEnoughHeader /\ FitsU64(AlignUp(hdr.headerSize, Page))
  <2>1. /\ stage = "header"
        /\ cursor' = AlignUp(hdr.headerSize, Page)
        /\ stage' = IF hdr.kind = "boot" THEN "kernel" ELSE "vendorRamdisk"
        /\ UNCHANGED << hdr, source, sections >>
    BY <1>2 DEF StartAfterHeader
  <2>2. sections = << >> /\ sections' = << >>
    BY <2>1 DEF IInv, NothingPlacedYet
  <2>3. hdr.headerSize \in Nat /\ hdr.page \in Nat
    BY HeaderFields DEF IInv
  <2>4. Page \in Nat \ {0} /\ Page' = Page
    BY <1>2, <2>1, <2>3, ConstantFacts DEF Page, ValidPage, Modern
  <2>5. cursor' \in Nat /\ hdr.headerSize <= cursor' /\ cursor' <= MaxU64
    BY <1>2, <2>1, <2>3, <2>4, AlignUpIsPast DEF FitsU64
  <2>6. TypeOK' /\ HeaderParsed' /\ NothingPlacedYet'
    BY <2>1, <2>2, <2>5, ConstantFacts
    DEF IInv, TypeOK, Stages, HeaderParsed, NothingPlacedYet
  <2>7. HeaderChecked' /\ CursorPast'
    BY <2>1, <2>2, <2>4, <2>5 DEF HeaderChecked, CursorPast, Placed
  <2>8. SectionsInSource' /\ SectionsInOrder'
    BY <2>2 DEF SectionsInSource, SectionsInOrder, Placed
  <2>. QED
    BY <2>6, <2>7, <2>8 DEF IInv
<1>. QED
  BY <1>1, <1>2

LEMMA RecoveryDtboKeepsIInv ==
  ASSUME IInv, PlaceRecoveryDtbo
  PROVE  IInv'
<1>1. /\ stage = "recoveryDtbo" /\ Page \in Nat \ {0} /\ cursor \in Nat
      /\ hdr.recoveryDtbo \in Nat /\ hdr.recoveryDtboOffset \in Nat
  BY HeaderFields, ConstantFacts DEF PlaceRecoveryDtbo, IInv, TypeOK, HeaderChecked
<1>2. RecoveryDtboOffset \in Nat /\ cursor <= RecoveryDtboOffset
  BY <1>1 DEF RecoveryDtboOffset
<1>3. "dtb" \in Stages \ {"header"} /\ "recoveryDtbo" \in Stages
  BY DEF Stages
<1>4. CASE hdr.version = 0 \/ hdr.recoveryDtbo = 0
  BY <1>1, <1>3, <1>4, SkipKeepsIInv DEF PlaceRecoveryDtbo
<1>5. CASE ~ (hdr.version = 0 \/ hdr.recoveryDtbo = 0)
  <2>1. Place(Section("recoveryDtbo", RecoveryDtboOffset, hdr.recoveryDtbo), Page, "dtb")
    BY <1>5 DEF PlaceRecoveryDtbo
  <2>. QED
    BY <1>1, <1>2, <1>3, <2>1, PlaceKeepsIInv
<1>. QED
  BY <1>4, <1>5

LEMMA DtbKeepsIInv ==
  ASSUME IInv, PlaceDtb
  PROVE  IInv'
<1>1. /\ stage = "dtb" /\ hdr.kind = "boot" /\ Page \in Nat \ {0}
      /\ cursor \in Nat /\ source \in Nat /\ hdr.dtb \in Nat
  BY HeaderFields, ConstantFacts DEF PlaceDtb, IInv, TypeOK, HeaderChecked
<1>2. "tail" \in Stages \ {"header"} /\ "dtb" \in Stages
  BY DEF Stages
<1>3. CASE hdr.version < 2 \/ hdr.dtb = 0
  BY <1>1, <1>2, <1>3, SkipKeepsIInv DEF PlaceDtb
<1>4. CASE ~ (hdr.version < 2 \/ hdr.dtb = 0)
  <2>1. Place(Section("dtb", DtbOffset, hdr.dtb), Page, "tail")
    BY <1>4 DEF PlaceDtb
  <2>2. hdr.headerSize <= source
    BY <1>1, <1>4 DEF IInv, HeaderParsed
  <2>3. CASE cursor <= DtbOffset
    <3>1. DtbOffset \in Nat
      BY <1>1 DEF DtbOffset
    <3>. QED
      BY <1>1, <1>2, <2>1, <2>3, <3>1, PlaceKeepsIInv
  <2>4. CASE hdr.dtb <= source /\ DtbOffset = source - hdr.dtb
    <3>1. DtbOffset \in Nat /\ DtbOffset + hdr.dtb = source
      BY <1>1, <2>4
    <3>. QED
      BY <1>1, <1>2, <2>1, <2>2, <3>1, PlaceKeepsIInv
  <2>5. CASE hdr.dtb > source /\ DtbOffset = 0
    <3>1. ~ InSource(Section("dtb", DtbOffset, hdr.dtb))
      BY <1>1, <2>5 DEF InSource, Section, End
    <3>. QED
      BY <2>1, <3>1, RejectKeepsIInv DEF Place
  <2>. QED
    BY <1>1, <2>3, <2>4, <2>5 DEF DtbOffset
<1>. QED
  BY <1>3, <1>4

(* The tail appends at most a bootconfig at the cursor, then a signature. *)
LEMMA TailSections ==
  ASSUME IInv, PlaceTail, sections' # sections, stage' = "accepted"
  PROVE  /\ UNCHANGED << hdr, source, cursor >> /\ stage = "tail"
         /\ sections' \in Seq(AllSections)
         /\ \A k \in Placed' :
              \/ k \in Placed /\ sections'[k] = sections[k]
              \/ /\ k \notin Placed /\ End(sections'[k]) <= source
                 /\ \/ sections'[k].kind = "signature"
                    \/ k = Len(sections) + 1 /\ sections'[k].offset = cursor
<1>1. /\ stage = "tail" /\ hdr.signature \in Nat
      /\ cursor \in Nat /\ source \in Nat /\ sections \in Seq(AllSections)
  BY HeaderFields, ConstantFacts DEF PlaceTail, IInv, TypeOK, AllSections
<1>2. /\ hdr.signature <= source
      /\ sections' = sections \o RestIsBootconfig \o SignatureAtEnd
      /\ UNCHANGED << hdr, source, cursor >>
  BY <1>1 DEF PlaceTail, Skip, Reject
<1>3. SignatureOffset \in Nat /\ SignatureOffset + hdr.signature = source
  BY <1>1, <1>2 DEF SignatureOffset
<1>. DEFINE R == RestIsBootconfig
            S == SignatureAtEnd
            n == Len(sections)
<1>4. /\ R \in Seq(AllSections) /\ Len(R) \in 0 .. 1
      /\ Len(R) = 1 => R[1].offset = cursor /\ End(R[1]) <= source
  <2>1. CASE cursor < SignatureOffset
    <3>1. SignatureOffset - cursor \in Nat
      BY <1>1, <1>3, <2>1
    <3>2. R = << Section("bootconfig", cursor, SignatureOffset - cursor) >>
      BY <2>1 DEF RestIsBootconfig
    <3>3. Section("bootconfig", cursor, SignatureOffset - cursor) \in AllSections
      BY <1>1, <3>1 DEF Section, AllSections, Stages
    <3>4. /\ Section("bootconfig", cursor, SignatureOffset - cursor).offset = cursor
          /\ End(Section("bootconfig", cursor, SignatureOffset - cursor)) <= source
      BY <1>1, <1>3 DEF Section, End
    <3>. HIDE DEF R
    <3>. QED
      BY <3>2, <3>3, <3>4
  <2>2. CASE ~ (cursor < SignatureOffset)
    BY <2>2 DEF RestIsBootconfig
  <2>. QED
    BY <2>1, <2>2
<1>5. /\ S \in Seq(AllSections) /\ Len(S) \in 0 .. 1
      /\ Len(S) = 1 => S[1].kind = "signature" /\ End(S[1]) <= source
  <2>1. CASE hdr.signature > 0
    <3>1. S = << Section("signature", SignatureOffset, hdr.signature) >>
      BY <2>1 DEF SignatureAtEnd
    <3>2. Section("signature", SignatureOffset, hdr.signature) \in AllSections
      BY <1>1, <1>3 DEF Section, AllSections
    <3>3. /\ Section("signature", SignatureOffset, hdr.signature).kind = "signature"
          /\ End(Section("signature", SignatureOffset, hdr.signature)) <= source
      BY <1>1, <1>3 DEF Section, End
    <3>. HIDE DEF S
    <3>. QED
      BY <3>1, <3>2, <3>3
  <2>2. CASE ~ (hdr.signature > 0)
    BY <2>2 DEF SignatureAtEnd
  <2>. QED
    BY <2>1, <2>2
<1>6. sections' = (sections \o R) \o S
  BY <1>2
<1>. HIDE DEF R, S
<1>. DEFINE mid == sections \o R
<1>7. /\ mid \in Seq(AllSections) /\ Len(mid) = n + Len(R)
      /\ \A k \in 1 .. n : mid[k] = sections[k]
      /\ Len(R) = 1 => mid[n + 1] = R[1]
  BY <1>1, <1>4
<1>8. sections' = mid \o S
  BY <1>6
<1>. HIDE DEF mid
<1>9. n \in Nat /\ Len(mid) \in Nat
  BY <1>1, <1>7
<1>10. /\ sections' \in Seq(AllSections) /\ Len(sections') = Len(mid) + Len(S)
       /\ \A k \in 1 .. Len(mid) : sections'[k] = mid[k]
       /\ Len(S) = 1 => sections'[Len(mid) + 1] = S[1]
  <2>1. sections' \in Seq(AllSections) /\ Len(sections') = Len(mid) + Len(S)
    BY <1>5, <1>7, <1>8
  <2>2. \A k \in 1 .. Len(mid) : sections'[k] = mid[k]
    BY <1>5, <1>7, <1>8
  <2>3. ASSUME Len(S) = 1 PROVE sections'[Len(mid) + 1] = S[1]
    <3>1. ASSUME NEW p \in Seq(AllSections), NEW q \in Seq(AllSections), Len(q) = 1
          PROVE  (p \o q)[Len(p) + 1] = q[1]
      BY <3>1
    <3>. QED
      BY <1>5, <1>7, <1>8, <2>3, <3>1
  <2>. QED
    BY <2>1, <2>2, <2>3
<1>11. Placed = 1 .. n /\ Placed' = 1 .. Len(mid) + Len(S)
  BY <1>1, <1>10 DEF Placed
<1>12. ASSUME NEW k \in Placed'
       PROVE  \/ k \in Placed /\ sections'[k] = sections[k]
              \/ /\ k \notin Placed /\ End(sections'[k]) <= source
                 /\ \/ sections'[k].kind = "signature"
                    \/ k = n + 1 /\ sections'[k].offset = cursor
  <2>1. CASE k \in 1 .. n
    BY <1>4, <1>7, <1>9, <1>10, <1>11, <2>1
  <2>2. CASE k = n + 1 /\ Len(R) = 1
    BY <1>4, <1>7, <1>9, <1>10, <1>11, <2>2
  <2>3. CASE k = Len(mid) + 1 /\ Len(S) = 1
    BY <1>4, <1>5, <1>7, <1>9, <1>10, <1>11, <2>3
  <2>4. k \in 1 .. n \/ (k = n + 1 /\ Len(R) = 1) \/ (k = Len(mid) + 1 /\ Len(S) = 1)
    <3>1. Len(R) \in 0 .. 1 /\ Len(S) \in 0 .. 1 /\ Len(mid) = n + Len(R)
      BY <1>4, <1>5, <1>7
    <3>2. k \in 1 .. n + Len(R) + Len(S)
      BY <1>9, <1>11, <3>1
    <3>3. ASSUME NEW a \in Nat, NEW r \in {0, 1}, NEW t \in {0, 1}, NEW q \in 1 .. a + r + t
          PROVE  q \in 1 .. a \/ (q = a + 1 /\ r = 1) \/ (q = a + r + 1 /\ t = 1)
      OBVIOUS
    <3>4. Len(R) \in {0, 1} /\ Len(S) \in {0, 1}
      BY <3>1
    <3>. HIDE DEF n
    <3>5. n \in Nat
      BY <1>9
    <3>6. k \in 1 .. n \/ (k = n + 1 /\ Len(R) = 1) \/ (k = n + Len(R) + 1 /\ Len(S) = 1)
      BY <3>2, <3>3, <3>4, <3>5
    <3>. QED
      BY <3>1, <3>6
  <2>. QED
    BY <2>1, <2>2, <2>3, <2>4
<1>. QED
  BY <1>1, <1>2, <1>10, <1>12

LEMMA TailKeepsIInv ==
  ASSUME IInv, PlaceTail
  PROVE  IInv'
<1>1. stage = "tail" /\ "accepted" \in Stages \ {"header"}
  BY DEF PlaceTail, Stages
<1>2. CASE hdr.version < 3
  BY <1>1, <1>2, SkipKeepsIInv DEF PlaceTail
<1>3. CASE ~ (hdr.version < 3) /\ hdr.signature > source
  BY <1>3, RejectKeepsIInv DEF PlaceTail
<1>4. CASE ~ (hdr.version < 3) /\ ~ (hdr.signature > source)
  <2>1. stage' = "accepted" /\ UNCHANGED << hdr, source, cursor >>
    BY <1>4 DEF PlaceTail
  <2>2. CASE sections' = sections
    BY <1>1, <2>1, <2>2, SkipKeepsIInv DEF Skip
  <2>3. CASE sections' # sections
    <3>1. /\ sections' \in Seq(AllSections)
          /\ \A k \in Placed' :
               \/ k \in Placed /\ sections'[k] = sections[k]
               \/ /\ k \notin Placed /\ End(sections'[k]) <= source
                  /\ \/ sections'[k].kind = "signature"
                     \/ k = Len(sections) + 1 /\ sections'[k].offset = cursor
      BY <2>1, <2>3, TailSections
    <3>2. sections \in Seq(AllSections) /\ Placed = 1 .. Len(sections) /\ Len(sections) \in Nat
      BY DEF IInv, TypeOK, AllSections, Placed
    <3>3. Placed' = 1 .. Len(sections') /\ Len(sections') \in Nat
      BY <3>1 DEF Placed
    <3>4. TypeOK' /\ HeaderParsed' /\ NothingPlacedYet' /\ HeaderChecked' /\ CursorPast'
      BY <1>1, <2>1, <3>1
      DEF IInv, TypeOK, AllSections, HeaderParsed, NothingPlacedYet, HeaderChecked, CursorPast,
          Page, Modern
    <3>5. SectionsInSource'
      <4>1. ASSUME NEW k \in Placed' PROVE End(sections'[k]) <= source
        BY <3>1 DEF IInv, SectionsInSource
      <4>. QED
        BY <2>1, <4>1 DEF SectionsInSource, End
    <3>6. SectionsInOrder'
      <4>1. ASSUME NEW k \in Placed', sections'[k].kind \notin {"dtb", "signature"}
            PROVE  /\ hdr.headerSize <= sections'[k].offset
                   /\ \A j \in 1 .. k - 1 : End(sections'[j]) <= sections'[k].offset
        <5>1. CASE k \in Placed /\ sections'[k] = sections[k]
          <6>1. Sequential(k)
            BY <4>1, <5>1 DEF Sequential
          <6>2. /\ hdr.headerSize <= sections[k].offset
                /\ \A j \in 1 .. k - 1 : End(sections[j]) <= sections[k].offset
            BY <5>1, <6>1 DEF IInv, SectionsInOrder
          <6>3. ASSUME NEW j \in 1 .. k - 1 PROVE j \in Placed /\ j \in Placed'
            BY <3>2, <3>3, <5>1
          <6>4. ASSUME NEW j \in 1 .. k - 1 PROVE sections'[j] = sections[j]
            BY <3>1, <6>3
          <6>. QED
            BY <5>1, <6>2, <6>4
        <5>2. CASE k = Len(sections) + 1 /\ sections'[k].offset = cursor
          <6>1. hdr.headerSize <= cursor /\ \A j \in Placed : End(sections[j]) <= cursor
            BY <1>1 DEF IInv, CursorPast
          <6>2. ASSUME NEW j \in 1 .. k - 1 PROVE j \in Placed /\ j \in Placed'
            BY <3>2, <3>3, <5>2
          <6>3. ASSUME NEW j \in 1 .. k - 1 PROVE sections'[j] = sections[j]
            BY <3>1, <6>2
          <6>. QED
            BY <5>2, <6>1, <6>2, <6>3
        <5>. QED
          BY <3>1, <4>1, <5>1, <5>2
      <4>. QED
        BY <2>1, <4>1 DEF SectionsInOrder, Sequential, End
    <3>. QED
      BY <3>4, <3>5, <3>6 DEF IInv
  <2>. QED
    BY <2>2, <2>3
<1>. QED
  BY <1>2, <1>3, <1>4

LEMMA BootconfigKeepsIInv ==
  ASSUME IInv, PlaceBootconfig
  PROVE  IInv'
<1>1. /\ stage = "bootconfig" /\ cursor \in Nat /\ hdr.bootconfig \in Nat
      /\ "accepted" \in Stages \ {"header"} /\ "bootconfig" \in Stages
  BY HeaderFields, ConstantFacts DEF PlaceBootconfig, IInv, TypeOK, Stages
<1>. DEFINE s == Section("bootconfig", cursor, hdr.bootconfig)
<1>2. CASE hdr.bootconfig = 0
  BY <1>1, <1>2, SkipKeepsIInv DEF PlaceBootconfig
<1>3. CASE hdr.bootconfig # 0 /\ ~ InSource(s)
  BY <1>3, RejectKeepsIInv DEF PlaceBootconfig
<1>4. CASE hdr.bootconfig # 0 /\ InSource(s)
  <2>1. /\ sections' = Append(sections, s)
        /\ stage' = "accepted"
        /\ UNCHANGED << hdr, source, cursor >>
    BY <1>4 DEF PlaceBootconfig
  <2>2. cursor + hdr.bootconfig <= source
    BY <1>4 DEF InSource, Section, End
  <2>3. sections' \in Seq(AllSections) /\ SectionsInSource' /\ SectionsInOrder'
    BY <1>1, <2>1, <2>2, AppendKeepsOrder
  <2>4. TypeOK' /\ HeaderParsed' /\ NothingPlacedYet' /\ HeaderChecked' /\ CursorPast'
    BY <1>1, <2>1, <2>3
    DEF IInv, TypeOK, AllSections, HeaderParsed, NothingPlacedYet, HeaderChecked, CursorPast,
        Page, Modern
  <2>. QED
    BY <2>3, <2>4 DEF IInv
<1>. QED
  BY <1>2, <1>3, <1>4

-----------------------------------------------------------------------------
LEMMA InitHasIInv == Init => IInv
<1>. SUFFICES ASSUME Init PROVE IInv
  OBVIOUS
<1>1. cursor = 0 /\ sections = << >> /\ stage = "header"
  BY DEF Init
<1>2. PICK image \in Images :
        /\ source = image.length
        /\ \/ BootParses(image) /\ hdr = BootFields(image)
           \/ VendorParses(image) /\ hdr = VendorFields(image)
  BY DEF Init
<1>3. source \in 0 .. MaxU64
  BY <1>2, LayoutAssumption
<1>4. HeaderParsed
  <2>1. CASE BootParses(image) /\ hdr = BootFields(image)
    <3>1. hdr \in BootHeaders
      BY <2>1, LayoutAssumption DEF BootHeaders
    <3>2. hdr.dtb # 0 => image.version = 2 /\ hdr.headerSize = HeaderSize[image.version]
      BY <2>1 DEF BootFields, WordIf
    <3>3. hdr.dtb # 0 => hdr.headerSize <= source
      BY <1>2, <2>1, <3>2, HeaderAssumption DEF BootParses, MaxHeaderVersion
    <3>. QED
      BY <3>1, <3>3 DEF HeaderParsed
  <2>2. CASE VendorParses(image) /\ hdr = VendorFields(image)
    <3>1. hdr \in VendorHeaders
      BY <2>2, LayoutAssumption DEF VendorHeaders
    <3>2. hdr.kind = "vendor"
      BY <3>1 DEF VendorHeaders
    <3>. QED
      BY <3>1, <3>2 DEF HeaderParsed
  <2>. QED
    BY <1>2, <2>1, <2>2
<1>5. TypeOK /\ NothingPlacedYet /\ HeaderChecked /\ CursorPast
  BY <1>1, <1>3, ConstantFacts
  DEF TypeOK, Stages, NothingPlacedYet, HeaderChecked, CursorPast
<1>6. SectionsInSource /\ SectionsInOrder
  BY <1>1 DEF SectionsInSource, SectionsInOrder, Placed
<1>. QED
  BY <1>4, <1>5, <1>6 DEF IInv

LEMMA NextKeepsIInv == IInv /\ [Next]_layoutVars => IInv'
<1>. SUFFICES ASSUME IInv, [Next]_layoutVars PROVE IInv'
  OBVIOUS
<1>. USE DEF Stages
<1>1. TableAlign \in Nat \ {0}
  BY ConstantFacts
<1>2. /\ hdr.dtb \in Nat
      /\ hdr.kind = "boot" => hdr.kernel \in Nat /\ hdr.ramdisk \in Nat /\ hdr.second \in Nat
      /\ hdr.kind = "vendor" => hdr.vendorRamdisk \in Nat /\ hdr.table \in Nat
  BY HeaderFields DEF IInv
<1>3. stage \notin {"header", "rejected"} => Page \in Nat \ {0}
  BY DEF IInv, HeaderChecked
<1>4. CASE StartAfterHeader
  BY <1>4, StartKeepsIInv
<1>5. CASE PlaceKernel
  BY <1>2, <1>3, <1>5, PlaceNextKeepsIInv DEF PlaceKernel, PlaceNext
<1>6. CASE PlaceRamdisk
  BY <1>2, <1>3, <1>6, PlaceNextKeepsIInv DEF PlaceRamdisk, PlaceNext
<1>7. CASE PlaceSecond
  BY <1>2, <1>3, <1>7, PlaceNextKeepsIInv DEF PlaceSecond, PlaceNext
<1>8. CASE PlaceRecoveryDtbo
  BY <1>8, RecoveryDtboKeepsIInv
<1>9. CASE PlaceDtb
  BY <1>9, DtbKeepsIInv
<1>10. CASE PlaceTail
  BY <1>10, TailKeepsIInv
<1>11. CASE PlaceVendorRamdisk
  BY <1>2, <1>3, <1>11, PlaceNextKeepsIInv DEF PlaceVendorRamdisk, PlaceNext
<1>12. CASE PlaceVendorDtb
  BY <1>2, <1>3, <1>12, PlaceNextKeepsIInv DEF PlaceVendorDtb, PlaceNext
<1>13. CASE PlaceTable
  BY <1>1, <1>2, <1>13, PlaceNextKeepsIInv DEF PlaceTable, PlaceNext
<1>14. CASE PlaceBootconfig
  BY <1>14, BootconfigKeepsIInv
<1>15. CASE UNCHANGED layoutVars
  <2>1. UNCHANGED << hdr, source, cursor, sections, stage >>
    BY <1>15 DEF layoutVars
  <2>. QED
    BY <2>1 DEF IInv, TypeOK, HeaderParsed, NothingPlacedYet, HeaderChecked, CursorPast, Page,
        Modern, SectionsInSource, SectionsInOrder, Placed, Sequential
<1>. QED
  BY <1>4, <1>5, <1>6, <1>7, <1>8, <1>9, <1>10, <1>11, <1>12, <1>13, <1>14, <1>15 DEF Next

(***************************************************************************)
(* The inductive invariant holds in every reachable state.                 *)
(***************************************************************************)
THEOREM Invariant == Spec => []IInv
<1>. QED
  BY InitHasIInv, NextKeepsIInv, PTL DEF Spec

(***************************************************************************)
(* The cursor stays a 64-bit number and the sections are well formed,      *)
(* although only some of the code's sums are checked sums.                 *)
(***************************************************************************)
THEOREM TypeCorrect == Spec => []TypeOK
<1>1. IInv => TypeOK
  BY DEF IInv
<1>. QED
  BY <1>1, Invariant, PTL

(***************************************************************************)
(* Whatever a header claims, what its layout names lies in the image.      *)
(***************************************************************************)
THEOREM SectionsLieInSource == Spec => []SectionsInSource
<1>1. IInv => SectionsInSource
  BY DEF IInv
<1>. QED
  BY <1>1, Invariant, PTL

(***************************************************************************)
(* Sections laid out one behind the other do not overlap what is before    *)
(* them, whatever page size and offsets the header claims.                 *)
(***************************************************************************)
THEOREM SectionsLieInOrder == Spec => []SectionsInOrder
<1>1. IInv => SectionsInOrder
  BY DEF IInv
<1>. QED
  BY <1>1, Invariant, PTL


-----------------------------------------------------------------------------
(***************************************************************************)
(* TailCovered needs no more than the types: only PlaceTail accepts an     *)
(* image of version 3, and no step leaves an accepted layout.              *)
(***************************************************************************)

IsPlaced(s, e) == \E k \in DOMAIN s : s[k] = e

(* The last two parts of a layout, of one section each or none, are placed. *)
LEMMA PartsArePlaced ==
  ASSUME NEW a \in Seq(AllSections), NEW b \in Seq(AllSections), NEW c \in Seq(AllSections),
         NEW s, s = a \o b \o c
  PROVE  (Len(b) = 1 => IsPlaced(s, b[1])) /\ (Len(c) = 1 => IsPlaced(s, c[1]))
<1>. DEFINE ab == a \o b
<1>1. /\ ab \in Seq(AllSections) /\ Len(ab) = Len(a) + Len(b)
      /\ \A k \in 1 .. Len(a) + Len(b) :
           ab[k] = IF k <= Len(a) THEN a[k] ELSE b[k - Len(a)]
  BY ConcatProperties
<1>2. s = ab \o c
  OBVIOUS
<1>3. /\ Len(a) \in Nat /\ Len(b) \in Nat /\ Len(c) \in Nat
  OBVIOUS
<1>. HIDE DEF ab
<1>4. /\ ab \o c \in Seq(AllSections) /\ Len(ab \o c) = Len(ab) + Len(c)
      /\ \A k \in 1 .. Len(ab) + Len(c) :
           (ab \o c)[k] = IF k <= Len(ab) THEN ab[k] ELSE c[k - Len(ab)]
  <2>1. ab \in Seq(AllSections) /\ c \in Seq(AllSections)
    BY <1>1
  <2>. QED
    BY <2>1, ConcatProperties
<1>5. /\ DOMAIN s = 1 .. Len(ab) + Len(c)
      /\ \A k \in 1 .. Len(ab) + Len(c) : s[k] = IF k <= Len(ab) THEN ab[k] ELSE c[k - Len(ab)]
  BY <1>2, <1>4
<1>6. ASSUME Len(b) = 1 PROVE IsPlaced(s, b[1])
  <2>1. /\ Len(a) + 1 \in 1 .. Len(ab) + Len(c) /\ Len(a) + 1 <= Len(ab)
        /\ Len(a) + 1 \in 1 .. Len(a) + Len(b) /\ ~ (Len(a) + 1 <= Len(a))
        /\ (Len(a) + 1) - Len(a) = 1
    BY <1>1, <1>3, <1>6
  <2>2. s[Len(a) + 1] = b[1]
    BY <1>1, <1>5, <2>1
  <2>. QED
    BY <1>5, <2>1, <2>2 DEF IsPlaced
<1>7. ASSUME Len(c) = 1 PROVE IsPlaced(s, c[1])
  <2>1. /\ Len(ab) + 1 \in 1 .. Len(ab) + Len(c) /\ ~ (Len(ab) + 1 <= Len(ab))
        /\ (Len(ab) + 1) - Len(ab) = 1
    BY <1>1, <1>3, <1>7
  <2>2. s[Len(ab) + 1] = c[1]
    BY <1>5, <2>1
  <2>. QED
    BY <1>5, <2>1, <2>2 DEF IsPlaced
<1>. QED
  BY <1>6, <1>7

LEMMA TailCovers ==
  ASSUME IInv, PlaceTail, ~ (hdr.version < 3), ~ (hdr.signature > source)
  PROVE  TailCovered'
<1>1. /\ hdr.signature \in Nat /\ cursor \in Nat /\ source \in Nat
      /\ sections \in Seq(AllSections)
  BY HeaderFields, ConstantFacts DEF PlaceTail, IInv, TypeOK, AllSections
<1>2. /\ sections' = sections \o RestIsBootconfig \o SignatureAtEnd
      /\ UNCHANGED << hdr, source, cursor >>
  BY DEF PlaceTail
<1>3. SignatureOffset \in Nat /\ SignatureOffset + hdr.signature = source
  BY <1>1 DEF SignatureOffset
<1>. DEFINE R == RestIsBootconfig
            S == SignatureAtEnd
            r == Section("bootconfig", cursor, SignatureOffset - cursor)
            t == Section("signature", SignatureOffset, hdr.signature)
<1>4. r.offset = cursor /\ End(r) = SignatureOffset
  BY <1>1, <1>3 DEF Section, End
<1>5. t.offset = SignatureOffset /\ End(t) = source
  BY <1>3 DEF Section, End
<1>6. cursor < SignatureOffset => R = << r >> /\ r \in AllSections
  <2>1. cursor < SignatureOffset => SignatureOffset - cursor \in Nat
    BY <1>1, <1>3
  <2>. QED
    BY <1>1, <2>1 DEF RestIsBootconfig, Section, AllSections, Stages
<1>7. hdr.signature > 0 => S = << t >> /\ t \in AllSections
  BY <1>1, <1>3 DEF SignatureAtEnd, Section, AllSections
<1>8. R \in Seq(AllSections)
  <2>1. ~ (cursor < SignatureOffset) => R = << >>
    BY DEF RestIsBootconfig
  <2>2. << >> \in Seq(AllSections)
    OBVIOUS
  <2>3. ASSUME NEW e \in AllSections PROVE << e >> \in Seq(AllSections)
    OBVIOUS
  <2>4. CASE cursor < SignatureOffset
    BY <1>6, <2>3, <2>4
  <2>5. CASE ~ (cursor < SignatureOffset)
    BY <2>1, <2>2, <2>5
  <2>. QED
    BY <2>4, <2>5
<1>9. S \in Seq(AllSections)
  <2>1. ~ (hdr.signature > 0) => S = << >>
    BY DEF SignatureAtEnd
  <2>2. << >> \in Seq(AllSections)
    OBVIOUS
  <2>3. ASSUME NEW e \in AllSections PROVE << e >> \in Seq(AllSections)
    OBVIOUS
  <2>4. CASE hdr.signature > 0
    BY <1>7, <2>3, <2>4
  <2>5. CASE ~ (hdr.signature > 0)
    BY <2>1, <2>2, <2>5
  <2>. QED
    BY <2>4, <2>5
<1>10. sections' = sections \o R \o S
  BY <1>2
<1>. HIDE DEF R, S, r, t
<1>11. /\ Len(R) = 1 => IsPlaced(sections', R[1])
       /\ Len(S) = 1 => IsPlaced(sections', S[1])
  <2>1. /\ sections \in Seq(AllSections) /\ R \in Seq(AllSections) /\ S \in Seq(AllSections)
        /\ sections' = sections \o R \o S
    BY <1>1, <1>8, <1>9, <1>10
  <2>. QED
    BY <2>1, PartsArePlaced
<1>12. ASSUME NEW p \in cursor .. source - 1
       PROVE  \E k \in DOMAIN sections' :
                sections'[k].offset <= p /\ p < End(sections'[k])
  <2>1. p \in Int /\ cursor <= p /\ p < source
    BY <1>1
  <2>2. CASE p < SignatureOffset
    <3>1. cursor < SignatureOffset
      BY <1>1, <1>3, <2>1, <2>2
    <3>2. Len(R) = 1 /\ R[1] = r
      BY <1>6, <3>1
    <3>3. PICK k \in DOMAIN sections' : sections'[k] = r
      BY <1>11, <3>2 DEF IsPlaced
    <3>4. r.offset <= p /\ p < End(r)
      BY <1>4, <2>1, <2>2
    <3>. QED
      BY <3>3, <3>4
  <2>3. CASE ~ (p < SignatureOffset)
    <3>1. hdr.signature > 0
      BY <1>1, <1>3, <2>1, <2>3
    <3>2. Len(S) = 1 /\ S[1] = t
      BY <1>7, <3>1
    <3>3. PICK k \in DOMAIN sections' : sections'[k] = t
      BY <1>11, <3>2 DEF IsPlaced
    <3>4. t.offset <= p /\ p < End(t)
      BY <1>3, <1>5, <2>1, <2>3
    <3>. QED
      BY <3>3, <3>4
  <2>. QED
    BY <2>2, <2>3
<1>. QED
  BY <1>2, <1>12 DEF TailCovered, Placed, End

LEMMA NextKeepsTailCovered == IInv /\ TailCovered /\ [Next]_layoutVars => TailCovered'
<1>. SUFFICES ASSUME IInv, TailCovered, [Next]_layoutVars PROVE TailCovered'
  OBVIOUS
<1>1. CASE PlaceTail
  <2>1. CASE hdr.version < 3
    <3>1. UNCHANGED hdr /\ hdr.version \in Nat
      BY <1>1, <2>1, HeaderFields DEF PlaceTail, Skip, IInv
    <3>. QED
      BY <2>1, <3>1 DEF TailCovered, Modern
  <2>2. CASE ~ (hdr.version < 3) /\ hdr.signature > source
    BY <1>1, <2>2 DEF PlaceTail, Reject, TailCovered
  <2>3. CASE ~ (hdr.version < 3) /\ ~ (hdr.signature > source)
    BY <1>1, <2>3, TailCovers
  <2>. QED
    BY <2>1, <2>2, <2>3
<1>2. CASE PlaceBootconfig
  <2>1. hdr.kind = "vendor" /\ UNCHANGED hdr
    BY <1>2 DEF PlaceBootconfig, Skip, Reject
  <2>. QED
    BY <2>1 DEF TailCovered, Modern
<1>3. CASE UNCHANGED layoutVars
  BY <1>3 DEF layoutVars, TailCovered, Modern, Placed
<1>4. CASE stage' # "accepted"
  BY <1>4 DEF TailCovered
<1>5. ASSUME StartAfterHeader PROVE stage' # "accepted"
  BY <1>5 DEF StartAfterHeader, Reject
<1>6. ASSUME NEW s, NEW alignment, NEW next, next # "accepted",
             Place(s, alignment, next) \/ Skip(next)
      PROVE  stage' # "accepted"
  BY <1>6 DEF Place, Skip, Reject
<1>7. ASSUME \/ PlaceKernel \/ PlaceRamdisk \/ PlaceSecond
             \/ PlaceVendorRamdisk \/ PlaceVendorDtb \/ PlaceTable
      PROVE  stage' # "accepted"
  BY <1>6, <1>7 DEF PlaceKernel, PlaceRamdisk, PlaceSecond, PlaceVendorRamdisk, PlaceVendorDtb,
     PlaceTable, PlaceNext
<1>8. ASSUME PlaceRecoveryDtbo \/ PlaceDtb PROVE stage' # "accepted"
  BY <1>6, <1>8 DEF PlaceRecoveryDtbo, PlaceDtb
<1>. QED
  BY <1>1, <1>2, <1>3, <1>4, <1>5, <1>7, <1>8 DEF Next

(***************************************************************************)
(* From version 3 no byte between the last sequential section and the end  *)
(* of an accepted image is left out, whatever lengths its header claims.   *)
(***************************************************************************)
THEOREM TailIsCovered == Spec => []TailCovered
<1>1. Init => TailCovered
  BY DEF Init, TailCovered
<1>. QED
  BY <1>1, Invariant, NextKeepsTailCovered, PTL DEF Spec

=============================================================================
