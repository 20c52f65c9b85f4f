----------------------------- MODULE BootLayout -----------------------------
(***************************************************************************)
(* boot_sections and vendor_sections of native/src/boot_layout.rs: where   *)
(* the sections of a boot or vendor_boot image lie, given its parsed       *)
(* header and its size.  One action per section; an error of any of them   *)
(* drops the whole layout.                                                 *)
(***************************************************************************)
EXTENDS BootHeader, Sequences

CONSTANTS
  Images,      \* bound: the images laid out
  MinPage,     \* the smallest page size accepted, 512
  TableAlign,  \* the alignment after the vendor ramdisk table, 4
  MaxU64

ASSUME LayoutAssumption ==
  /\ MaxU64 \in Nat /\ MinPage \in Nat \ {0} /\ TableAlign \in Nat \ {0}
  /\ \A image \in Images :
       /\ image.length \in 0 .. MaxU64
       /\ BootParses(image) =>
            BootFields(image) \in
              [kind : {"boot"}, version : Nat, headerSize : Nat, page : Nat,
               kernel : Nat, ramdisk : Nat, second : Nat, recoveryDtbo : Nat,
               recoveryDtboOffset : Nat, dtb : Nat, signature : Nat]
       /\ VendorParses(image) =>
            VendorFields(image) \in
              [kind : {"vendor"}, version : Nat, headerSize : Nat, page : Nat,
               vendorRamdisk : Nat, dtb : Nat, table : Nat, bootconfig : Nat]

VARIABLES
  hdr,       \* the parsed header
  source,    \* source_size
  cursor,    \* where the next section goes
  sections,  \* the sections placed, in order
  stage      \* the section to place next, or the outcome

layoutVars == << hdr, source, cursor, sections, stage >>

Init ==
  /\ \E image \in Images :
       /\ source = image.length
       /\ \/ BootParses(image) /\ hdr = BootFields(image)
          \/ VendorParses(image) /\ hdr = VendorFields(image)
  /\ cursor = 0
  /\ sections = << >>
  /\ stage = "header"

-----------------------------------------------------------------------------
IsPowerOfTwo(n) == \E e \in 0 .. n : n = 2 ^ e

Modern == hdr.kind = "boot" /\ hdr.version >= 3
Page == IF Modern THEN ModernPage ELSE hdr.page
ValidPage == Modern \/ (hdr.page >= MinPage /\ IsPowerOfTwo(hdr.page))
LongEnoughHeader == hdr.kind = "vendor" => hdr.headerSize >= VendorHeaderSize[hdr.version]

AlignUp(value, alignment) ==
  IF value % alignment = 0 THEN value ELSE value + (alignment - (value % alignment))

FitsU64(value) == value <= MaxU64

Section(kind, offset, size) == [kind |-> kind, offset |-> offset, size |-> size]
End(s) == s.offset + s.size

(* validate_section, with its checked sum. *)
InSource_Wrapping(s) == End(s) % (MaxU64 + 1) <= source
InSource(s) == FitsU64(End(s)) /\ End(s) <= source

Stages == {"header", "kernel", "ramdisk", "second", "recoveryDtbo", "dtb", "tail",
           "vendorRamdisk", "vendorDtb", "table", "bootconfig", "accepted", "rejected"}

Reject ==
  /\ stage' = "rejected"
  /\ sections' = << >>
  /\ UNCHANGED << hdr, source, cursor >>

Skip(next) ==
  /\ stage' = next
  /\ UNCHANGED << hdr, source, cursor, sections >>

(* A section at offset, and the cursor moved past it to the next boundary. *)
Place_Unchecked(s, alignment, next) ==
  IF ~ InSource(s)
  THEN Reject
  ELSE /\ sections' = Append(sections, s)
       /\ cursor' = AlignUp(End(s), alignment)
       /\ stage' = next
       /\ UNCHANGED << hdr, source >>

Place(s, alignment, next) ==
  IF ~ InSource(s) \/ ~ FitsU64(AlignUp(End(s), alignment))
  THEN Reject
  ELSE /\ sections' = Append(sections, s)
       /\ cursor' = AlignUp(End(s), alignment)
       /\ stage' = next
       /\ UNCHANGED << hdr, source >>

(* The header is checked and the cursor set behind it. *)
StartAfterHeader ==
  /\ stage = "header"
  /\ IF ~ ValidPage \/ ~ LongEnoughHeader \/ ~ FitsU64(AlignUp(hdr.headerSize, Page))
     THEN Reject
     ELSE /\ cursor' = AlignUp(hdr.headerSize, Page)
          /\ stage' = IF hdr.kind = "boot" THEN "kernel" ELSE "vendorRamdisk"
          /\ UNCHANGED << hdr, source, sections >>

(* A section that lies where the one before it ended; one of size 0 is absent. *)
PlaceNext(kind, size, alignment, next) ==
  /\ stage = kind
  /\ IF size = 0
     THEN Skip(next)
     ELSE Place(Section(kind, cursor, size), alignment, next)

PlaceKernel == hdr.kind = "boot" /\ PlaceNext("kernel", hdr.kernel, Page, "ramdisk")
PlaceRamdisk == hdr.kind = "boot" /\ PlaceNext("ramdisk", hdr.ramdisk, Page, "second")
PlaceSecond == hdr.kind = "boot" /\ PlaceNext("second", hdr.second, Page, "recoveryDtbo")

(* The recorded offset counts only if it is behind the cursor and in the source. *)
RecoveryDtboOffset_Trusted ==
  IF FitsU64(hdr.recoveryDtboOffset + hdr.recoveryDtbo)
     /\ hdr.recoveryDtboOffset + hdr.recoveryDtbo <= source
  THEN hdr.recoveryDtboOffset ELSE cursor

RecoveryDtboOffset ==
  IF /\ FitsU64(hdr.recoveryDtboOffset + hdr.recoveryDtbo)
     /\ hdr.recoveryDtboOffset >= cursor
     /\ hdr.recoveryDtboOffset + hdr.recoveryDtbo <= source
  THEN hdr.recoveryDtboOffset ELSE cursor

PlaceRecoveryDtbo ==
  /\ hdr.kind = "boot" /\ stage = "recoveryDtbo"
  /\ IF hdr.version = 0 \/ hdr.recoveryDtbo = 0
     THEN Skip("dtb")
     ELSE Place(Section("recoveryDtbo", RecoveryDtboOffset, hdr.recoveryDtbo), Page, "dtb")

(* A dtb that does not fit behind the cursor is taken from the end of the image. *)
DtbOffset ==
  IF FitsU64(cursor + hdr.dtb) /\ cursor + hdr.dtb <= source THEN cursor
  ELSE IF hdr.dtb <= source THEN source - hdr.dtb ELSE 0

PlaceDtb ==
  /\ hdr.kind = "boot" /\ stage = "dtb"
  /\ IF hdr.version < 2 \/ hdr.dtb = 0
     THEN Skip("tail")
     ELSE Place(Section("dtb", DtbOffset, hdr.dtb), Page, "tail")

(* From version 3 the rest of the image is bootconfig, then the signature. *)
SignatureOffset == source - hdr.signature
RestIsBootconfig_OffByOne ==
  IF cursor < SignatureOffset - 1
  THEN << Section("bootconfig", cursor, SignatureOffset - cursor - 1) >> ELSE << >>
RestIsBootconfig ==
  IF cursor < SignatureOffset
  THEN << Section("bootconfig", cursor, SignatureOffset - cursor) >> ELSE << >>
SignatureAtEnd ==
  IF hdr.signature > 0
  THEN << Section("signature", SignatureOffset, hdr.signature) >> ELSE << >>

PlaceTail ==
  /\ hdr.kind = "boot" /\ stage = "tail"
  /\ IF hdr.version < 3
     THEN Skip("accepted")
     ELSE IF hdr.signature > source
     THEN Reject
     ELSE /\ sections' = sections \o RestIsBootconfig \o SignatureAtEnd
          /\ stage' = "accepted"
          /\ UNCHANGED << hdr, source, cursor >>

PlaceVendorRamdisk ==
  hdr.kind = "vendor" /\ PlaceNext("vendorRamdisk", hdr.vendorRamdisk, Page, "vendorDtb")
PlaceVendorDtb == hdr.kind = "vendor" /\ PlaceNext("vendorDtb", hdr.dtb, Page, "table")
PlaceTable == hdr.kind = "vendor" /\ PlaceNext("table", hdr.table, TableAlign, "bootconfig")

PlaceBootconfig ==
  /\ hdr.kind = "vendor" /\ stage = "bootconfig"
  /\ IF hdr.bootconfig = 0
     THEN Skip("accepted")
     ELSE IF ~ InSource(Section("bootconfig", cursor, hdr.bootconfig))
     THEN Reject
     ELSE /\ sections' = Append(sections, Section("bootconfig", cursor, hdr.bootconfig))
          /\ stage' = "accepted"
          /\ UNCHANGED << hdr, source, cursor >>

Next ==
  \/ StartAfterHeader
  \/ PlaceKernel \/ PlaceRamdisk \/ PlaceSecond \/ PlaceRecoveryDtbo \/ PlaceDtb \/ PlaceTail
  \/ PlaceVendorRamdisk \/ PlaceVendorDtb \/ PlaceTable \/ PlaceBootconfig

Spec == Init /\ [][Next]_layoutVars

-----------------------------------------------------------------------------
Placed == DOMAIN sections

(***************************************************************************)
(* The cursor is a 64-bit number: no sum of it with a section size or an   *)
(* alignment wraps.                                                        *)
(***************************************************************************)
TypeOK ==
  /\ source \in 0 .. MaxU64
  /\ cursor \in 0 .. MaxU64
  /\ sections \in Seq([kind : Stages \cup {"signature"}, offset : Nat, size : Nat])
  /\ stage \in Stages

(***************************************************************************)
(* Whatever sizes and offsets the header claims, every section placed lies *)
(* in the image: a caller that reads it reads only the image.              *)
(***************************************************************************)
SectionsInSource == \A k \in Placed : End(sections[k]) <= source

(***************************************************************************)
(* Sections placed one after the other lie one after the other: none       *)
(* starts before the end of an earlier one, and none in the header.  The   *)
(* dtb and the signature, which may be taken from the end, are excepted.   *)
(***************************************************************************)
Sequential(k) == sections[k].kind \notin {"dtb", "signature"}

SectionsInOrder ==
  \A k \in Placed : Sequential(k) =>
    /\ hdr.headerSize <= sections[k].offset
    /\ \A j \in 1 .. k - 1 : End(sections[j]) <= sections[k].offset

(***************************************************************************)
(* From version 3 no byte behind the last sequential section is left out:  *)
(* it is bootconfig or signature.                                          *)
(***************************************************************************)
TailCovered ==
  stage = "accepted" /\ Modern =>
    \A p \in cursor .. source - 1 :
      \E k \in Placed : sections[k].offset <= p /\ p < End(sections[k])

(***************************************************************************)
(* Damaged input is rejected: an image accepted has disjoint sections.     *)
(***************************************************************************)
AcceptedSectionsDisjoint ==
  stage = "accepted" =>
    \A j, k \in Placed : j < k =>
      \/ End(sections[j]) <= sections[k].offset
      \/ End(sections[k]) <= sections[j].offset
=============================================================================
