------------------------------- MODULE Detect -------------------------------
(***************************************************************************)
(* What inspectFile says of a document and the screen makes of it: detect  *)
(* and header_details of native/src/lib.rs on the first bytes of the file, *)
(* and the text MainActivity.kt finds for the code.  A document is its     *)
(* length, the magic at each offset that is looked at, and its header      *)
(* words; it may be cut before it is read.                                 *)
(***************************************************************************)
EXTENDS BootHeader, Sequences, FiniteSets, FiniteSetsExt

CONSTANTS
  Documents,  \* [length, magics, words]
  Cuts        \* bound: the lengths a document is cut to

VARIABLES
  document,
  fileLen,  \* how much of it is left
  prefix,   \* how much inspectFile read
  report,   \* [code, detail]: what it returned
  label,    \* what the screen calls the document
  pc        \* "read", "inspect", "show", "shown" or "failed"

detectVars == << document, fileLen, prefix, report, label, pc >>

Prefix_OneSector == 4096
Prefix == 65536

(* The magics in the order in which they are looked for, with their codes. *)
Checks == <<
  [magic |-> "ANDROID!", at |-> 0, bytes |-> 8, code |-> 1],
  [magic |-> "VNDRBOOT", at |-> 0, bytes |-> 8, code |-> 2],
  [magic |-> "sparse", at |-> 0, bytes |-> 4, code |-> 3],
  [magic |-> "CrAU", at |-> 0, bytes |-> 4, code |-> 4],
  [magic |-> "PKlocal", at |-> 0, bytes |-> 4, code |-> 5],
  [magic |-> "PKend", at |-> 0, bytes |-> 4, code |-> 5],
  [magic |-> "0707", at |-> 0, bytes |-> 6, code |-> 12],
  [magic |-> "ext4", at |-> 1080, bytes |-> 2, code |-> 6],
  [magic |-> "EROFS", at |-> 1024, bytes |-> 4, code |-> 7],
  [magic |-> "F2FS", at |-> 1024, bytes |-> 4, code |-> 8],
  [magic |-> "DTB", at |-> 0, bytes |-> 4, code |-> 9],
  [magic |-> "ELF", at |-> 0, bytes |-> 4, code |-> 10],
  [magic |-> "gDla", at |-> 0, bytes |-> 4, code |-> 11],
  [magic |-> "gDla", at |-> 4096, bytes |-> 4, code |-> 11] >>

(* magic_at on the first n bytes of d. *)
MagicAt(d, n, c) == n >= c.at + c.bytes /\ d.magics[c.at] = c.magic
Hits(d, n) == { k \in DOMAIN Checks : MagicAt(d, n, Checks[k]) }

(* The first n bytes as an image the header parsers are given. *)
Image(d, n) == [d.words EXCEPT !.length = n, !.magic = d.magics[0]]

IsInitBoot(h) == h.version >= 4 /\ h.kernel = 0 /\ h.ramdisk > 0

DetectCode_AnyVersion(d, n) ==
  IF Hits(d, n) = {} THEN 0
  ELSE IF /\ Checks[Min(Hits(d, n))].code = 1 /\ BootParses(Image(d, n))
          /\ d.words.kernel = 0 /\ d.words.ramdisk > 0 THEN 13
  ELSE Checks[Min(Hits(d, n))].code

DetectCode(d, n) ==
  IF Hits(d, n) = {} THEN 0
  ELSE IF /\ Checks[Min(Hits(d, n))].code = 1
          /\ BootParses(Image(d, n)) /\ IsInitBoot(BootFields(Image(d, n))) THEN 13
  ELSE Checks[Min(Hits(d, n))].code

Unavailable == [kind |-> "unavailable"]

HeaderDetails(d, n) ==
  IF BootParses(Image(d, n)) THEN BootFields(Image(d, n))
  ELSE IF VendorParses(Image(d, n)) THEN VendorFields(Image(d, n))
  ELSE Unavailable

(* detectionFor: the format each code is shown as. *)
LabelOf_FirstTwelve(code) ==
  IF code \in 1 .. 12
  THEN << "boot", "vendor_boot", "sparse", "OTA", "ZIP", "ext4", "EROFS", "F2FS", "DTB",
          "ELF", "super", "CPIO" >>[code]
  ELSE "unknown"

LabelOf(code) ==
  IF code \in 1 .. 13
  THEN << "boot", "vendor_boot", "sparse", "OTA", "ZIP", "ext4", "EROFS", "F2FS", "DTB",
          "ELF", "super", "CPIO", "init_boot" >>[code]
  ELSE "unknown"

NoReport == [code |-> 0, detail |-> Unavailable]

Init ==
  /\ document \in Documents
  /\ fileLen = document.length
  /\ prefix = 0 /\ report = NoReport /\ label = "" /\ pc = "read"

Cut ==
  /\ \E n \in Cuts : n < fileLen /\ fileLen' = n
  /\ UNCHANGED << document, prefix, report, label, pc >>

(* The range read of the first bytes; if it fails, null is returned and the block throws. *)
ReadPrefix ==
  /\ pc = "read"
  /\ \/ prefix' = Min({Prefix, fileLen}) /\ pc' = "inspect"
     \/ document.length > 0 /\ pc' = "failed" /\ UNCHANGED prefix
  /\ UNCHANGED << document, fileLen, report, label >>

Inspect ==
  /\ pc = "inspect"
  /\ report' = [code |-> DetectCode(document, prefix), detail |-> HeaderDetails(document, prefix)]
  /\ pc' = "show"
  /\ UNCHANGED << document, fileLen, prefix, label >>

Show ==
  /\ pc = "show"
  /\ label' = LabelOf(report.code)
  /\ pc' = "shown"
  /\ UNCHANGED << document, fileLen, prefix, report >>

Next == Cut \/ ReadPrefix \/ Inspect \/ Show
Spec == Init /\ [][Next]_detectVars

-----------------------------------------------------------------------------
(***************************************************************************)
(* Every variable stays in its range; the code is one the screen knows.    *)
(***************************************************************************)
TypeOK ==
  /\ fileLen \in 0 .. document.length
  /\ prefix \in 0 .. Prefix
  /\ report.code \in 0 .. 13 /\ report.detail.kind \in {"boot", "vendor", "unavailable"}
  /\ pc \in {"read", "inspect", "show", "shown", "failed"}

(***************************************************************************)
(* The two ways to ask agree: inspectFile, which has the first bytes of    *)
(* the document, says what detectFormat and inspectHeader say of all of    *)
(* its bytes, unless it was cut.                                           *)
(***************************************************************************)
PrefixIsEnough ==
  pc = "shown" /\ fileLen = document.length =>
    report = [ code |-> DetectCode(document, document.length),
               detail |-> HeaderDetails(document, document.length) ]

(***************************************************************************)
(* The name on the screen and the details under it are of one image: an    *)
(* init_boot image is one whose details show version 4, a ramdisk and no   *)
(* kernel, and details of a boot or vendor_boot header stand under no      *)
(* other name, also when the document was cut in its header.  A document   *)
(* is left without a name exactly if what was read of it has no magic the  *)
(* engine knows: the numbers of the library are those of the Kotlin side.  *)
(***************************************************************************)
LabelFitsDetails ==
  pc = "shown" =>
    /\ label = "init_boot" <=> report.detail.kind = "boot" /\ IsInitBoot(report.detail)
    /\ report.detail.kind = "boot" => label \in {"boot", "init_boot"}
    /\ report.detail.kind = "vendor" => label = "vendor_boot"
    /\ label = "unknown" <=> Hits(document, prefix) = {}
=============================================================================
