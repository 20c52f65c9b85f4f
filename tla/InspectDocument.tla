--------------------------- MODULE InspectDocument ---------------------------
(***************************************************************************)
(* The block chooseResult runs for one document: inspectFile reads its     *)
(* first bytes and classifies it, listZip lists it if the class is ZIP,    *)
(* and the screen is given a name and a detail.  The two native calls are  *)
(* Detect and ZipList, each with a size of its own, over one document that *)
(* its owner may cut in between.                                           *)
(***************************************************************************)
EXTENDS ZipList

CONSTANTS
  Documents, Cuts, HeaderSize, VendorHeaderSize, ModernPage,  \* as in Detect
  NoArchive  \* an archive without records, for a document that is none

VARIABLES document, prefix, report, label, stage  \* as in Detect, whose pc is stage

detectVars == << document, prefix, report, label, stage >>
inspectVars == << zipVars, detectVars >>

Detection == INSTANCE Detect WITH pc <- stage

HeaderWords ==
  [ length : Nat, magic : STRING, version : Nat, headerSize : Nat, page : Nat, kernel : Nat,
    ramdisk : Nat, second : Nat, recoveryDtbo : Nat, recoveryDtboOffset : Nat, dtb : Nat,
    signature : Nat, vendorRamdisk : Nat, table : Nat, bootconfig : Nat ]

MagicOffsets == {0, 1024, 1080, 4096}

(* A header is not shorter than its magic and lies in the first bytes that are read. *)
ASSUME InspectAssumption ==
  /\ NoArchive \in [length : {0}, at : {<< >>}, written : {<< >>}, damage : {"noArchive"}]
  /\ Documents \subseteq [length : Nat, magics : [MagicOffsets -> STRING], words : HeaderWords]
  /\ Cuts \subseteq Nat
  /\ HeaderSize \in [0 .. Detection!MaxHeaderVersion -> 8 .. Detection!Prefix]
  /\ VendorHeaderSize \in [3 .. Detection!MaxHeaderVersion -> 8 .. Detection!Prefix]

(* The first four bytes of an archive are the signature of its first record. *)
FirstMagic(a) ==
  IF 0 \notin DOMAIN a.at THEN ""
  ELSE CASE a.at[0].kind = "local" -> "PKlocal" [] a.at[0].kind = "end" -> "PKend" [] OTHER -> ""

DocumentOf(a) ==
  [ length |-> a.length, words |-> [w \in {"length", "magic"} |-> 0],
    magics |-> [o \in MagicOffsets |-> IF o = 0 THEN FirstMagic(a) ELSE ""] ]

InspectInit ==
  /\ \/ archive \in Archives /\ document = DocumentOf(archive)
     \/ document \in Documents /\ archive = [NoArchive EXCEPT !.length = document.length]
  /\ fileLen = archive.length
  /\ ListingBegins
  /\ prefix = 0 /\ report = Detection!NoReport /\ label = "" /\ stage = "read"

(* The class that is listed, in the numbers of the library. *)
ZipCode_Previous == 4
ZipCode == 5

Identify ==
  /\ Detection!ReadPrefix \/ Detection!Inspect
  /\ UNCHANGED zipVars

ListEntries ==
  /\ stage = "show" /\ report.code = ZipCode
  /\ List
  /\ UNCHANGED detectVars

(* A listing that fails is part of the detail; one that stops the process is not shown. *)
Listed == report.code = ZipCode => pc \notin Reading \cup {"trap"}

ShowResult ==
  /\ Listed
  /\ Detection!Show
  /\ UNCHANGED zipVars

(* The owner cuts the document, an archive at its records. *)
CutDocument ==
  \/ DOMAIN archive.at = {} /\ Detection!Cut /\ UNCHANGED << archive, size, eocd, end, central, cursor, entries, reads, pc >>
  \/ Truncate /\ UNCHANGED detectVars

InspectNext == Identify \/ ListEntries \/ ShowResult \/ CutDocument
InspectSpec == InspectInit /\ [][InspectNext]_inspectVars

-----------------------------------------------------------------------------
(***************************************************************************)
(* Every variable of the two calls stays in its range.                     *)
(***************************************************************************)
InspectTypeOK == TypeOK /\ Detection!TypeOK

(***************************************************************************)
(* Detect's properties: prefix and whole file are judged alike, and name   *)
(* and details are of one image.                                           *)
(***************************************************************************)
PrefixIsEnough == Detection!PrefixIsEnough
LabelFitsDetails == Detection!LabelFitsDetails

(***************************************************************************)
(* An archive its writer left intact is shown as one, with its entries, if *)
(* it begins with a record and was neither cut nor unreadable: what the    *)
(* first call says of the first bytes and the second of the last agree.    *)
(***************************************************************************)
IntactIsShown ==
  /\ stage = "shown" /\ archive.damage = "none" /\ fileLen = archive.length
  /\ pc # "source" /\ FirstMagic(archive) # ""
  => label = "ZIP" /\ pc = "ok" /\ entries = archive.written
=============================================================================
