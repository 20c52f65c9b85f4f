----------------------------- MODULE BootHeader -----------------------------
(***************************************************************************)
(* parse_boot_header and parse_vendor_boot_header of native/src/boot.rs:   *)
(* which fields of an image's first bytes become a header.  An image is    *)
(* its magic, its length and the values its header words would have; the   *)
(* words a version does not define are not read.                           *)
(***************************************************************************)
EXTENDS Integers

CONSTANTS
  HeaderSize,       \* boot_header_size: version 0 .. 4 |-> size of the header
  VendorHeaderSize, \* VENDOR_HEADER_V3_SIZE and VENDOR_HEADER_V4_SIZE, by version 3 .. 4
  ModernPage        \* the page size of versions 3 and 4, 4096

MaxHeaderVersion == 4

ASSUME HeaderAssumption ==
  /\ HeaderSize \in [0 .. MaxHeaderVersion -> Nat]
  /\ VendorHeaderSize \in [3 .. MaxHeaderVersion -> Nat]
  /\ ModernPage \in Nat \ {0}

AtLeast(n, least) == IF n < least THEN least ELSE n

(* Too small for version 3, then the magic, the version, the size of that version. *)
BootParses(image) ==
  /\ image.length >= HeaderSize[3]
  /\ image.magic = "ANDROID!"
  /\ image.version <= MaxHeaderVersion
  /\ image.length >= HeaderSize[image.version]

WordIf(defined, word) == IF defined THEN word ELSE 0

BootFields(image) ==
  LET v == image.version IN
  [ kind |-> "boot",
    version |-> v,
    headerSize |-> IF v >= 3 THEN AtLeast(image.headerSize, HeaderSize[v]) ELSE HeaderSize[v],
    page |-> IF v >= 3 THEN ModernPage ELSE image.page,
    kernel |-> image.kernel,
    ramdisk |-> image.ramdisk,
    second |-> WordIf(v <= 2, image.second),
    recoveryDtbo |-> WordIf(v \in 1 .. 2, image.recoveryDtbo),
    recoveryDtboOffset |-> WordIf(v \in 1 .. 2, image.recoveryDtboOffset),
    dtb |-> WordIf(v = 2, image.dtb),
    signature |-> WordIf(v >= 4, image.signature) ]

VendorParses(image) ==
  /\ image.length >= VendorHeaderSize[3]
  /\ image.magic = "VNDRBOOT"
  /\ image.version \in 3 .. MaxHeaderVersion
  /\ image.length >= VendorHeaderSize[image.version]

VendorFields(image) ==
  LET v == image.version IN
  [ kind |-> "vendor",
    version |-> v,
    headerSize |-> IF image.headerSize = 0 THEN VendorHeaderSize[v] ELSE image.headerSize,
    page |-> image.page,
    vendorRamdisk |-> image.vendorRamdisk,
    dtb |-> image.dtb,
    table |-> WordIf(v >= 4, image.table),
    bootconfig |-> WordIf(v >= 4, image.bootconfig) ]
=============================================================================
