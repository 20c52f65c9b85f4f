---------------------------- MODULE MCBootLayout ----------------------------
(***************************************************************************)
(* Model checking instance of BootLayout, in units in which the smallest   *)
(* page is 4 and a 64-bit number is at most 31.  Images holds every        *)
(* version of both kinds with sections absent, of one byte, and of more    *)
(* than a page, headers that claim more than the image, page sizes that    *)
(* are refused, and images of every length up to the largest number.       *)
(***************************************************************************)
EXTENDS BootLayout, TLC

MCHeaderSize == << 4, 5, 2, 3 >> @@ (0 :> 3)
MCVendorHeaderSize == (3 :> 3) @@ (4 :> 5)

Sizes == {0, 1, 5}
Pages == {0, 4, 6, 8, 16}
Lengths == {1, 4, 5, 8, 9, 12, 13, 16, 20, 24, 30, 31}

BootImage(v) ==
  [ magic : {"ANDROID!"}, version : {v}, length : Lengths,
    headerSize : IF v >= 3 THEN {0, 9, 30} ELSE {0},
    page : IF v >= 3 THEN {0} ELSE Pages,
    kernel : Sizes, ramdisk : Sizes,
    second : IF v < 3 THEN Sizes ELSE {0},
    recoveryDtbo : IF v \in {1, 2} THEN Sizes ELSE {0},
    recoveryDtboOffset : IF v \in {1, 2} THEN {0, 12, 30} ELSE {0},
    dtb : IF v = 2 THEN Sizes ELSE {0},
    signature : IF v = 4 THEN {0, 3, 30} ELSE {0} ]

VendorImage(v) ==
  [ magic : {"VNDRBOOT"}, version : {v}, length : Lengths,
    headerSize : {0, 2, 9}, page : Pages,
    vendorRamdisk : Sizes, dtb : Sizes,
    table : IF v = 4 THEN Sizes ELSE {0}, bootconfig : IF v = 4 THEN Sizes ELSE {0} ]

MCImages == UNION { BootImage(v) : v \in 0 .. 4 } \cup UNION { VendorImage(v) : v \in 3 .. 4 }
=============================================================================
