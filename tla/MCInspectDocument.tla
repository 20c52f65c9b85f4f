-------------------------- MODULE MCInspectDocument --------------------------
(***************************************************************************)
(* Model checking instance of InspectDocument.  Archives: what a writer    *)
(* made, with none to two entries, plain and ZIP64 fields, foreign extra   *)
(* blocks, local extra fields that differ from the central ones and        *)
(* comments of any length, and what is left of them after damage.  Others: *)
(* every magic at every offset it is looked for, also two or three in one  *)
(* document, lengths around the ends of the magics, the headers and the    *)
(* prefix, and boot images of every version with and without a kernel and  *)
(* a ramdisk.                                                              *)
(***************************************************************************)
EXTENDS InspectDocument, SequencesExt, TLC

Plus(a, b) == a + b
Before(f(_), es, i) == FoldLeft(Plus, 0, [k \in 1 .. i - 1 |-> f(es[k])])

(* A member: the fields it writes as ZIP64 values, and its extra and local extra fields. *)
Member(name, length, wide, foreign, localExtra, comment) ==
  [ name |-> name, size |-> length, wide |-> wide, foreign |-> foreign,
    localExtra |-> localExtra, comment |-> comment ]

Members == {
  Member("a", 5, {}, 0, 0, 0),          Member("b", 0, {}, 9, 28, 3),
  Member("c", 7, {1, 2}, 0, 20, 0),     Member("d", 3, {1, 2, 3}, 6, 0, 1),
  Member("e", 4, {3}, 3, 4, 0) }

NameLen == 3
Wide(m) == m.wide # {}
Foreign(n) == IF n = 0 THEN << >> ELSE << [zip64 |-> FALSE, len |-> n, values |-> << >>] >>
ExtraLen(m) == (IF m.foreign = 0 THEN 0 ELSE 4 + m.foreign)
               + (IF Wide(m) THEN 4 + 8 * Cardinality(m.wide) ELSE 0)
LocalLen(m) == LocalSize + NameLen + m.localExtra + m.size
CentralLen(m) == CentralSize + NameLen + ExtraLen(m) + m.comment

LocalAt(ms, i) == Before(LocalLen, ms, i)
DirectoryAt(ms) == LocalAt(ms, Len(ms) + 1)
CentralAt(ms, i) == DirectoryAt(ms) + Before(CentralLen, ms, i)
DirectoryEnd(ms) == CentralAt(ms, Len(ms) + 1)

Written(ms) ==
  [i \in DOMAIN ms |-> [ name |-> ms[i].name, uncompressed |-> ms[i].size, compressed |-> ms[i].size,
                         data |-> LocalAt(ms, i) + LocalSize + NameLen + ms[i].localExtra ]]

(* A foreign block of an odd length is in front of the ZIP64 block, one of an even behind it. *)
Header(ms, i) ==
  LET m == ms[i]
      v == << m.size, m.size, LocalAt(ms, i) >>
      block == [ zip64 |-> TRUE, len |-> 8 * Cardinality(m.wide),
                 values |-> SelectSeq([k \in 1 .. 3 |-> IF k \in m.wide THEN v[k] ELSE -1],
                                      LAMBDA x : x >= 0) ]
  IN  [ kind |-> "central", name |-> m.name, nameLen |-> NameLen, extraLen |-> ExtraLen(m),
        commentLen |-> m.comment, v |-> [k \in 1 .. 3 |-> IF k \in m.wide THEN Sentinel ELSE v[k]],
        extra |-> LET wide == IF Wide(m) THEN << block >> ELSE << >>
                  IN  IF m.foreign % 2 = 1 THEN Foreign(m.foreign) \o wide ELSE wide \o Foreign(m.foreign) ]

(***************************************************************************)
(* wide: with a ZIP64 end record, whose numbers the end record leaves to   *)
(* it; comment: the length of the archive's comment.                       *)
(***************************************************************************)
Archive(ms, wide, comment) ==
  LET at64 == DirectoryEnd(ms)
      atEnd == at64 + IF wide THEN End64Size + LocatorSize ELSE 0
      numbers == [count |-> Len(ms), size |-> DirectoryEnd(ms) - DirectoryAt(ms), offset |-> DirectoryAt(ms)]
      EndRecord(kind, n) == [kind |-> kind, count |-> n.count, size |-> n.size, offset |-> n.offset]
      Records(o) ==
        { [kind |-> "local", nameLen |-> NameLen, extraLen |-> ms[i].localExtra] :
            i \in { j \in DOMAIN ms : LocalAt(ms, j) = o } }
        \cup { Header(ms, i) : i \in { j \in DOMAIN ms : CentralAt(ms, j) = o } }
        \cup (IF wide /\ o = at64 THEN {EndRecord("end64", numbers)} ELSE {})
        \cup (IF wide /\ o = at64 + End64Size THEN {[kind |-> "locator", offset |-> at64]} ELSE {})
        \cup (IF o = atEnd THEN {EndRecord("end", IF wide
                THEN [count |-> Sentinel16, size |-> Sentinel, offset |-> Sentinel] ELSE numbers)} ELSE {})
      offsets == { LocalAt(ms, i) : i \in DOMAIN ms } \cup { CentralAt(ms, i) : i \in DOMAIN ms }
                 \cup {atEnd} \cup (IF wide THEN {at64, at64 + End64Size} ELSE {})
  IN  [ length |-> atEnd + EndSize + comment,
        at |-> [o \in offsets |-> CHOOSE r \in Records(o) : TRUE],
        written |-> Written(ms), damage |-> "none" ]

Lists == {<< >>} \cup { << m >> : m \in Members }
         \cup { << m, n >> : m \in Members, n \in Members }
Made == { Archive(ms, w, c) : ms \in Lists, w \in BOOLEAN, c \in {0, 65535} }

-----------------------------------------------------------------------------
(* Damage: a record is lost, or a number of it changed. *)
Lost(a, o) ==
  [a EXCEPT !.at = [p \in DOMAIN a.at \ {o} |-> a.at[p]], !.damage = "lostRecord"]
Altered(a, o, field, n) ==
  [a EXCEPT !.at[o][field] = n, !.damage = field]

(* The end record whose numbers count. *)
Ends(a) == IF OfKind(a, "end64") # {} THEN OfKind(a, "end64") ELSE OfKind(a, "end")
WithExtra(a) == { o \in OfKind(a, "central") : a.at[o].extra # << >> }

Bases == { Archive(<< m >>, w, 0) : m \in Members, w \in BOOLEAN }
         \cup { Archive(<< m, m >>, TRUE, 0) : m \in Members }
Bases64 == { a \in Bases : OfKind(a, "end64") # {} }
Counted(a, n) == { Altered(a, o, "count", n) : o \in Ends(a) }

Noticed ==
  UNION { { Lost(a, o) : o \in DOMAIN a.at }
          \cup UNION { Counted(a, Len(a.written) + k) : k \in {1, 3, 60000} }
          \cup { Altered(a, o, "size", n) : o \in Ends(a), n \in {a.at[CHOOSE e \in Ends(a) : TRUE].size - 1, 1048577} }
          \cup { Altered(a, o, "offset", n) : o \in Ends(a), n \in {1, a.length} }
          \cup { [a EXCEPT !.at[o].extra[Len(a.at[o].extra)].len = @ + 1, !.damage = "blockLength"] :
                   o \in WithExtra(a) } : a \in Bases }
  \cup UNION { Counted(a, 2000000) : a \in Bases64 }

(* The number of entries of a ZIP64 record is past what a vector can hold. *)
Overcounted == UNION { Counted(a, 1000000) : a \in Bases64 }

(* Fewer entries than there are; a directory that ends behind its last header. *)
Undercounted ==
  UNION { { [b EXCEPT !.damage = "smallerCount"] : b \in UNION { Counted(a, n) : n \in 0 .. Len(a.written) - 1 } } :
            a \in Bases }
Oversized ==
  UNION { { [Altered(a, o, "size", a.at[o].size + k) EXCEPT !.damage = "largerSize"] :
              o \in Ends(a), k \in {1, EndSize} } : a \in Bases }

(* A ZIP64 block, in front of a foreign one, without the second of its two values. *)
ShortBlocks ==
  { [a EXCEPT !.at[o].v[2] = Sentinel, !.damage = "shortBlock"] :
      a \in {Archive(<< Member("f", 7, {1}, 12, 0, 0) >>, FALSE, 0)}, o \in {40} }

(* No more than a first signature; a large file whose directory would be more than an usize, or all of it. *)
Local == [kind |-> "local", nameLen |-> 0, extraLen |-> 0]
Stub == [length |-> 21, at |-> (0 :> Local), written |-> << >>, damage |-> "stub"]
Sparse(len, claimed) ==
  [ length |-> len, damage |-> "size", written |-> << >>,
    at |-> (0 :> Local) @@ (len - EndSize :> [kind |-> "end", count |-> 1, size |-> claimed, offset |-> 0]) ]

Sparses == { Sparse(1200000, 1100000), Sparse(200000, 200000) }

MCArchives == Made \cup Noticed \cup Overcounted \cup Undercounted \cup Oversized
              \cup ShortBlocks \cup {Stub} \cup Sparses

-----------------------------------------------------------------------------
MCNoArchive == [length |-> 0, at |-> << >>, written |-> << >>, damage |-> "noArchive"]

MCHeaderSize == << 1648, 1660, 1580, 1584 >> @@ (0 :> 1632)
MCVendorHeaderSize == (3 :> 2112) @@ (4 :> 2128)

AtZero == { "ANDROID!", "VNDRBOOT", "sparse", "CrAU", "PKlocal", "PKend", "0707", "DTB", "ELF", "gDla" }
MCCuts == {0, 7, 1081, 1583, 2127, 4099}
MCLengths == {3, 8, 1028, 1082, 1580, 1584, 1632, 2112, 2128, 4100, 70000}

Words(v, kernel, ramdisk) ==
  [ length |-> 0, magic |-> "", version |-> v, headerSize |-> 0, page |-> 4096,
    kernel |-> kernel, ramdisk |-> ramdisk, second |-> 0, recoveryDtbo |-> 0,
    recoveryDtboOffset |-> 0, dtb |-> 0, signature |-> 0,
    vendorRamdisk |-> 1, table |-> 0, bootconfig |-> 0 ]

Magics(m0, m1024, m1080, m4096) ==
  (0 :> m0) @@ (1024 :> m1024) @@ (1080 :> m1080) @@ (4096 :> m4096)

Others ==
  { [length |-> n, magics |-> Magics(a, b, c, d), words |-> Words(4, 0, 1)] :
      n \in MCLengths, a \in (AtZero \cup {""}) \ {"ANDROID!", "VNDRBOOT"},
      b \in {"", "EROFS", "F2FS"}, c \in {"", "ext4"}, d \in {"", "gDla"} }

BootImages ==
  { [length |-> n, magics |-> Magics(a, "EROFS", "", ""), words |-> Words(v, k, r)] :
      n \in MCLengths, a \in {"ANDROID!", "VNDRBOOT"}, v \in 0 .. 5, k \in {0, 1}, r \in {0, 1} }

MCDocuments == Others \cup BootImages
=============================================================================
