----------------------------- MODULE ZipFormat -----------------------------
(***************************************************************************)
(* Archives as native/src/zip.rs is given them: a length and the records   *)
(* in them, at[offset], the entries their writer put there, and whether    *)
(* they are still what he wrote.  An intact archive follows the format; of *)
(* a damaged one no directory can be followed to its end, or it can but    *)
(* its numbers are not those of the directory that is there.               *)
(***************************************************************************)
EXTENDS Integers, Sequences, FiniteSets

CONSTANTS
  Archives,    \* [length, at, written: its entries, damage: "none" or what was done to it]
  Sentinel16,  \* a count that is in the ZIP64 record
  Sentinel,    \* a size or offset that is in a ZIP64 record or block
  MaxU64,
  MaxUsize,
  MaxReserve,  \* the most entries a vector may be reserved for
  Misread      \* what eight bytes across the end of an extra block read as

EndSize == 22
LocatorSize == 20
End64Size == 56
CentralSize == 46
LocalSize == 30
MaxComment == 65535

(***************************************************************************)
(* The records and the numbers in them; the values of an extra block are   *)
(* those of a ZIP64 block.                                                 *)
(***************************************************************************)
Numbers == 0 .. MaxU64
Blocks == [zip64 : BOOLEAN, len : Nat, values : Seq(Numbers)]

ArchiveRecords ==
  [kind : {"local"}, nameLen : Nat, extraLen : Nat]
  \cup [ kind : {"central"}, name : STRING, nameLen : Nat, extraLen : Nat, commentLen : Nat,
          v : [1 .. 3 -> Numbers], extra : Seq(Blocks) ]
  \cup [kind : {"end", "end64"}, count : Numbers, size : Numbers, offset : Numbers]
  \cup [kind : {"locator"}, offset : Numbers]

Entries == [name : STRING, uncompressed : Numbers, compressed : Numbers, data : Numbers]

OfKind(a, kind) == { o \in DOMAIN a.at : a.at[o].kind = kind }

-----------------------------------------------------------------------------
(* A value that is the sentinel is in the ZIP64 block, behind those of the values before it. *)
Rank(v, i) == Cardinality({ j \in 1 .. i : v[j] = Sentinel })

(* Where the blocks of an extra field begin, and where the last one ends. *)
BlockAt(h) ==
  LET at[k \in 0 .. Len(h.extra)] == IF k = 0 THEN 0 ELSE at[k - 1] + 4 + h.extra[k].len
  IN  at

(* Header h holds the values t, in its own fields or in its one ZIP64 block. *)
Holds(h, t) ==
  /\ \A k \in 0 .. Len(h.extra) : BlockAt(h)[k] <= h.extraLen
  /\ \A j, k \in DOMAIN h.extra : h.extra[j].zip64 /\ h.extra[k].zip64 => j = k
  /\ \A i \in 1 .. 3 :
       IF h.v[i] # Sentinel THEN t[i] = h.v[i]
       ELSE \E k \in DOMAIN h.extra :
              /\ h.extra[k].zip64 /\ Rank(h.v, i) <= Len(h.extra[k].values)
              /\ t[i] = h.extra[k].values[Rank(h.v, i)]

(* Entry e is the one of header h: it is named like it, and its data are behind a local header. *)
Describes(a, h, e) ==
  \E l \in OfKind(a, "local") :
    /\ l + LocalSize <= a.length
    /\ Holds(h, << e.uncompressed, e.compressed, l >>)
    /\ e.name = h.name
    /\ e.data = l + LocalSize + a.at[l].nameLen + a.at[l].extraLen

(* Headers V follow each other from one offset to another. *)
HeaderEnd(h, o) == o + CentralSize + h.nameLen + h.extraLen + h.commentLen

Adjoin(a, V, from, to) ==
  /\ from \in V \cup {to}
  /\ \A o \in V : /\ from <= o /\ HeaderEnd(a.at[o], o) <= to
                  /\ HeaderEnd(a.at[o], o) \in V \cup {to}
                  /\ \A p \in V : o < p => HeaderEnd(a.at[o], o) <= p

-----------------------------------------------------------------------------
(* The end record, and the record that has the numbers of the directory. *)
EndOf(a) == CHOOSE o \in DOMAIN a.at : a.at[o].kind = "end"
HasLocator(a, o) == o - LocatorSize \in OfKind(a, "locator")
Located(a, o) == a.at[o - LocatorSize].offset
DirectoryOf(a) == a.at[IF HasLocator(a, EndOf(a)) THEN Located(a, EndOf(a)) ELSE EndOf(a)]

(***************************************************************************)
(* What a writer leaves.  Its end record, the only one, is behind all but  *)
(* a comment; a count or an offset too large for it is in a ZIP64 record.  *)
(* The directory is in the archive and in reach of the reader's memory,    *)
(* consists of the headers and has one for each entry, in their order.     *)
(* Its numbers are those of the directory.  In what can be listed they may *)
(* claim fewer entries, or bytes behind the last header too.               *)
(***************************************************************************)
DirectoryEnds(a, to) == Adjoin(a, OfKind(a, "central"), DirectoryOf(a).offset, to)

Listable(a) ==
  LET e == EndOf(a)
      n == DirectoryOf(a)
      headers == OfKind(a, "central")
  IN  /\ OfKind(a, "end") = {e}
      /\ e + EndSize <= a.length /\ a.length <= e + EndSize + MaxComment
      /\ IF HasLocator(a, e)
         THEN Located(a, e) \in OfKind(a, "end64") /\ Located(a, e) + End64Size <= a.length
         ELSE n.count # Sentinel16 /\ n.offset # Sentinel
      /\ n.size <= MaxUsize /\ n.count <= MaxReserve
      /\ n.offset + n.size <= a.length
      /\ \E to \in {n.offset} \cup { HeaderEnd(a.at[o], o) : o \in headers } :
           DirectoryEnds(a, to) /\ to <= n.offset + n.size
      /\ a.written \in Seq(Entries)
      /\ Cardinality(headers) = Len(a.written) /\ n.count <= Len(a.written)
      /\ \A o \in headers :
           Describes(a, a.at[o], a.written[Cardinality({ p \in headers : p <= o })])

Intact(a) ==
  LET n == DirectoryOf(a)
  IN  Listable(a) /\ n.count = Len(a.written) /\ DirectoryEnds(a, n.offset + n.size)

(***************************************************************************)
(* What can be followed: from the numbers of an end record, or a ZIP64     *)
(* record some locator leads to, over as many headers as they claim, whose *)
(* blocks stay in their field and which lead to a local header each.       *)
(***************************************************************************)
Directories(a) ==
  OfKind(a, "end") \cup
    { l \in OfKind(a, "end64") : \E e \in OfKind(a, "end") : HasLocator(a, e) /\ l = Located(a, e) }

MayLieAt(h) ==
  {h.v[3], Misread} \cup
    UNION { { h.extra[k].values[j] : j \in DOMAIN h.extra[k].values } : k \in DOMAIN h.extra }

CanBeRead(a, h) ==
  /\ \A k \in 1 .. Len(h.extra) : BlockAt(h)[k - 1] + 4 <= h.extraLen => BlockAt(h)[k] <= h.extraLen
  /\ MayLieAt(h) \cap OfKind(a, "local") # {}

CanBeFollowed(a) ==
  \E d \in Directories(a), V \in SUBSET OfKind(a, "central") :
    LET n == a.at[d]
    IN  /\ n.size > 0 => n.offset + n.size <= a.length
        /\ Cardinality(V) = n.count
        /\ \E to \in {n.offset} \cup { HeaderEnd(a.at[o], o) : o \in V } :
             Adjoin(a, V, n.offset, to) /\ to <= n.offset + n.size
        /\ \A o \in V : CanBeRead(a, a.at[o])

ASSUME ZipAssumption ==
  /\ {Sentinel16, Sentinel, MaxU64, MaxUsize, MaxReserve, Misread} \subseteq Nat
  /\ Sentinel <= MaxU64 /\ Misread <= MaxU64
  /\ \A a \in Archives :
       /\ a.length \in Nat /\ DOMAIN a.at \subseteq Nat
       /\ \A o \in DOMAIN a.at : a.at[o] \in ArchiveRecords
       /\ \A o \in OfKind(a, "central") :
            a.at[o].extraLen < BlockAt(a.at[o])[Len(a.at[o].extra)] + 4

(***************************************************************************)
(* The damage of an archive leaves nothing to follow, but for three: fewer *)
(* entries counted, a size past the directory, a block without its values. *)
(***************************************************************************)
Unnoticed == {"smallerCount", "largerSize"}

ASSUME DamageAssumption ==
  \A a \in Archives :
    /\ a.damage = "none" => Intact(a)
    /\ a.damage \in Unnoticed => Listable(a)
    /\ a.damage = "largerSize" => DirectoryOf(a).count = Len(a.written)
    /\ a.damage \notin {"none", "shortBlock"} \cup Unnoticed => ~ CanBeFollowed(a)
=============================================================================
