------------------------------ MODULE ZipList ------------------------------
(***************************************************************************)
(* listZip and list of native/src/zip.rs over the range source listZip     *)
(* gives it: the tail of the archive is searched for the end record, a     *)
(* ZIP64 record may replace its numbers, the central directory is read at  *)
(* once, and one local header is read per entry.                           *)
(*                                                                         *)
(* An archive is one of ZipFormat.  The file belongs to another            *)
(* application: it may be cut between two reads, and each read is one of   *)
(* RangeSource, short only at the end of the file.                         *)
(***************************************************************************)
EXTENDS ZipFormat, FiniteSetsExt

VARIABLES
  archive,  \* the document as it was picked
  fileLen,  \* how much of it is left
  size,     \* how much was left when the source was made
  eocd,     \* where the end record was found
  end,      \* EndRecord [count, size, offset]
  central,  \* how much of the central directory was read: all of it, or nothing
  cursor,   \* the position in it
  entries,  \* the entries listed so far
  reads,    \* history: the number of range reads
  pc        \* the next read, or the outcome

zipVars == << archive, fileLen, size, eocd, end, central, cursor, entries, reads, pc >>

EndRecordWindow_NoComment == EndSize + LocatorSize + End64Size
EndRecordWindow == MaxComment + EndSize + 76 + MaxComment

Errors == {"tooShort", "missingEocd", "invalidZip64", "truncated", "damaged", "unsupported", "source"}
Reading == {"call", "tail", "end64", "central", "entries"}

-----------------------------------------------------------------------------
(* A range read: the number of bytes it returns, or Failed. *)
Failed == -1
Within(o, n, len) == IF o >= len THEN 0 ELSE Min({n, len - o})
Read(o, n) ==
  {Within(o, n, Min({fileLen, size}))} \cup (IF Within(o, n, size) > 0 THEN {Failed} ELSE {})

IsA(kind, o) == o \in OfKind(archive, kind)

ListingBegins ==
  /\ size = 0 /\ eocd = 0
  /\ end = [count |-> 0, size |-> 0, offset |-> 0]
  /\ central = 0 /\ cursor = 0 /\ entries = << >> /\ reads = 0
  /\ pc = "call"

Init == archive \in Archives /\ fileLen = archive.length /\ ListingBegins

Give(outcome) ==
  /\ pc' = outcome
  /\ UNCHANGED << eocd, end, central, cursor, entries >>

(* The document is cut at a record, behind its first byte, or in the comment of the archive. *)
Truncate ==
  /\ pc \in Reading
  /\ \E o \in DOMAIN archive.at : \E d \in {0, 1, EndSize} :
       o + d < fileLen /\ fileLen' = o + d
  /\ UNCHANGED << archive, size, eocd, end, central, cursor, entries, reads, pc >>

-----------------------------------------------------------------------------
(* The size crosses from Kotlin with the descriptor. *)
Begin ==
  /\ pc = "call"
  /\ size' = fileLen
  /\ pc' = "tail"
  /\ UNCHANGED << archive, fileLen, eocd, end, central, cursor, entries, reads >>

Window == Min({EndRecordWindow, size})
TailStart == size - Window

(* The signature is searched backwards; the locator in front of it must lie in the tail. *)
EndRecords(got) == { o \in DOMAIN archive.at : /\ IsA("end", o)
                                               /\ o >= TailStart /\ o + EndSize <= TailStart + got }
LocatorFits(o) == o - TailStart >= LocatorSize

TooShort ==
  /\ pc = "tail" /\ size < EndSize
  /\ Give("tooShort")
  /\ UNCHANGED << archive, fileLen, size, reads >>

ReadTail ==
  /\ pc = "tail" /\ size >= EndSize
  /\ reads' = reads + 1
  /\ \E got \in Read(TailStart, Window) :
       IF got = Failed THEN Give("source")
       ELSE IF EndRecords(got) = {} THEN Give("missingEocd")
       ELSE /\ eocd' = Max(EndRecords(got))
            /\ end' = [n \in DOMAIN end |-> archive.at[eocd'][n]]
            /\ pc' = IF LocatorFits(eocd') /\ IsA("locator", eocd' - LocatorSize) THEN "end64"
                     ELSE IF /\ LocatorFits(eocd')
                             /\ end'.count = Sentinel16 \/ end'.offset = Sentinel
                     THEN "invalidZip64" ELSE "central"
            /\ UNCHANGED << central, cursor, entries >>
  /\ UNCHANGED << archive, fileLen, size >>

End64At == archive.at[eocd - LocatorSize].offset

ReadEnd64 ==
  /\ pc = "end64"
  /\ reads' = reads + 1
  /\ \E got \in Read(End64At, End64Size) :
       IF got = Failed THEN Give("source")
       ELSE IF got < End64Size \/ ~ IsA("end64", End64At) THEN Give("invalidZip64")
       ELSE /\ end' = [n \in DOMAIN end |-> archive.at[End64At][n]]
            /\ pc' = "central"
            /\ UNCHANGED << eocd, central, cursor, entries >>
  /\ UNCHANGED << archive, fileLen, size >>

-----------------------------------------------------------------------------
TooLarge ==
  /\ pc = "central" /\ end.size > MaxUsize
  /\ Give("unsupported")
  /\ UNCHANGED << archive, fileLen, size, reads >>

(***************************************************************************)
(* The vector is reserved for all entries the archive claims, for none if  *)
(* the claim is no usize; a capacity that overflows panics, and a panic    *)
(* out of an extern function aborts the process.                           *)
(***************************************************************************)
ReservationTraps == end.count <= MaxUsize /\ end.count > MaxReserve

ReadCentral_AnySize ==
  /\ pc = "central"
  /\ reads' = reads + 1
  /\ \E got \in Read(end.offset, end.size) :
       IF got = Failed THEN Give("source")
       ELSE IF got # end.size THEN Give("truncated")
       ELSE /\ central' = got
            /\ pc' = IF ReservationTraps THEN "trap" ELSE "entries"
            /\ UNCHANGED << eocd, end, cursor, entries >>
  /\ UNCHANGED << archive, fileLen, size >>

ReadCentral ==
  /\ pc = "central" /\ end.size <= MaxUsize
  /\ reads' = reads + 1
  /\ \E got \in Read(end.offset, end.size) :
       IF got = Failed THEN Give("source")
       ELSE IF got # end.size THEN Give("truncated")
       ELSE /\ central' = got
            /\ pc' = IF ReservationTraps THEN "trap" ELSE "entries"
            /\ UNCHANGED << eocd, end, cursor, entries >>
  /\ UNCHANGED << archive, fileLen, size >>

-----------------------------------------------------------------------------
(***************************************************************************)
(* zip64_values: v is << uncompressed, compressed, local offset >> of a    *)
(* central header.  A ZIP64 block at p holds a value of eight bytes for    *)
(* each of them that is the sentinel, in this order.  Values are bounded   *)
(* by the extra field, not by their block: what a block is too short for   *)
(* is read from the bytes behind it.                                       *)
(***************************************************************************)
Unreadable == -1
ValueOf(b, k, p, extraLen) ==
  IF k <= Len(b.values) THEN b.values[k]
  ELSE IF p + 4 + 8 * k <= extraLen THEN Misread ELSE Unreadable

Filled(b, v, p, extraLen) ==
  [i \in 1 .. 3 |-> IF v[i] = Sentinel THEN ValueOf(b, Rank(v, i), p, extraLen) ELSE v[i]]

Zip64Values_FixedSlots(h) == [ok |-> TRUE, v |-> 
  IF \E k \in DOMAIN h.extra : h.extra[k].zip64
  THEN LET b == h.extra[CHOOSE k \in DOMAIN h.extra : h.extra[k].zip64]
       IN  [i \in 1 .. 3 |-> IF h.v[i] = Sentinel THEN ValueOf(b, i, 0, h.extraLen) ELSE h.v[i]]
  ELSE h.v]

(* One block more: s is the position, whether all was well, and the values so far. *)
AfterBlock(s, b, extraLen) ==
  LET next == s.p + 4 + b.len
      v == Filled(b, s.v, s.p, extraLen)
  IN  IF ~ s.ok \/ s.p + 4 > extraLen THEN s
      ELSE IF next > extraLen THEN [s EXCEPT !.ok = FALSE]
      ELSE IF ~ b.zip64 THEN [s EXCEPT !.p = next]
      ELSE [p |-> next, ok |-> \A i \in 1 .. 3 : v[i] # Unreadable, v |-> v]

Zip64Values(h) ==
  LET walk[k \in 0 .. Len(h.extra)] ==
        IF k = 0 THEN [p |-> 0, ok |-> TRUE, v |-> h.v]
        ELSE AfterBlock(walk[k - 1], h.extra[k], h.extraLen)
  IN  walk[Len(h.extra)]

HeaderAt == end.offset + cursor
HasHeader == cursor + CentralSize <= central /\ IsA("central", HeaderAt)
NextCursor(h) == HeaderEnd(h, cursor)

DataOffset_OfCentral(h, at) == at + LocalSize + h.nameLen + h.extraLen
DataOffset(h, at) == at + LocalSize + archive.at[at].nameLen + archive.at[at].extraLen

(* The local header is read; sums past u64 are refused. *)
ReadLocal(h, v) ==
  /\ reads' = reads + 1
  /\ \E got \in Read(v[3], LocalSize) :
       IF got = Failed THEN Give("source")
       ELSE IF \/ got < LocalSize \/ ~ IsA("local", v[3])
               \/ DataOffset(h, v[3]) > MaxU64 THEN Give("damaged")
       ELSE /\ entries' = Append(entries, [ name |-> h.name, uncompressed |-> v[1],
                                            compressed |-> v[2], data |-> DataOffset(h, v[3]) ])
            /\ cursor' = NextCursor(h)
            /\ UNCHANGED << eocd, end, central, pc >>

NextEntry_StaysAtHeader ==
  /\ pc = "entries" /\ Len(entries) < end.count
  /\ reads' = reads + 1
  /\ IF ~ HasHeader THEN Give("damaged")
     ELSE /\ entries' = Append(entries, [name |-> archive.at[HeaderAt].name, uncompressed |-> 0,
                                         compressed |-> 0, data |-> 0])
          /\ UNCHANGED << eocd, end, central, cursor, pc >>
  /\ UNCHANGED << archive, fileLen, size >>

NextEntry ==
  /\ pc = "entries" /\ Len(entries) < end.count
  /\ LET h == archive.at[HeaderAt]
     IN  \/ /\ ~ HasHeader
            /\ Give("damaged") /\ UNCHANGED reads
         \/ /\ HasHeader /\ NextCursor(h) > central
            /\ Give("truncated") /\ UNCHANGED reads
         \/ /\ HasHeader /\ NextCursor(h) <= central
            /\ ~ Zip64Values(h).ok
            /\ Give("invalidZip64") /\ UNCHANGED reads
         \/ /\ HasHeader /\ NextCursor(h) <= central
            /\ Zip64Values(h).ok
            /\ ReadLocal(h, Zip64Values(h).v)
  /\ UNCHANGED << archive, fileLen, size >>

Finish ==
  /\ pc = "entries" /\ Len(entries) = end.count
  /\ Give("ok")
  /\ UNCHANGED << archive, fileLen, size, reads >>

List == Begin \/ TooShort \/ ReadTail \/ ReadEnd64 \/ TooLarge \/ ReadCentral \/ NextEntry \/ Finish
Next == List \/ Truncate
Spec == Init /\ [][Next]_zipVars

-----------------------------------------------------------------------------
(***************************************************************************)
(* Every variable stays in its range; what is held of the directory fits   *)
(* an usize.                                                               *)
(***************************************************************************)
TypeOK ==
  /\ fileLen \in 0 .. archive.length /\ size \in 0 .. archive.length
  /\ eocd \in 0 .. archive.length
  /\ end \in [count : Numbers, size : Numbers, offset : Numbers]
  /\ central \in 0 .. MaxUsize /\ cursor \in 0 .. central
  /\ entries \in Seq(Entries)
  /\ reads \in Nat
  /\ pc \in Reading \cup Errors \cup {"ok", "trap"}

(***************************************************************************)
(* A listing that is given is the one that was written: entry by entry,    *)
(* with sizes and offsets from ZIP64 blocks where they are and the data    *)
(* behind the local header, even if the document is cut while it is read.  *)
(* An archive that misses a record, claims entries it has not or holds a   *)
(* block longer than its field is never listed at all.  Of one that claims *)
(* fewer entries the first are listed, and a size past the directory is    *)
(* not noticed, since the last position is compared with nothing; a ZIP64  *)
(* block too short for its values takes them from the block behind it.     *)
(***************************************************************************)
ListedAsWritten ==
  pc = "ok" =>
    \/ archive.damage \in {"none", "largerSize"} /\ entries = archive.written
    \/ archive.damage = "smallerCount" /\ entries = SubSeq(archive.written, 1, Len(entries))
    \/ archive.damage = "shortBlock"

(***************************************************************************)
(* An archive its writer left intact is refused only if it was cut or the  *)
(* device failed: long comments, ZIP64 records, foreign extra blocks and   *)
(* an archive without entries are all understood.                          *)
(***************************************************************************)
IntactIsListed ==
  archive.damage = "none" /\ pc \in Errors \cup {"trap"} =>
    pc = "source" \/ fileLen < archive.length

(***************************************************************************)
(* The work is bounded by the directory read, not by the number of entries *)
(* a damaged archive claims.                                               *)
(***************************************************************************)
ReadsAreBounded == CentralSize * (reads - 3) <= central
=============================================================================
