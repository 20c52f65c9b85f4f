# ImgTools in TLA+

A verification project for ImgTools: TLA+ modules of the native engine
(`src/native`) and of the Android shell that drives it (`src/app`), TLC runs on
small instances, and TLAPS proofs for every instance.

Each module is written from the source. `PROJECT.json` maps its definitions to
source lines and lists the runs, the mutants that show what each property
catches, the findings, the hazards and the theorems.

## The system

ImgTools is an Android app that inspects image files without a server. The user
picks a document; the activity opens it through the storage access framework and
passes the *number* of its descriptor to a Rust library, which reads ranges of
it, classifies it and returns a line of text. The library also carries codecs and
parsers that have no caller in the app yet.

| Part | State | Operations | What makes it correct |
| --- | --- | --- | --- |
| LZ4 decoder (`imageforge_core.rs`) | source and destination position, the sequence being decoded, the caller's buffer | decode one block behind a window of the previous one | stays in its buffers, copies only defined bytes, leaves window and tail alone, never expands past the promised bound |
| LZ4 encoder (same file) | position, anchor, hash heads and chain ring, output | compress one block | ends; every match can be undone; a worst-case buffer suffices; decoding returns the input |
| `FdSource` (`bytesource.rs`) | descriptor, size taken when it was made | range read as a loop of `pread` | equals one atomic range read while the file is resized, calls are interrupted or transfer a part |
| `MemorySource`, `SubSource` (same file) | bytes; offset and size of a view | range read, views nested in views | a range of the outermost view is that range of the bytes below |
| boot headers (`boot.rs`) | none | parse boot and vendor_boot headers, versions 0 to 4 | read only words the version defines |
| boot layout (`boot_layout.rs`, `binary.rs`) | cursor, sections so far | place the sections of an image | sections in the image, in order, no wrap; damaged images rejected |
| ZIP reader (`zip.rs`) | tail, end record, central directory, cursor in it | find the end record, ZIP64 record and blocks, list entries | a listing is the one that was written, intact archives are understood, work bounded by what was read |
| detection (`lib.rs`) | none | magic comparison, header details | prefix and whole file judged alike, name and details of one image |
| `UriByteSource.read` (`UriByteSource.kt`) | channel position, buffer | range read | bytes of the range while the document is resized |
| xz, bzip2 (`imageforge_core.rs`) | output collected so far | decompress into the caller's buffer, -1 or -2 | a caller that retries on -2 gets the content whole or -1 in the end; bzip2 expands no further than its buffer and a chunk; errors leave its buffer alone |
| CRC-32 (same file) | the register | one-shot call | the remainder of polynomial division |
| session (`MainActivity.kt`, `UriByteSource.kt`, JNI in `lib.rs`) | named document, detection, descriptors, one coroutine per pick | pick, open, `inspectFile`, `listZip`, close, publish, recreation | descriptors neither leaked nor confused; results reach the right screen; every pick is answered |

Interactions: the session calls the JNI functions on an IO thread; these build an
`FdSource` over the descriptor number and run the header parser or the ZIP reader
over it; the layout consumes the parsed header. Encoder and decoder meet in the
bytes of a block, views and sources in the ranges they pass on.

What is hard: coroutines of several picks and of dead activities interleave; the
document belongs to another application; descriptor numbers are reused; the
encoder searches arrays it changes while searching; layouts are driven by numbers
out of damaged files. The list with lines is `hazards` in `PROJECT.json`.

## Modules

| Module | Models | Extends or instantiates |
| --- | --- | --- |
| `Lz4Format` | tokens, length bytes, offsets and the size bound of a block | |
| `Lz4Decode` | the decoder, one action per stage of its loop | `Lz4Format` |
| `ImageforgeCoreProofs` | theorems about the decoder and the checksum | `Lz4Decode`, `Crc32` |
| `Lz4Encode` | the encoder, with the walk of `lz4_find_match` as a loop of its own | `Lz4Format` |
| `Lz4RoundTrip` | the encoder's output handed to the decoder | `Lz4Encode`, instance of `Lz4Decode` |
| `Lz4RoundTripProofs` | theorems about the encoder and the round trip | `Lz4RoundTrip` |
| `RangeSource` | abstract: a range read answered in one step | |
| `FdSource` | the `pread` loop; implements `RangeSource` | instance of `RangeSource` |
| `BootHeader` | which words of an image become a header | |
| `BootLayout` | `boot_sections` and `vendor_sections`, one action per section | `BootHeader` |
| `BootLayoutProofs` | theorems about the layout | `BootLayout` |
| `RangeViews` | `SubSource` views nested over `FdSource` or `MemorySource` | `FdSource` |
| `RangeViewsProofs` | theorems about range reads and nested views, the refinement included | `RangeViews` |
| `KotlinRead` | `UriByteSource.read` | |
| `KotlinReadProofs` | theorems about it | `KotlinRead` |
| `ZipFormat` | archives and their records; what an intact one is, what else can be listed, and what of a damaged one can be followed | |
| `ZipList` | `listZip` and `list` of `zip.rs`, one action per range read or check | `ZipFormat` |
| `Detect` | `detect`, `header_details`, the names of the screen | `BootHeader` |
| `InspectDocument` | the block of `chooseResult`: detection, then the listing of a ZIP | `ZipList`, instance of `Detect` |
| `InspectDocumentProofs` | theorems about detection, the listing and its work | `InspectDocument` |
| `CodecRetry` | the two decompressors and a caller that retries | |
| `CodecRetryProofs` | theorems about it | `CodecRetry` |
| `Crc32` | the bit loop on bit vectors | |
| `InspectSession` | picks, coroutines, descriptors, the two native calls, recreation | |
| `InspectSessionProofs` | theorems about the session | `InspectSession` |
| `MC...` | instances for TLC | |

### How state and actions correspond to the code

*Lz4Decode*: `sp`, `dp`, `lit`, `mat`, `off` and `tok` are the locals of
`lz4_decompress_block_with_prefix` (`dp` absolute, as in the code), `dst` the
caller's buffer with undefined bytes as `Unset`, `pc` the stage of the loop body. A
`return None` is `Reject`. The byte-wise copy of a match is one step: byte `k` of it
is the byte at `off` before it, that is byte `k % off` of the text it refers to.

*Lz4Encode*: `head`, `chain`, `anchor` and `i` are the code's; `walk` is the state of a
running `lz4_find_match`; `enc` is `output[..pos]`. The inner insertions of a match
are one step, which computes what the ascending loop leaves in both arrays, slots
overwritten by later ones included. A position is stored as the `u32` the code makes of it
(`Stored`; the last of the `U32` values is `Nil`). The runs have `U32 = 1000`, which no
position of theirs reaches; the theorems about this module hold for every `U32`. A part of a sequence that does not fit makes
the code return `None`; since every part is checked before it is written, the whole
fails exactly if its length does not fit, which is the condition of the model.
`promise` is a history variable.

*FdSource*: `output` is the vector of `actual` bytes, `done` the count; `Blank` is a
byte of the fresh vector. The file is modelled by its length: byte `p` holds `p`, so
a byte from the wrong place is visible. `shortest` is a history variable.

*RangeViews*: `tower` is the chain of `SubSource` values, outermost first; `call` is what
reaches the bottom, so that the properties of `FdSource` are checked of what views
really ask it. `MaxOffset` stands for `u64::MAX` (the sum of a view wraps past it),
`MaxPosition` for `off_t::MAX` or `usize::MAX`.

*BootHeader*, *BootLayout*: an image is its magic, length and header words. Each
action is one `if` of the code, in its order; any error drops the layout
(`Reject`). Sums the code checks are compared with `MaxU64`, sums it does not check
are plain, and that they cannot wrap is `TypeOK`.

*KotlinRead*: one action per look at the document's size and per `channel.read`; the
document is resized between any two of them. The two evaluations of `size` are two
steps.

*ZipFormat*, *ZipList*: an archive is its length and the records in it, by offset; each range read is
one step and returns the bytes the file has left, or fails. `end` is `EndRecord`,
`cursor` and `entries` are the loop's. An extra field is its blocks; a value read past
the end of its block is `Misread`. The MC module writes the archives as a writer would
(local headers, directory, ZIP64 record, locator, end record, each at its place) and
damages them one record or number at a time. `damage` says what was done: of most archives
nothing can be followed any more; a `smallerCount` or a `largerSize` still leads to the directory,
and a `shortBlock` leads on with a made-up value.

*Detect*: a document is its length, the magic at each offset the code looks at, and its
header words; `Checks` is the order of the comparisons. *InspectDocument* runs it and
`ZipList` over one document: detection's `pc` is `stage`, `Listed` says that the listing
came back before anything is shown.

*CodecRetry*: a stream is its head, the place where each of its chunks ends and that of
its damage; `dst` is the
caller's buffer. One action per chunk of 64 KiB the decoder hands out, and the caller's
retry with a larger buffer.

*Crc32*: the register is a function from bit numbers to bits, of the real width 32.

*InspectSession*: `jobs` has one record per coroutine of `chooseResult`; its stages
are the points at which another thread can run. `fds` is the process's descriptor
table: native code reads whatever the number refers to. `Live` is the scope of the
coroutine, the activity that launched it. Names of JNI functions the library
exports are the constant `Exported`.

## Runs

| Run | Question | Bounds and why they suffice |
| --- | --- | --- |
| `lz4_decode` | does the decoder keep its promises on every block? | half bytes are base 2, so bytes have four values, the run mask is 1 and a length byte is full at 3: six bytes hold a window match with three extension bytes, or two sequences; destinations of 2 (no match fits), 8 and 14; `usize` ends at 15, so sums of lengths wrap |
| `lz4_round_trip` | are matches valid, is a worst-case buffer enough, does the encoder end, does decoding return the input? | all two-letter inputs up to 12 bytes: two matches and a window of 6 that is left behind; the first byte is the hash, so buckets hold texts that differ; 3 candidates, so walks are cut; destinations of 4, 8 (give-up within a sequence), 15 (exactly the worst case of 10 bytes) and 20; the decoder gets a buffer without a spare byte, after windows of 0 and 1 byte |
| `range_views` | is the loop a range read, does it end, do views hand out their own bytes? | a file of up to 4 bytes resized at every step, all requests up to offset and length 4, one signal, an `off_t` up to 2; four views, nested twice, of which one ends past `u64` |
| `kotlin_read` | does Kotlin read the range, when does it throw? | a document of up to 3 bytes resized at every step, offsets up to 4 |
| `boot_layout` | are sections in the image and in order? | pages of 4, 8 and 16 (and the invalid 0 and 6), sections of 0, 1 and 5, numbers up to 31: images shorter than a header up to the largest number |
| `inspect_session` | are descriptors, results and screens kept apart? | three picks over two descriptors (reuse and exhaustion), one recreation, three kinds of documents |
| `inspect_document` | do name, details and listing fit the document? | every list of up to two of five members (plain, every choice of ZIP64 fields that differs, foreign blocks before and behind, local extra fields, comments), with and without a ZIP64 record, archive comments of 0 and 65535 bytes; each record lost, each number changed, smaller counts and larger directories included, cut at each record; a large file that claims a directory past `usize`, or one as large as itself; every magic at every offset, with lengths around magics, headers and prefix. `usize`, the reservation limit and the sentinels are scaled in the relations of the build |
| `codec_retry` | does a caller that retries get its answer? | streams of up to three chunks with the damage at any of them, buffers below, at and above a chunk's end, retried up to 18 bytes, more than any stream gives |
| `crc32` | is the loop polynomial division? | the real width; all one-byte messages, messages of two and five bytes |
| `lz4_lazy`, `boot_layout_damaged`, `inspect_as_built` | the findings below | as the runs above |

Deadlock is not checked where the code ends (a codec call, a layout, one inspection): the
last state has no step. Range reads and the session never stop, and there it is.

The format of a block is scaled through `Nibble` instead of being abstracted: all
widths follow from it, and the proofs hold for every base, 16 included. `MinMatch`,
`LastLiterals` and `MfLimit` are scaled with the relations the code relies on
(`EncodeAssumption`).

### Fairness

- `RoundSpec`: weak fairness of the one thread that encodes and decodes.
- `FdSource`, `RangeViews`: weak fairness of `Progress` and `ViewProgress`, the steps the loop
  makes when neither a signal nor a fault of the device meets it. The thread is scheduled,
  and each `pread` returns. A fault is allowed at any step but never assumed, so it is not
  what ends a read; `Interrupted` is bounded by `MaxSignals`. Nothing is assumed of the
  application that resizes the file.
- `KotlinRead`: the same of its `Progress`, without the size or the channel failing and without the channel
  giving nothing.
- `CodecRetry`: weak fairness of its steps: the caller and the call are one thread.
- `InspectSession`: weak fairness of each coroutine's next step. `Dispatchers.IO` and the
  main thread run what is dispatched to them, and blocks do not wait for each
  other. Nothing is assumed of the user or of recreation.

## Findings

1. `inspectFile` is not exported (`lib.rs:107`): without `#[unsafe(no_mangle)]` the symbol
   Kotlin declares does not exist; the call throws, `runCatching` turns it into "Could
   not inspect file", for every document. Run `inspect_as_built`. The passing runs of the
   session and of one document give `Exported` the declared function, or take the call as
   made, so that the rest of the code is reached.
2. The look-ahead of the encoder loses the match it defers to (`lz4_lazy`): `i + 1` is
   inserted twice, the second time its predecessor is itself. In most inputs the
   match is found again one byte later and extended backwards; otherwise it is
   shorter, or gone at the end of the block. Blocks stay valid: `RoundTrip` holds.
3. Truncated images are laid out with overlapping sections (`boot_layout_damaged`).

Remarks, met while modelling. The models contain the behaviour; a passing property names
the exception where it matters.

- The second insertion of a position also cuts the chain at positions inside a match
  (`imageforge_core.rs:366`): older positions of the bucket are no longer found.
- On a 32-bit ABI `off_t` has 32 bits: ranges behind 2 GiB are refused
  (`bytesource.rs:78`), though the port is meant for documents of 8 GB. `AnswerError`.
- On the same ABI the lengths of a malformed block of some 16 MB wrap (`imageforge_core.rs:119`),
  pass the range check and stop the process. `TrapsOnlyBeyondUsize` says it is only these.
- `SubSource` adds its offset without a check (`bytesource.rs:134`): a view that ends past
  `u64::MAX` hands out bytes in front of itself. `EndsFit` in `ReadsItsWindow`.
- The vector of entries is reserved for the number a ZIP64 record claims (`zip.rs:141`); a
  number past its capacity panics and aborts the process. `ReservationTraps`.
- The loop runs as often as the end record says and never compares its last position with the
  end of the directory (`zip.rs:143`), which would tell: a count that is too small loses the
  other entries without a word, and a size past the directory goes unnoticed. `smallerCount` and
  `largerSize` in `ListedAsWritten`.
- A ZIP64 block too short for its values is completed from the block behind it
  (`zip.rs:124`). The exception `shortBlock` of `ListedAsWritten`.
- The directory is read at once, whatever size the end record gives (`zip.rs:137`), though
  the module's comment says the archive is never loaded wholesale.
- `bzip2_header_ok` (`imageforge_core.rs:461`) refuses the stream bzip2 writes for an empty
  input, which has no block. The exception `EmptyBzip2` of `RetriesGiveTheAnswer`.
- An xz stream is expanded whole before its length is compared with the caller's buffer
  (`imageforge_core.rs:447`, `read_to_end`): nothing but the stream bounds what it takes, which
  is why `Bzip2ExpansionIsBounded` is about bzip2.
- When two picks of a screen overlap, the one that ends last is shown (`MainActivity.kt:98`),
  under the name of the one picked last. `SelectionIsShown` is about picks that did not overlap.
- The report of a ZIP is joined to its details by a backslash and an `n` instead of a line
  break (`MainActivity.kt:89`, `"$detail\\n..."`). Layout is not modelled.
- The comment at `imageforge_core.rs:170` calls the encoder a plain greedy matcher; it has
  chains and lazy matching.

## Proofs

`ImageforgeCoreProofs` proves type correctness and all four safety invariants of the
decoder from `FormatAssumption` and `DecodeAssumption`. The inductive invariant adds to
them:

- `PastWindow`: once running, the write position is past the window;
- `OffsetInText`: the offset of a pending match lies in the text written, so the copy
  reads defined bytes only;
- `Budget`: every source byte read pays for `ByteMax` bytes written. A token leaves one
  byte unspent until its literals are copied; a match owes `RunMask + MinMatch` to the
  three bytes of its token and offset, which is where the assumption
  `RunMask + MinMatch <= 3 * ByteMax` (15 + 4 <= 765) comes from. `SizeBound` alone is not
  inductive: in the middle of a length it says nothing of what the length will write.

`SmallBlocksNeverTrap` gives `TrapsOnlyBeyondUsize` for every width of `usize`: the lengths
of a block are bounded by its bytes (a part of `Budget`), so a block shorter than `usize`
allows never stops the process. On the 64-bit build no block does.

The same module proves `ReturnsTheRemainder` of the checksum from `CrcAssumption`: for every
width of the register, every polynomial, every width of a byte that fits the register and every
message. The reference division takes `Width` bits in before it divides and appends `Width` zeros
to the message; the loop does neither, and takes a byte at once. `RunsWithTheDivision` relates
the two: what the division has left after `Width` steps more is the register of the loop, plus the
message bits the division has taken in and the loop has not. Behind the message those are zeros.

`Lz4RoundTripProofs` proves, first, all three safety invariants of the encoder from
`FormatAssumption` and `EncodeAssumption`, for every base, alphabet, hash function, input and destination. Of `head`
and `chain` it needs only that they hold positions or `Nil`: a walk compares the texts of every
candidate it takes from them. The invariant adds

- `Positions`, `WalkIsMatch`, `FoundIsMatch`: the best candidate of a walk is a match at the
  position walked from, and stays one until it is emitted; extending it backwards by texts
  that agree keeps it one (`EmittedMatch`);
- `Spent`: `ByteMax` bytes of input have cost at most `ByteMax + 1` of output. A sequence pays
  for its token, offset and length bytes by what its match saves (`SequencePays`), which needs
  `4 * ByteMax <= Byte * MinMatch + RunMask` (1020 <= 1039). Only the last sequence has no match,
  and its two bytes too many are the slack: 16 in the code, of which 2 are needed.

Each `CHOOSE` of the model has something to choose (`AgreementFacts`, `BackwardsFacts`,
`NewestExists`), from the well-foundedness of the naturals.

Then it proves `RoundTrip` for the composition, also from `DecodeAssumption` and
`RoundAssumption` (blocks and destinations fit `usize`). The two state machines share nothing
but the bytes of the block, so the invariant `RInv` speaks of bytes:

- `Literals` and `Match` say what a sequence's halves look like at a position of the block, and
  `Encodes` that from there on the block is a chain of sequences that spells the rest of the
  input. The chain is a set of positions with a successor each, not a recursive definition:
  appending bytes keeps it, and one sequence more extends it (`ChainIsWritten`);
- `DecoderStands` has one disjunct per stage of the decoder: at a token it stands at a place of
  the chain, in a length it has read a part of the length's bytes, and before a copy it holds
  the very offset and length the encoder emitted;
- `Decoded`: what is behind the window is the input up to `Reached`. A copied byte is the input's
  because the match is one (`EmittedMatch`) and the text it refers to was decoded before, byte
  by byte, overlapping copies included.

The decoder refuses and traps nothing on such a block, since every guard of it follows from
the chain.

`BootLayoutProofs` proves type correctness, `SectionsInSource`, `SectionsInOrder` and
`TailCovered` of the layout from `HeaderAssumption` and `LayoutAssumption`, for every set of images whose
header words are numbers, every page size and every width of a number. The order of
sections is not inductive by itself: it needs `CursorPast`, that the cursor is behind the
header and every section placed, and that in turn needs

- `HeaderChecked`: the alignment is positive once the header is accepted, so aligning
  never moves back (`AlignUpIsPast`);
- `HeaderParsed`: an image with a dtb is no shorter than its header. A dtb taken from the
  end of the image moves the cursor to the image's end, and only this keeps that behind
  the header.

`CursorPast` ends with the layout: the last section is placed without moving the cursor.
`TailCovered` follows from the steps that place the tail, each of which puts a section at the
cursor (`PartsArePlaced`, `TailCovers`).

`RangeViewsProofs` proves, from `FdAssumption` and `ViewsAssumption`, type correctness of
`FdSource` and `ImplementsRangeRead`, that it implements `RangeSource`, and the same of a tower
of views over a file or over memory, and `ReadsItsWindow` of the tower: for every file, every
sequence of requests, every `off_t`, every set of views and every depth. The invariant of the
loop adds to the types `ReadSoFar`, that the buffer of a running read has the size of the range
and begins with its bytes, and that `shortest` is no more than the length now. Each step is then
mapped: transfers and signals are stutters of the atomic read, the end of the loop answers with
the whole range, the end of the file with a prefix, which `shortest` justifies.

For the views, `IsWindow(d, r)` says what reaches the source below the first `d` of them: the part
of the request that lies in each, moved by the sum of their offsets. One view keeps it
(`ViewKeepsWindow`: the two clamps of `SubSource::read` are the intersection with the view, and
where the end of the view is a `u64` the sum does not wrap), so the whole tower does, by the least
depth at which it would not hold. The invariant of the composition needs besides that a request
to the bottom is always the one asked of the tower (`PassedDown`), that bytes in memory stay as
they are (`MemoryStays`), and that an answer, once given, remains the range
(`AnswerIsRange`). The walk down the tower and the sum of the offsets are recursive functions;
that there are such functions is proved (`DescentExists`, `SumExists`).

`KotlinReadProofs` proves both safety invariants of the Kotlin range read from
`KotlinAssumption`. Of the first answer for the size the invariant keeps only what holds of the
second: the range begins in the document, unless it was resized (`Checked`). The buffer is
then no smaller than what was in the document throughout (`Room`), and the end of the
document is met at or behind `shortest` (`Ended`).

`InspectSessionProofs` proves type correctness and the four safety properties of a session
from `SessionAssumption`, for any number of picks, documents, descriptors and recreations. The
invariant adds to the properties

- `Held`, `Apart`, `NoneLeaked`: `DescriptorsAreHeld` told without counting. A number is
  free only when no block holds it, so an open never takes another block's number;
- `OwnReads`: what a coroutine has read so far is of its document, which with `Held` carries
  over each native call and becomes `ReportIsOfItsDocument` when it is published;
- `OthersDone`, `LastIsNamed`: as long as no picks overlap, only the last pick of the
  activity can still run, and it is the one the screen names. `SelectionIsShown` alone says
  nothing while a block runs.

`CodecRetryProofs` proves the three safety invariants of the decompressors and their
caller from `RetryAssumption`, for every size of chunk and buffer; that expansion is bounded is a
statement about bzip2 only. What ties the calls of a
retrying caller together is that each begins anew (`BeginsAnew`): what was expanded is the
content up to the last chunk taken (`ExpandedInOrder`), nothing is written before it is known
to fit (`NothingWrittenYet`), and a call that was answered has seen the end of the stream or
its damage (`Answered`).

`InspectDocumentProofs` proves type correctness and all six safety invariants of an inspection
from `ZipAssumption`, `InspectAssumption` and `DamageAssumption`. The first two say that records
are records of the format and that headers lie in the first bytes and hold their magic. The third
ties the constant `Archives` to its writer, who is not part of the repository: an archive
called undamaged is `Intact`; of one whose count is smaller or whose size is larger the directory is
still in reach (`Listable`); and of one that was damaged otherwise, but for a ZIP64 block
too short for its values, no directory can be followed (`CanBeFollowed`). All are predicates of the
archive alone, written without the reader: `Listable` describes what is written (one end record
behind all but its comment, directory in place, one header for each entry in order, values in the
header or in its one ZIP64 block) and numbers that claim no more entries and no fewer bytes than that,
`Intact` adds that they claim just that, and `CanBeFollowed` asks for any set of headers that adjoin each
other from where some record says, are as many as it claims, and each lead to a local header.
TLC evaluates the assumption on every archive of the run. Only the three theorems on what is
listed need it. `Listable` also asks for a count no greater than a vector can be reserved for; of a larger
one the process stops. The invariant has these parts:

- `NothingListedYet`, `ReadsCounted`: finding the directory costs at most three reads, and each
  header walked over moves the cursor by 46 bytes. `ReadsAreBounded` alone does not say that the
  cursor is behind every entry listed, so the read of the next local header would be free;
- `PrefixRead`: what was read is either as much as is ever read or as much as was left of the
  document, which a later cut does not change;
- `Reported`, `Labelled`: report and name are functions of the document and of how much of it was
  read. That they fit is then a fact about every prefix (`ReportFits`): a boot header parses only
  if the first of all magics is hit, so no other name is found for it;
- `FollowInv`: the numbers in use are those of a record that is there, and the entries made are as
  many as the headers walked over, each adjoining the last, up to the cursor, and each with blocks
  in their field and a local header (`ValuesCanBeRead`). At the end of the
  loop that is a directory that was followed, so `ListedAsWritten` for damaged archives;
- `OnWritersPath`: of a `Listable` archive the numbers are those of its directory, the cursor is at one of its
  headers or at the end of the directory, and the entries are the first of those written, as many as
  there are headers in front of the cursor. A step of the loop finds the next header
  (`NextOfHeaders`) and its values (`IntactValues`), and each outcome but success has a cut
  or the device behind it. Neither `ListedAsWritten` nor `IntactIsListed`, which
  are about the end, says any of this;
- `ShownListed`: nothing is shown of a ZIP whose listing still runs. With `ArchiveCode`, that the
  first bytes of an archive are known as one, this gives `IntactIsShown`.

The walk of `zip64_values` over the blocks of an extra field is a recursive function; that it
exists, that its values are numbers as long as all is well, and that on a header which holds an
entry's values it gives these, is proved from block to block (`WalkExists`,
`Zip64ValuesTyped`, `IntactValues`); what holds of the first, and of each if of the one
before it, holds of all, by the well-foundedness of the naturals (`Throughout`).

Only model-checked: liveness (`Termination`, `EveryReadEnds`, `EveryPickEnds`,
`CallerSettles`), which is out of the prover's reach. What the MC writer makes, and that its
damage is of the kinds `DamageAssumption` names, is evaluated, not proved. The inductive invariants
speak of sets of headers and of recursive functions over every archive; TLC checks what they
imply.

## Plan

Done, in order: LZ4 decoder and its theorems; encoder and round trip; range reads;
boot layout and its theorems; session; ZIP reader; detection and the composition of
both; codec retries; Kotlin range read; nested views; CRC-32; `usize` of 32 bits in the
decoder; the refinement of `RangeSource`; the theorems of the session, of
the encoder and of the Kotlin range read; the round trip, the tail of a layout, the retries and
the inspection of a document as theorems; nested views as theorems; the checksum as a theorem; what a listing says of its
archive, intact or damaged, as theorems.

## Not modelled

- The heap wrappers `alloc` and `dealloc`, which have no state of their own, and
  `imageforge_xz_compress`, one library call and a length check. The decoders behind xz and
  bzip2 are third-party crates; the model has their streams, not their formats.
- Text: the wording of reports and names, the 200 entries a ZIP report shows, method and
  CRC of entries, the encoding of names.
- The Compose screen beyond the two values it shows; persisted permissions; build files.
- Records of an archive are told apart by their place: a signature that occurs in a comment
  or in stored data, which the backward search of `zip.rs:76` takes for the end record, does
  not occur. The repository says nothing of such archives.
- An intact empty archive with a ZIP64 record begins with that record's signature, which
  `detect` does not know: it is shown as unknown. `IntactIsShown` is about archives that begin
  with a local header or an end record.
- The checked readers and writers of `binary.rs`, which only tests call.
