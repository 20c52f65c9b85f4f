--------------------------- MODULE InspectSession ---------------------------
(***************************************************************************)
(* The inspection of picked documents: MainActivity.chooseResult, the      *)
(* UriByteSource it opens and the two native calls it makes on the         *)
(* descriptor.  Picks and results are delivered on the main thread, the    *)
(* block between them runs on an IO thread per pick, and the activity may  *)
(* be destroyed and created anew (a rotation) at any moment.               *)
(*                                                                         *)
(* Native code is given the number of a descriptor, not the descriptor:    *)
(* what it reads is whatever that number refers to when it reads.          *)
(***************************************************************************)
EXTENDS Integers, Sequences, FiniteSets

CONSTANTS
  Uris,         \* documents the user may pick
  Openable,     \* those the provider opens
  Zips,         \* those whose first bytes are a ZIP header
  NoUri,        \* the picker was left without a choice
  Nothing,      \* no detection
  Closed,       \* an entry of the descriptor table that is free
  Fds,          \* the descriptors of the process
  Exported,     \* the JNI functions the native library exports
  MaxPicks,     \* bound: how many documents are picked
  MaxRecreated  \* bound: how often the activity is created anew

Outcomes == {"pending", "notOpened", "notLinked", "notRead", "identified"}
Reports == [about : Uris, readFrom : SUBSET Uris, outcome : Outcomes]

ASSUME SessionAssumption ==
  /\ Openable \subseteq Uris /\ Zips \subseteq Uris
  /\ NoUri \notin Uris /\ Closed \notin Uris /\ Nothing \notin Reports
  /\ Fds \subseteq Nat /\ IsFiniteSet(Fds)
  /\ MaxPicks \in Nat /\ MaxRecreated \in Nat

VARIABLES
  activity,   \* which activity is alive: how often it was created anew
  selected,   \* the document its screen names
  detection,  \* the detection its screen shows
  fds,        \* the descriptor table
  jobs,       \* one coroutine per pick, in the order of the picks
  overlapped  \* history: a pick was made while another was being inspected

sessionVars == << activity, selected, detection, fds, jobs, overlapped >>

Stages == {"queued", "inspect", "list", "close", "publish", "done"}

NewJob(u) ==
  [ uri |-> u, activity |-> activity, stage |-> "queued", fd |-> 0,
    readFrom |-> {}, outcome |-> "pending" ]

Live(j) == jobs[j].activity = activity
Busy == \E j \in DOMAIN jobs : Live(j) /\ jobs[j].stage # "done"

Init ==
  /\ activity = 0
  /\ selected = NoUri
  /\ detection = Nothing
  /\ fds = [n \in Fds |-> Closed]
  /\ jobs = << >>
  /\ overlapped = FALSE

MovesTo(j, stage) == jobs' = [jobs EXCEPT ![j].stage = stage]
EndsAs(j, stage, outcome) == jobs' = [jobs EXCEPT ![j].stage = stage, ![j].outcome = outcome]

-----------------------------------------------------------------------------
(* The picker returns a document: it is named at once and inspected later. *)
Pick(u) ==
  /\ Len(jobs) < MaxPicks
  /\ selected' = u
  /\ jobs' = Append(jobs, NewJob(u))
  /\ overlapped' = (overlapped \/ Busy)
  /\ UNCHANGED << activity, detection, fds >>

(* It returns none: chooseResult does nothing, the screen names no document. *)
PickNone ==
  /\ selected' = NoUri
  /\ UNCHANGED << activity, detection, fds, jobs, overlapped >>

(* openFileDescriptor gives the lowest free descriptor, or throws. *)
Free == { n \in Fds : fds[n] = Closed }

Open(j) ==
  /\ jobs[j].stage = "queued" /\ Live(j)
  /\ jobs[j].uri \in Openable
  /\ \E n \in Free :
       /\ \A m \in Free : n <= m
       /\ fds' = [fds EXCEPT ![n] = jobs[j].uri]
       /\ jobs' = [jobs EXCEPT ![j].stage = "inspect", ![j].fd = n]
  /\ UNCHANGED << activity, selected, detection, overlapped >>

OpenFails(j) ==
  /\ jobs[j].stage = "queued" /\ Live(j)
  /\ jobs[j].uri \notin Openable \/ Free = {}
  /\ EndsAs(j, "publish", "notOpened")
  /\ UNCHANGED << activity, selected, detection, fds, overlapped >>

(* A coroutine cancelled before its block was dispatched never opens anything. *)
CancelQueued(j) ==
  /\ jobs[j].stage = "queued" /\ ~ Live(j)
  /\ MovesTo(j, "publish")
  /\ UNCHANGED << activity, selected, detection, fds, overlapped >>

ReadBy(j) == jobs[j].readFrom \cup {fds[jobs[j].fd]}

Identified(j, stage) ==
  jobs' = [jobs EXCEPT ![j].stage = stage, ![j].readFrom = ReadBy(j), ![j].outcome = "identified"]

(***************************************************************************)
(* inspectFile reads the first bytes.  A function that is not exported     *)
(* throws when it is called, a failed read returns null: the block throws, *)
(* and use closes the source.                                              *)
(***************************************************************************)
Inspect_LeavesOpen(j) ==
  /\ jobs[j].stage = "inspect"
  /\ \/ /\ "inspectFile" \notin Exported
        /\ EndsAs(j, "publish", "notLinked")
     \/ /\ "inspectFile" \in Exported
        /\ EndsAs(j, "publish", "notRead")
     \/ /\ "inspectFile" \in Exported
        /\ Identified(j, IF fds[jobs[j].fd] \in Zips THEN "list" ELSE "close")
  /\ UNCHANGED << activity, selected, detection, fds, overlapped >>

Inspect_ClosesSource(j) ==
  /\ jobs[j].stage = "inspect"
  /\ "inspectFile" \in Exported
  /\ Identified(j, IF fds[jobs[j].fd] \in Zips THEN "list" ELSE "publish")
  /\ fds' = [fds EXCEPT ![jobs[j].fd] = Closed]
  /\ UNCHANGED << activity, selected, detection, overlapped >>

Inspect(j) ==
  /\ jobs[j].stage = "inspect"
  /\ \/ /\ "inspectFile" \notin Exported
        /\ EndsAs(j, "close", "notLinked")
     \/ /\ "inspectFile" \in Exported
        /\ EndsAs(j, "close", "notRead")
     \/ /\ "inspectFile" \in Exported
        /\ Identified(j, IF fds[jobs[j].fd] \in Zips THEN "list" ELSE "close")
  /\ UNCHANGED << activity, selected, detection, fds, overlapped >>

(* listZip reads more of the file; that it fails is part of the report. *)
ListZip(j) ==
  /\ jobs[j].stage = "list"
  /\ jobs' = [jobs EXCEPT ![j].stage = "close", ![j].readFrom = ReadBy(j)]
  /\ UNCHANGED << activity, selected, detection, fds, overlapped >>

Close(j) ==
  /\ jobs[j].stage = "close"
  /\ fds' = [fds EXCEPT ![jobs[j].fd] = Closed]
  /\ MovesTo(j, "publish")
  /\ UNCHANGED << activity, selected, detection, overlapped >>

(***************************************************************************)
(* Back on the main thread the result, or the failure, becomes the         *)
(* detection of the activity that launched the coroutine.  A cancelled one *)
(* ends up here as well (runCatching catches the cancellation), and sets   *)
(* the detection of an activity nobody sees.                               *)
(***************************************************************************)
Report(j) == [about |-> jobs[j].uri, readFrom |-> jobs[j].readFrom, outcome |-> jobs[j].outcome]

Publish_Anywhere(j) ==
  /\ jobs[j].stage = "publish"
  /\ detection' = Report(j)
  /\ MovesTo(j, "done")
  /\ UNCHANGED << activity, selected, fds, overlapped >>

Publish_FirstStays(j) ==
  /\ jobs[j].stage = "publish"
  /\ detection' = IF Live(j) /\ detection = Nothing THEN Report(j) ELSE detection
  /\ MovesTo(j, "done")
  /\ UNCHANGED << activity, selected, fds, overlapped >>

Publish_LiveOnly(j) ==
  /\ jobs[j].stage = "publish" /\ Live(j)
  /\ detection' = Report(j)
  /\ MovesTo(j, "done")
  /\ UNCHANGED << activity, selected, fds, overlapped >>

Publish(j) ==
  /\ jobs[j].stage = "publish"
  /\ detection' = IF Live(j) THEN Report(j) ELSE detection
  /\ MovesTo(j, "done")
  /\ UNCHANGED << activity, selected, fds, overlapped >>

(* The activity is destroyed and created anew: nothing on its screen is saved. *)
Recreate ==
  /\ activity < MaxRecreated
  /\ activity' = activity + 1
  /\ selected' = NoUri
  /\ detection' = Nothing
  /\ overlapped' = FALSE
  /\ UNCHANGED << fds, jobs >>

JobStep(j) ==
  Open(j) \/ OpenFails(j) \/ CancelQueued(j) \/ Inspect(j) \/ ListZip(j) \/ Close(j) \/ Publish(j)

Next ==
  \/ \E u \in Uris : Pick(u)
  \/ PickNone
  \/ \E j \in DOMAIN jobs : JobStep(j)
  \/ Recreate

Step(j) == j \in DOMAIN jobs /\ JobStep(j)

(* Every coroutine is dispatched: no thread blocks another. *)
Spec ==
  /\ Init /\ [][Next]_sessionVars
  /\ \A j \in 1 .. MaxPicks : WF_sessionVars(Step(j))

-----------------------------------------------------------------------------
Jobs ==
  [ uri : Uris, activity : 0 .. activity, stage : Stages, fd : Fds \cup {0},
    readFrom : SUBSET Uris, outcome : Outcomes ]

(***************************************************************************)
(* Every variable stays in its range.                                      *)
(***************************************************************************)
TypeOK ==
  /\ activity \in 0 .. MaxRecreated
  /\ selected \in Uris \cup {NoUri}
  /\ detection \in Reports \cup {Nothing}
  /\ fds \in [Fds -> Uris \cup {Closed}]
  /\ jobs \in Seq(Jobs)
  /\ overlapped \in BOOLEAN

(***************************************************************************)
(* A descriptor is open exactly while one block that opened it is between  *)
(* its open and its close: whatever fails or is cancelled in between, none *)
(* is leaked and none is closed under a running native call.               *)
(***************************************************************************)
Holds(j, n) == jobs[j].stage \in {"inspect", "list", "close"} /\ jobs[j].fd = n

DescriptorsAreHeld ==
  \A n \in Fds :
    /\ Cardinality({ j \in DOMAIN jobs : Holds(j, n) }) = IF fds[n] = Closed THEN 0 ELSE 1
    /\ \A j \in DOMAIN jobs : Holds(j, n) => fds[n] = jobs[j].uri

(***************************************************************************)
(* A report contains nothing of another document, though descriptors are   *)
(* passed as numbers and a number is used again as soon as it is free.     *)
(***************************************************************************)
ReportIsOfItsDocument == detection # Nothing => detection.readFrom \subseteq {detection.about}

(***************************************************************************)
(* A document picked in an activity that is gone never appears on the      *)
(* screen of its successor, however late its inspection ends.              *)
(***************************************************************************)
ShownWasPickedHere ==
  detection # Nothing => \E j \in DOMAIN jobs : Live(j) /\ jobs[j].uri = detection.about

(***************************************************************************)
(* When no inspection is running, the detection shown belongs to the       *)
(* document named, provided no document was picked while another was still *)
(* being inspected: then the last to finish is shown, not the last picked. *)
(***************************************************************************)
SelectionIsShown ==
  ~ overlapped /\ ~ Busy /\ selected # NoUri =>
    detection # Nothing /\ detection.about = selected

(***************************************************************************)
(* Every pick is answered, and gives its descriptor back.                  *)
(***************************************************************************)
EveryPickEnds ==
  \A j \in 1 .. MaxPicks :
    (j \in DOMAIN jobs) ~> (j \in DOMAIN jobs /\ jobs[j].stage = "done")

(***************************************************************************)
(* A document that can be opened and read is inspected.                    *)
(***************************************************************************)
ReadableFileIsInspected ==
  \A j \in DOMAIN jobs :
    jobs[j].stage \in {"publish", "done"} /\ jobs[j].outcome \notin {"pending", "notOpened", "notRead"}
      => jobs[j].outcome = "identified"
=============================================================================
