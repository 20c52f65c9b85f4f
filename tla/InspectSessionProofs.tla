------------------------ MODULE InspectSessionProofs ------------------------
(***************************************************************************)
(* The safety properties of InspectSession, for every set of documents,    *)
(* every descriptor table, and any number of picks and recreations.        *)
(***************************************************************************)
EXTENDS InspectSession, SequenceTheorems, FiniteSetTheorems, TLAPS

Holding(j) == jobs[j].stage \in {"inspect", "list", "close"}

(* What a block has open is its own document. *)
Held == \A j \in DOMAIN jobs : Holding(j) => jobs[j].fd \in Fds /\ fds[jobs[j].fd] = jobs[j].uri

(* No two blocks hold one descriptor. *)
Apart ==
  \A i, j \in DOMAIN jobs : i # j /\ Holding(i) /\ Holding(j) => jobs[i].fd # jobs[j].fd

(* No open descriptor is without its block. *)
NoneLeaked == \A n \in Fds : fds[n] # Closed => \E j \in DOMAIN jobs : Holds(j, n)

(* A job has read nothing but its document. *)
OwnReads == \A j \in DOMAIN jobs : jobs[j].readFrom \subseteq {jobs[j].uri}

(***************************************************************************)
(* Of the picks made in this activity none but the last is running, unless *)
(* some overlapped; and the last is of the document named.                 *)
(***************************************************************************)
OthersDone ==
  ~ overlapped => \A j \in DOMAIN jobs : Live(j) /\ j # Len(jobs) => jobs[j].stage = "done"

LastIsNamed ==
  ~ overlapped /\ selected # NoUri =>
    /\ Len(jobs) \in DOMAIN jobs /\ Live(Len(jobs))
    /\ jobs[Len(jobs)].uri = selected
    /\ jobs[Len(jobs)].stage = "done" => detection # Nothing /\ detection.about = selected

IInv ==
  /\ TypeOK
  /\ Held /\ Apart /\ NoneLeaked
  /\ OwnReads /\ ReportIsOfItsDocument
  /\ ShownWasPickedHere
  /\ OthersDone /\ LastIsNamed

-----------------------------------------------------------------------------
LEMMA JobFacts ==
  ASSUME TypeOK
  PROVE  /\ Len(jobs) \in Nat /\ DOMAIN jobs = 1 .. Len(jobs)
         /\ \A j \in DOMAIN jobs : jobs[j] \in Jobs
<1>1. jobs \in Seq(Jobs)
  BY DEF TypeOK
<1>2. Len(jobs) \in Nat /\ DOMAIN jobs = 1 .. Len(jobs) /\ jobs \in [1 .. Len(jobs) -> Jobs]
  BY <1>1, LenProperties
<1> QED
  BY <1>2

(* A step of one coroutine leaves the others' records as they are. *)
LEMMA ChangeOneJob ==
  ASSUME TypeOK, NEW j \in DOMAIN jobs, NEW r \in Jobs, jobs' = [jobs EXCEPT ![j] = r]
  PROVE  /\ jobs' \in Seq(Jobs) /\ Len(jobs') = Len(jobs) /\ DOMAIN jobs' = DOMAIN jobs
         /\ jobs'[j] = r
         /\ \A i \in DOMAIN jobs : i # j => jobs'[i] = jobs[i]
<1>1. jobs \in Seq(Jobs) /\ Len(jobs) \in Nat /\ DOMAIN jobs = 1 .. Len(jobs)
      /\ jobs \in [1 .. Len(jobs) -> Jobs]
  BY LenProperties DEF TypeOK
<1>2. jobs' \in [1 .. Len(jobs) -> Jobs]
  BY <1>1
<1>3. jobs' \in Seq(Jobs)
  BY <1>1, <1>2, SeqDef
<1>4. Len(jobs') \in Nat /\ 1 .. Len(jobs') = 1 .. Len(jobs)
  BY <1>2, <1>3, LenProperties
<1>5. Len(jobs') = Len(jobs)
  BY <1>1, <1>4
<1> QED
  BY <1>1, <1>2, <1>3, <1>5

(***************************************************************************)
(* The records of one step of coroutine j, of which stage, descriptor,     *)
(* reads and outcome may change.                                           *)
(***************************************************************************)
Steps(j) ==
  /\ j \in DOMAIN jobs
  /\ jobs' \in Seq(Jobs) /\ Len(jobs') = Len(jobs) /\ DOMAIN jobs' = DOMAIN jobs
  /\ \A i \in DOMAIN jobs : i # j => jobs'[i] = jobs[i]
  /\ jobs'[j].uri = jobs[j].uri /\ jobs'[j].activity = jobs[j].activity

(* A step that opens and closes nothing and reads from its own document. *)
LEMMA MoveKeepsTable ==
  ASSUME TypeOK, Held, Apart, NoneLeaked, OwnReads,
         NEW j, Steps(j), UNCHANGED fds,
         Holding(j)' <=> Holding(j), jobs'[j].fd = jobs[j].fd,
         jobs'[j].readFrom \subseteq {jobs[j].uri}
  PROVE  Held' /\ Apart' /\ NoneLeaked' /\ OwnReads'
<1>1. \A i \in DOMAIN jobs : /\ jobs'[i].fd = jobs[i].fd /\ jobs'[i].uri = jobs[i].uri
                             /\ Holding(i)' <=> Holding(i)
  BY DEF Steps, Holding
<1>2. Held'
  BY <1>1 DEF Held, Steps
<1>3. Apart'
  BY <1>1 DEF Apart, Steps
<1>4. NoneLeaked'
  BY <1>1 DEF NoneLeaked, Steps, Holds, Holding
<1>5. OwnReads'
  BY DEF OwnReads, Steps
<1> QED
  BY <1>2, <1>3, <1>4, <1>5

(* A step that is not the last of its coroutine leaves the screen alone. *)
LEMMA MoveKeepsScreen ==
  ASSUME TypeOK, ReportIsOfItsDocument, ShownWasPickedHere, OthersDone, LastIsNamed,
         NEW j, Steps(j), UNCHANGED << activity, selected, detection, overlapped >>,
         jobs[j].stage # "done", jobs'[j].stage # "done"
  PROVE  /\ ReportIsOfItsDocument' /\ ShownWasPickedHere'
         /\ OthersDone' /\ LastIsNamed'
<1>1. \A i \in DOMAIN jobs : /\ jobs'[i].uri = jobs[i].uri
                             /\ Live(i)' <=> Live(i)
                             /\ jobs'[i].stage = "done" <=> jobs[i].stage = "done"
  BY DEF Steps, Live
<1>2. ReportIsOfItsDocument'
  BY DEF ReportIsOfItsDocument
<1>3. ShownWasPickedHere'
  BY <1>1 DEF ShownWasPickedHere, Steps
<1>4. OthersDone'
  BY <1>1 DEF OthersDone, Steps
<1>5. LastIsNamed'
  BY <1>1 DEF LastIsNamed, Steps
<1> QED
  BY <1>2, <1>3, <1>4, <1>5

-----------------------------------------------------------------------------
LEMMA InitEstablishes == Init => IInv
<1> SUFFICES ASSUME Init PROVE IInv
  OBVIOUS
<1> USE SessionAssumption
<1>1. jobs = << >> /\ DOMAIN jobs = {}
  BY DEF Init
<1>2. TypeOK
  <2>1. jobs \in Seq(Jobs)
    BY <1>1, EmptySeq
  <2>2. fds \in [Fds -> Uris \cup {Closed}]
    BY DEF Init
  <2>3. activity \in 0 .. MaxRecreated
    BY DEF Init
  <2>4. selected \in Uris \cup {NoUri}
    BY DEF Init
  <2>5. detection \in Reports \cup {Nothing}
    BY DEF Init
  <2>6. overlapped \in BOOLEAN
    BY DEF Init
  <2> QED
    BY <2>1, <2>2, <2>3, <2>4, <2>5, <2>6 DEF TypeOK
<1>3. NoneLeaked
  BY DEF Init, NoneLeaked
<1>4. LastIsNamed
  BY DEF Init, LastIsNamed
<1> QED
  BY <1>1, <1>2, <1>3, <1>4
     DEF Init, IInv, Held, Apart, OwnReads, ReportIsOfItsDocument, ShownWasPickedHere, OthersDone

(* A new pick: nothing open changes; it is named, and nothing else runs or the picks overlap. *)
LEMMA PickKeeps ==
  ASSUME IInv, NEW u \in Uris, Pick(u)
  PROVE  IInv'
<1> USE SessionAssumption
<1> DEFINE n == Len(jobs) + 1
<1>1. NewJob(u) \in Jobs
  BY DEF NewJob, Jobs, IInv, TypeOK, Stages, Outcomes
<1>2. jobs \in Seq(Jobs) /\ Len(jobs) \in Nat /\ DOMAIN jobs = 1 .. Len(jobs)
  BY JobFacts DEF IInv, TypeOK
<1>3. /\ selected' = u /\ jobs' = Append(jobs, NewJob(u))
      /\ overlapped' = (overlapped \/ Busy)
      /\ UNCHANGED << activity, detection, fds >>
  BY DEF Pick
<1>4. /\ jobs' \in Seq(Jobs) /\ Len(jobs') = n
      /\ \A i \in 1 .. Len(jobs) : jobs'[i] = jobs[i]
      /\ jobs'[n] = NewJob(u)
  BY <1>1, <1>2, <1>3, AppendProperties
<1>5. DOMAIN jobs' = 1 .. n
  BY <1>4, LenProperties
<1>6. jobs'[n].stage = "queued" /\ jobs'[n].uri = u /\ jobs'[n].activity = activity
      /\ jobs'[n].readFrom = {}
  BY <1>4 DEF NewJob
<1>7. Jobs' = Jobs
  BY <1>3 DEF Jobs
<1>8. TypeOK'
  <2>1. overlapped' \in BOOLEAN
    BY <1>3 DEF IInv, TypeOK, Busy
  <2> QED
    BY <1>3, <1>4, <1>7, <2>1 DEF IInv, TypeOK
<1> HIDE DEF n
<1>9. n \in Nat /\ n = Len(jobs) + 1 /\ (\A i \in 1 .. n : i = n \/ i \in DOMAIN jobs)
      /\ (\A i \in DOMAIN jobs : i \in DOMAIN jobs' /\ jobs'[i] = jobs[i] /\ i # n)
  BY <1>2, <1>4, <1>5 DEF n
<1>10. Held' /\ Apart' /\ OwnReads'
  BY <1>3, <1>5, <1>6, <1>9 DEF IInv, Held, Apart, OwnReads, Holding
<1>11. NoneLeaked'
  BY <1>3, <1>9 DEF IInv, NoneLeaked, Holds
<1>12. ReportIsOfItsDocument' /\ ShownWasPickedHere'
  BY <1>3, <1>9 DEF IInv, ReportIsOfItsDocument, ShownWasPickedHere, Live
<1>13. OthersDone'
  <2>1. SUFFICES ASSUME ~ overlapped', NEW i \in DOMAIN jobs', Live(i)', i # Len(jobs')
                 PROVE  jobs'[i].stage = "done"
    BY DEF OthersDone
  <2>2. i \in DOMAIN jobs /\ Live(i) /\ jobs'[i] = jobs[i]
    BY <2>1, <1>3, <1>4, <1>5, <1>9 DEF Live, n
  <2>3. ~ Busy
    BY <2>1, <1>3
  <2> QED
    BY <2>2, <2>3 DEF Busy
<1>14. LastIsNamed'
  BY <1>3, <1>4, <1>5, <1>6, <1>9 DEF LastIsNamed, Live, n
<1> QED
  BY <1>8, <1>10, <1>11, <1>12, <1>13, <1>14 DEF IInv

(***************************************************************************)
(* Steps that neither open nor close and are not the last of a coroutine:  *)
(* what is read is read through a descriptor the coroutine holds.          *)
(***************************************************************************)
LEMMA MoveKeeps ==
  ASSUME IInv, NEW j \in DOMAIN jobs,
         NEW r \in Jobs, jobs' = [jobs EXCEPT ![j] = r],
         r.uri = jobs[j].uri, r.activity = jobs[j].activity, r.fd = jobs[j].fd,
         r.stage \in {"inspect", "list", "close"} <=> Holding(j),
         r.readFrom \subseteq {jobs[j].uri},
         jobs[j].stage # "done", r.stage # "done",
         UNCHANGED << activity, selected, detection, fds, overlapped >>
  PROVE  IInv'
<1>1. Steps(j) /\ jobs'[j] = r
  BY ChangeOneJob DEF IInv, Steps
<1>2. Jobs' = Jobs
  BY DEF Jobs
<1>3. TypeOK'
  BY <1>1, <1>2 DEF IInv, TypeOK, Steps
<1>4. Holding(j)' <=> Holding(j)
  BY <1>1 DEF Holding
<1>5. Held' /\ Apart' /\ NoneLeaked' /\ OwnReads'
  BY <1>1, <1>4, MoveKeepsTable DEF IInv
<1>6. ReportIsOfItsDocument' /\ ShownWasPickedHere' /\ OthersDone' /\ LastIsNamed'
  BY <1>1, MoveKeepsScreen DEF IInv
<1> QED
  BY <1>3, <1>5, <1>6 DEF IInv

LEMMA ReadsOwn ==
  ASSUME IInv, NEW j \in DOMAIN jobs, Holding(j)
  PROVE  ReadBy(j) \subseteq {jobs[j].uri} /\ ReadBy(j) \in SUBSET Uris
BY JobFacts DEF IInv, Held, OwnReads, ReadBy, Jobs

LEMMA SmallStepsKeep ==
  ASSUME IInv, NEW j \in DOMAIN jobs,
         OpenFails(j) \/ CancelQueued(j) \/ Inspect(j) \/ ListZip(j)
  PROVE  IInv'
<1>1. jobs[j] \in Jobs /\ jobs[j].readFrom \subseteq {jobs[j].uri}
  BY JobFacts DEF IInv, OwnReads
<1>2. UNCHANGED << activity, selected, detection, fds, overlapped >>
  BY DEF OpenFails, CancelQueued, Inspect, ListZip
<1>3. CASE OpenFails(j)
  <2> DEFINE r == [jobs[j] EXCEPT !.stage = "publish", !.outcome = "notOpened"]
  <2>1. jobs' = [jobs EXCEPT ![j] = r] /\ jobs[j].stage = "queued"
    BY <1>3 DEF OpenFails, EndsAs
  <2>2. /\ r \in Jobs /\ r.uri = jobs[j].uri /\ r.activity = jobs[j].activity
        /\ r.fd = jobs[j].fd /\ r.readFrom = jobs[j].readFrom /\ r.stage = "publish"
    BY <1>1 DEF Jobs, Stages, Outcomes
  <2> HIDE DEF r
  <2> QED
    BY <1>1, <1>2, <2>1, <2>2, MoveKeeps DEF Holding
<1>4. CASE CancelQueued(j)
  <2> DEFINE r == [jobs[j] EXCEPT !.stage = "publish"]
  <2>1. jobs' = [jobs EXCEPT ![j] = r] /\ jobs[j].stage = "queued"
    BY <1>4 DEF CancelQueued, MovesTo
  <2>2. /\ r \in Jobs /\ r.uri = jobs[j].uri /\ r.activity = jobs[j].activity
        /\ r.fd = jobs[j].fd /\ r.readFrom = jobs[j].readFrom /\ r.stage = "publish"
    BY <1>1 DEF Jobs, Stages
  <2> HIDE DEF r
  <2> QED
    BY <1>1, <1>2, <2>1, <2>2, MoveKeeps DEF Holding
<1>5. CASE Inspect(j)
  <2>1. jobs[j].stage = "inspect" /\ Holding(j)
    BY <1>5 DEF Inspect, Holding
  <2>2. \/ EndsAs(j, "close", "notLinked") \/ EndsAs(j, "close", "notRead")
        \/ Identified(j, "list") \/ Identified(j, "close")
    BY <1>5 DEF Inspect
  <2>3. ASSUME NEW o \in {"notLinked", "notRead"}, EndsAs(j, "close", o) PROVE IInv'
    <3> DEFINE r == [jobs[j] EXCEPT !.stage = "close", !.outcome = o]
    <3>1. jobs' = [jobs EXCEPT ![j] = r]
      BY <2>3 DEF EndsAs
    <3>2. /\ r \in Jobs /\ r.uri = jobs[j].uri /\ r.activity = jobs[j].activity
          /\ r.fd = jobs[j].fd /\ r.readFrom = jobs[j].readFrom /\ r.stage = "close"
      BY <1>1 DEF Jobs, Stages, Outcomes
    <3> HIDE DEF r
    <3> QED
      BY <1>1, <1>2, <2>1, <3>1, <3>2, MoveKeeps
  <2>4. ASSUME NEW t \in {"list", "close"}, Identified(j, t) PROVE IInv'
    <3> DEFINE r == [jobs[j] EXCEPT !.stage = t, !.readFrom = ReadBy(j), !.outcome = "identified"]
    <3>1. jobs' = [jobs EXCEPT ![j] = r]
      BY <2>4 DEF Identified
    <3>2. ReadBy(j) \subseteq {jobs[j].uri} /\ ReadBy(j) \in SUBSET Uris
      BY <2>1, ReadsOwn
    <3>3. /\ r \in Jobs /\ r.uri = jobs[j].uri /\ r.activity = jobs[j].activity
          /\ r.fd = jobs[j].fd /\ r.readFrom = ReadBy(j) /\ r.stage = t
      BY <1>1, <3>2 DEF Jobs, Stages, Outcomes
    <3> HIDE DEF r
    <3> QED
      BY <1>1, <1>2, <2>1, <3>1, <3>2, <3>3, MoveKeeps
  <2> QED
    BY <2>2, <2>3, <2>4
<1>6. CASE ListZip(j)
  <2> DEFINE r == [jobs[j] EXCEPT !.stage = "close", !.readFrom = ReadBy(j)]
  <2>1. jobs' = [jobs EXCEPT ![j] = r] /\ jobs[j].stage = "list" /\ Holding(j)
    BY <1>6 DEF ListZip, Holding
  <2>2. ReadBy(j) \subseteq {jobs[j].uri} /\ ReadBy(j) \in SUBSET Uris
    BY <2>1, ReadsOwn
  <2>3. /\ r \in Jobs /\ r.uri = jobs[j].uri /\ r.activity = jobs[j].activity
        /\ r.fd = jobs[j].fd /\ r.readFrom = ReadBy(j) /\ r.stage = "close"
    BY <1>1, <2>2 DEF Jobs, Stages
  <2> HIDE DEF r
  <2> QED
    BY <1>1, <1>2, <2>1, <2>2, <2>3, MoveKeeps
<1> QED
  BY <1>3, <1>4, <1>5, <1>6

(* A free descriptor is held by nobody: the one opened is held by this block alone. *)
LEMMA OpenKeeps ==
  ASSUME IInv, NEW j \in DOMAIN jobs, Open(j)
  PROVE  IInv'
<1> USE SessionAssumption
<1>1. PICK n \in Free : /\ fds' = [fds EXCEPT ![n] = jobs[j].uri]
                        /\ jobs' = [jobs EXCEPT ![j].stage = "inspect", ![j].fd = n]
  BY DEF Open
<1>2. /\ UNCHANGED << activity, selected, detection, overlapped >>
      /\ jobs[j].stage = "queued"
  BY DEF Open
<1>3. n \in Fds /\ fds[n] = Closed /\ jobs[j] \in Jobs /\ fds \in [Fds -> Uris \cup {Closed}]
  BY JobFacts DEF Free, IInv, TypeOK
<1> DEFINE r == [jobs[j] EXCEPT !.stage = "inspect", !.fd = n]
<1>4. jobs' = [jobs EXCEPT ![j] = r]
  BY <1>1
<1>5. /\ r \in Jobs /\ r.uri = jobs[j].uri /\ r.activity = jobs[j].activity
      /\ r.fd = n /\ r.readFrom = jobs[j].readFrom /\ r.stage = "inspect"
  BY <1>3 DEF Jobs, Stages
<1> HIDE DEF r
<1>6. Steps(j) /\ jobs'[j] = r
  BY <1>4, <1>5, ChangeOneJob DEF IInv, Steps
<1>7. Jobs' = Jobs
  BY <1>2 DEF Jobs
<1>8. jobs[j].uri \in Uris
  BY <1>3 DEF Jobs
<1>9. fds' \in [Fds -> Uris \cup {Closed}] /\ fds'[n] = jobs[j].uri
      /\ \A m \in Fds : m # n => fds'[m] = fds[m]
  BY <1>1, <1>3, <1>8
<1>10. TypeOK'
  BY <1>2, <1>6, <1>7, <1>9 DEF IInv, TypeOK, Steps
<1>11. \A i \in DOMAIN jobs : i # j /\ Holding(i) => jobs[i].fd \in Fds /\ jobs[i].fd # n
  <2>1. ASSUME NEW i \in DOMAIN jobs, Holding(i) PROVE jobs[i].fd \in Fds /\ jobs[i].fd # n
    <3>1. jobs[i].fd \in Fds /\ fds[jobs[i].fd] = jobs[i].uri /\ jobs[i].uri \in Uris
      BY <2>1, JobFacts DEF IInv, Held, Jobs
    <3> QED
      BY <3>1, <1>3
  <2> QED
    BY <2>1
<1>12. \A i \in DOMAIN jobs : i # j => jobs'[i] = jobs[i] /\ (Holding(i)' <=> Holding(i))
  BY <1>6 DEF Steps, Holding
<1>13. Held'
  <2>1. SUFFICES ASSUME NEW i \in DOMAIN jobs', Holding(i)'
                 PROVE  jobs'[i].fd \in Fds /\ fds'[jobs'[i].fd] = jobs'[i].uri
    BY DEF Held
  <2>2. i \in DOMAIN jobs
    BY <1>6 DEF Steps
  <2>3. CASE i = j
    BY <2>3, <1>3, <1>5, <1>6, <1>9
  <2>4. CASE i # j
    <3>1. jobs'[i] = jobs[i] /\ Holding(i)
      BY <2>1, <2>2, <2>4, <1>12
    <3>2. jobs[i].fd \in Fds /\ jobs[i].fd # n /\ fds[jobs[i].fd] = jobs[i].uri
      BY <2>2, <2>4, <3>1, <1>11 DEF IInv, Held
    <3>3. fds'[jobs[i].fd] = fds[jobs[i].fd]
      BY <3>2, <1>9
    <3> QED
      BY <3>1, <3>2, <3>3
  <2> QED
    BY <2>3, <2>4
<1>14. Apart'
  BY <1>5, <1>6, <1>11, <1>12 DEF IInv, Apart, Steps
<1>15. NoneLeaked'
  <2>1. SUFFICES ASSUME NEW m \in Fds, fds'[m] # Closed PROVE \E i \in DOMAIN jobs' : Holds(i, m)'
    BY DEF NoneLeaked
  <2>2. CASE m = n
    BY <2>2, <1>5, <1>6 DEF Holds, Steps
  <2>3. CASE m # n
    <3>1. PICK i \in DOMAIN jobs : Holds(i, m)
      BY <2>1, <2>3, <1>9 DEF IInv, NoneLeaked
    <3>2. i # j
      BY <3>1, <1>2 DEF Holds
    <3> QED
      BY <3>1, <3>2, <1>6 DEF Holds, Steps
  <2> QED
    BY <2>2, <2>3
<1>16. OwnReads'
  BY <1>5, <1>6 DEF IInv, OwnReads, Steps
<1>17. ReportIsOfItsDocument' /\ ShownWasPickedHere' /\ OthersDone' /\ LastIsNamed'
  BY <1>2, <1>5, <1>6, MoveKeepsScreen DEF IInv
<1> QED
  BY <1>10, <1>13, <1>14, <1>15, <1>16, <1>17 DEF IInv

(* The descriptor closed is the block's own, and nobody else's. *)
LEMMA CloseKeeps ==
  ASSUME IInv, NEW j \in DOMAIN jobs, Close(j)
  PROVE  IInv'
<1> USE SessionAssumption
<1> DEFINE n == jobs[j].fd
           r == [jobs[j] EXCEPT !.stage = "publish"]
<1>1. /\ fds' = [fds EXCEPT ![n] = Closed]
      /\ jobs' = [jobs EXCEPT ![j] = r]
      /\ UNCHANGED << activity, selected, detection, overlapped >>
      /\ jobs[j].stage = "close" /\ Holding(j)
  BY DEF Close, MovesTo, Holding
<1>2. jobs[j] \in Jobs /\ fds \in [Fds -> Uris \cup {Closed}] /\ n \in Fds
  BY <1>1, JobFacts DEF IInv, TypeOK, Held
<1>3. /\ r \in Jobs /\ r.uri = jobs[j].uri /\ r.activity = jobs[j].activity
      /\ r.fd = n /\ r.readFrom = jobs[j].readFrom /\ r.stage = "publish"
  BY <1>2 DEF Jobs, Stages
<1> HIDE DEF r
<1>4. Steps(j) /\ jobs'[j] = r
  BY <1>1, <1>3, ChangeOneJob DEF IInv, Steps
<1>5. Jobs' = Jobs
  BY <1>1 DEF Jobs
<1>6. fds' \in [Fds -> Uris \cup {Closed}] /\ fds'[n] = Closed
      /\ \A m \in Fds : m # n => fds'[m] = fds[m]
  BY <1>1, <1>2
<1>7. TypeOK'
  BY <1>1, <1>4, <1>5, <1>6 DEF IInv, TypeOK, Steps
<1>8. \A i \in DOMAIN jobs : i # j => jobs'[i] = jobs[i] /\ (Holding(i)' <=> Holding(i))
  BY <1>4 DEF Steps, Holding
<1>9. \A i \in DOMAIN jobs : i # j /\ Holding(i) => jobs[i].fd # n
  BY <1>1 DEF IInv, Apart
<1>10. ~ Holding(j)'
  BY <1>3, <1>4 DEF Holding
<1>11. Held'
  BY <1>4, <1>6, <1>8, <1>9, <1>10 DEF IInv, Held, Steps
<1>12. Apart'
  BY <1>4, <1>8, <1>10 DEF IInv, Apart, Steps
<1>13. NoneLeaked'
  <2>1. SUFFICES ASSUME NEW m \in Fds, fds'[m] # Closed PROVE \E i \in DOMAIN jobs' : Holds(i, m)'
    BY DEF NoneLeaked
  <2>2. m # n /\ fds[m] # Closed
    BY <2>1, <1>6
  <2>3. PICK i \in DOMAIN jobs : Holds(i, m)
    BY <2>2 DEF IInv, NoneLeaked
  <2>4. i # j
    BY <2>2, <2>3 DEF Holds
  <2> QED
    BY <2>3, <2>4, <1>4 DEF Holds, Steps
<1>14. OwnReads'
  BY <1>3, <1>4 DEF IInv, OwnReads, Steps
<1>15. ReportIsOfItsDocument' /\ ShownWasPickedHere' /\ OthersDone' /\ LastIsNamed'
  BY <1>1, <1>3, <1>4, MoveKeepsScreen DEF IInv
<1> QED
  BY <1>7, <1>11, <1>12, <1>13, <1>14, <1>15 DEF IInv

(* What is published is the report of a pick of this activity, or of one gone, which changes nothing. *)
LEMMA PublishKeeps ==
  ASSUME IInv, NEW j \in DOMAIN jobs, Publish(j)
  PROVE  IInv'
<1> USE SessionAssumption
<1> DEFINE r == [jobs[j] EXCEPT !.stage = "done"]
<1>1. /\ jobs' = [jobs EXCEPT ![j] = r]
      /\ detection' = IF Live(j) THEN Report(j) ELSE detection
      /\ UNCHANGED << activity, selected, fds, overlapped >>
      /\ jobs[j].stage = "publish" /\ ~ Holding(j)
  BY DEF Publish, MovesTo, Holding
<1>2. jobs[j] \in Jobs
  BY JobFacts DEF IInv
<1>3. /\ r \in Jobs /\ r.uri = jobs[j].uri /\ r.activity = jobs[j].activity
      /\ r.fd = jobs[j].fd /\ r.readFrom = jobs[j].readFrom /\ r.stage = "done"
  BY <1>2 DEF Jobs, Stages
<1> HIDE DEF r
<1>4. Steps(j) /\ jobs'[j] = r
  BY <1>1, <1>3, ChangeOneJob DEF IInv, Steps
<1>5. Report(j) \in Reports /\ Report(j) # Nothing
      /\ Report(j).about = jobs[j].uri /\ Report(j).readFrom \subseteq {jobs[j].uri}
  BY <1>2 DEF Report, Reports, Jobs, IInv, OwnReads
<1>6. TypeOK'
  <2>1. Jobs' = Jobs
    BY <1>1 DEF Jobs
  <2>2. detection' \in Reports \cup {Nothing}
    BY <1>1, <1>5 DEF IInv, TypeOK
  <2> QED
    BY <1>1, <1>4, <2>1, <2>2 DEF IInv, TypeOK, Steps
<1>7. Held' /\ Apart' /\ NoneLeaked' /\ OwnReads'
  <2>1. Holding(j)' <=> Holding(j)
    BY <1>1, <1>3, <1>4 DEF Holding
  <2>2. jobs'[j].fd = jobs[j].fd /\ jobs'[j].readFrom \subseteq {jobs[j].uri}
    BY <1>3, <1>4 DEF IInv, OwnReads
  <2> QED
    BY <1>1, <1>4, <2>1, <2>2, MoveKeepsTable DEF IInv
<1>8. ReportIsOfItsDocument'
  BY <1>1, <1>5 DEF IInv, ReportIsOfItsDocument
<1>9. \A i \in DOMAIN jobs : /\ jobs'[i].uri = jobs[i].uri /\ (Live(i)' <=> Live(i))
                             /\ i # j => jobs'[i].stage = jobs[i].stage
  BY <1>1, <1>4 DEF Steps, Live
<1>10. ShownWasPickedHere'
  <2>1. CASE Live(j)
    BY <2>1, <1>1, <1>4, <1>5, <1>9 DEF ShownWasPickedHere, Steps
  <2>2. CASE ~ Live(j)
    BY <2>2, <1>1, <1>4, <1>9 DEF IInv, ShownWasPickedHere, Steps
  <2> QED
    BY <2>1, <2>2
<1>11. OthersDone'
  BY <1>1, <1>3, <1>4, <1>9 DEF IInv, OthersDone, Steps
<1>12. LastIsNamed'
  <2>1. SUFFICES ASSUME ~ overlapped', selected' # NoUri
                 PROVE  /\ Len(jobs') \in DOMAIN jobs' /\ Live(Len(jobs))'
                        /\ jobs'[Len(jobs')].uri = selected'
                        /\ jobs'[Len(jobs')].stage = "done" =>
                             detection' # Nothing /\ detection'.about = selected'
    BY DEF LastIsNamed
  <2>2. /\ Len(jobs) \in DOMAIN jobs /\ Live(Len(jobs)) /\ jobs[Len(jobs)].uri = selected
        /\ jobs[Len(jobs)].stage = "done" => detection # Nothing /\ detection.about = selected
    BY <2>1, <1>1 DEF IInv, LastIsNamed
  <2>3. /\ Len(jobs') \in DOMAIN jobs' /\ Live(Len(jobs))' /\ jobs'[Len(jobs')].uri = selected'
    <3>1. Len(jobs') = Len(jobs) /\ DOMAIN jobs' = DOMAIN jobs
      BY <1>4 DEF Steps
    <3>2. Live(Len(jobs))'
      BY <2>2, <3>1, <1>1, <1>9 DEF Live
    <3> QED
      BY <2>2, <3>1, <3>2, <1>1, <1>9
  <2>4. CASE j = Len(jobs)
    BY <2>2, <2>3, <2>4, <1>1, <1>5
  <2>5. CASE j # Len(jobs)
    <3>1. ~ Live(j)
      BY <2>1, <2>5, <1>1 DEF IInv, OthersDone
    <3> QED
      BY <2>2, <2>3, <2>5, <3>1, <1>1, <1>4, <1>9 DEF Steps
  <2> QED
    BY <2>4, <2>5
<1> QED
  BY <1>6, <1>7, <1>8, <1>10, <1>11, <1>12 DEF IInv

(* A new activity has picked nothing yet; the coroutines of the old one run on. *)
LEMMA RecreateKeeps == IInv /\ Recreate => IInv'
<1> SUFFICES ASSUME IInv, Recreate PROVE IInv'
  OBVIOUS
<1> USE SessionAssumption
<1>1. /\ activity < MaxRecreated /\ activity' = activity + 1 /\ selected' = NoUri
      /\ detection' = Nothing /\ overlapped' = FALSE /\ fds' = fds /\ jobs' = jobs
  BY DEF Recreate
<1>2. \A j \in DOMAIN jobs : jobs[j] \in Jobs /\ jobs[j].activity # activity'
  BY <1>1, JobFacts DEF IInv, TypeOK, Jobs
<1>3. TypeOK'
  <2>1. activity \in 0 .. MaxRecreated /\ activity' \in 0 .. MaxRecreated
    BY <1>1 DEF IInv, TypeOK
  <2>2. \A x \in Jobs : x \in Jobs'
    BY <1>1, <2>1 DEF Jobs
  <2>3. jobs' \in Seq(Jobs')
    <3>1. jobs \in [1 .. Len(jobs) -> Jobs] /\ Len(jobs) \in Nat
      BY LenProperties DEF IInv, TypeOK
    <3>2. jobs \in [1 .. Len(jobs) -> Jobs']
      BY <3>1, <2>2
    <3> QED
      BY <3>1, <3>2, <1>1, SeqDef
  <2> QED
    BY <1>1, <2>1, <2>3 DEF IInv, TypeOK
<1>4. Held' /\ Apart' /\ NoneLeaked' /\ OwnReads'
  BY <1>1 DEF IInv, Held, Apart, NoneLeaked, OwnReads, Holding, Holds
<1>5. ReportIsOfItsDocument' /\ ShownWasPickedHere' /\ LastIsNamed'
  BY <1>1 DEF ReportIsOfItsDocument, ShownWasPickedHere, LastIsNamed
<1>6. OthersDone'
  BY <1>1, <1>2 DEF OthersDone, Live
<1> QED
  BY <1>3, <1>4, <1>5, <1>6 DEF IInv

(* The invariant is inductive. *)
LEMMA StepKeeps == IInv /\ [Next]_sessionVars => IInv'
<1> SUFFICES ASSUME IInv, [Next]_sessionVars PROVE IInv'
  OBVIOUS
<1>1. ASSUME NEW u \in Uris, Pick(u) PROVE IInv'
  BY <1>1, PickKeeps
<1>2. CASE PickNone
  BY <1>2 DEF PickNone, IInv, TypeOK, Jobs, Held, Apart, NoneLeaked, OwnReads, Holding, Holds,
              ReportIsOfItsDocument, ShownWasPickedHere, OthersDone, LastIsNamed, Live
<1>3. ASSUME NEW j \in DOMAIN jobs, JobStep(j) PROVE IInv'
  BY <1>3, SmallStepsKeep, OpenKeeps, CloseKeeps, PublishKeeps DEF JobStep
<1>4. CASE Recreate
  BY <1>4, RecreateKeeps
<1>5. CASE UNCHANGED sessionVars
  BY <1>5 DEF sessionVars, IInv, TypeOK, Jobs, Held, Apart, NoneLeaked, OwnReads, Holding, Holds,
              ReportIsOfItsDocument, ShownWasPickedHere, OthersDone, LastIsNamed, Live
<1> QED
  BY <1>1, <1>2, <1>3, <1>4, <1>5 DEF Next

LEMMA Invariance == Spec => []IInv
BY InitEstablishes, StepKeeps, PTL DEF Spec

-----------------------------------------------------------------------------
(***************************************************************************)
(* The variables of a session stay in their ranges.                        *)
(***************************************************************************)
THEOREM TypeCorrect == Spec => []TypeOK
<1>1. IInv => TypeOK
  BY DEF IInv
<1> QED
  BY <1>1, Invariance, PTL

(***************************************************************************)
(* A descriptor is open exactly while one block holds it, on the block's   *)
(* own document, whatever fails or is cancelled, and however often         *)
(* numbers are used again.                                                 *)
(***************************************************************************)
THEOREM DescriptorsStayHeld == Spec => []DescriptorsAreHeld
<1>1. IInv => DescriptorsAreHeld
  <2> SUFFICES ASSUME IInv, NEW n \in Fds
               PROVE  /\ Cardinality({ j \in DOMAIN jobs : Holds(j, n) }) =
                           IF fds[n] = Closed THEN 0 ELSE 1
                      /\ \A j \in DOMAIN jobs : Holds(j, n) => fds[n] = jobs[j].uri
    BY DEF DescriptorsAreHeld
  <2> DEFINE holders == { j \in DOMAIN jobs : Holds(j, n) }
  <2>1. \A j \in DOMAIN jobs : Holds(j, n) => fds[n] = jobs[j].uri /\ jobs[j].uri \in Uris
    BY JobFacts DEF IInv, Held, Holds, Holding, Jobs
  <2>2. CASE fds[n] = Closed
    <3>1. holders = {}
      BY <2>1, <2>2, SessionAssumption
    <3> QED
      BY <3>1, <2>1, <2>2, FS_EmptySet
  <2>3. CASE fds[n] # Closed
    <3>1. PICK j \in DOMAIN jobs : Holds(j, n)
      BY <2>3 DEF IInv, NoneLeaked
    <3>2. \A i \in DOMAIN jobs : Holds(i, n) => i = j
      BY <3>1 DEF IInv, Apart, Holds, Holding
    <3>3. holders = {j}
      BY <3>1, <3>2
    <3> QED
      BY <3>3, <2>1, <2>3, FS_Singleton
  <2> QED
    BY <2>2, <2>3
<1> QED
  BY <1>1, Invariance, PTL

(***************************************************************************)
(* No report contains anything of another document.                        *)
(***************************************************************************)
THEOREM ReportsAreOfTheirDocument == Spec => []ReportIsOfItsDocument
<1>1. IInv => ReportIsOfItsDocument
  BY DEF IInv
<1> QED
  BY <1>1, Invariance, PTL

(***************************************************************************)
(* No screen shows a document that was picked in an activity before it.    *)
(***************************************************************************)
THEOREM OnlyOwnPicksAreShown == Spec => []ShownWasPickedHere
<1>1. IInv => ShownWasPickedHere
  BY DEF IInv
<1> QED
  BY <1>1, Invariance, PTL

(***************************************************************************)
(* Picks that do not overlap end with the named document on the screen.    *)
(***************************************************************************)
THEOREM SelectionsAreShown == Spec => []SelectionIsShown
<1>1. IInv => SelectionIsShown
  <2> SUFFICES ASSUME IInv, ~ overlapped, ~ Busy, selected # NoUri
               PROVE  detection # Nothing /\ detection.about = selected
    BY DEF SelectionIsShown
  <2>1. /\ Len(jobs) \in DOMAIN jobs /\ Live(Len(jobs))
        /\ jobs[Len(jobs)].stage = "done" => detection # Nothing /\ detection.about = selected
    BY DEF IInv, LastIsNamed
  <2> QED
    BY <2>1 DEF Busy
<1> QED
  BY <1>1, Invariance, PTL
=============================================================================
