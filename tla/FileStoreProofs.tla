-------------------------- MODULE FileStoreProofs --------------------------
(***************************************************************************)
(* FileStore: what its handles keep, for every number of handles, every    *)
(* set of writes and every failure the specification has.                  *)
(***************************************************************************)
EXTENDS FileStore, StoreContractProofs

-----------------------------------------------------------------------------
(* Documents and the operators on them. *)

(* The fields of a stored subject. *)
LEMMA StoredFacts ==
  ASSUME NEW x \in StoredSubject
  PROVE  /\ x # None
         /\ x.instance \in Instance
         /\ x.instance.revision \in Nat
         /\ x.events \in Seq(Event)
         /\ x.records \in Seq(Envelope)
         /\ x.observations \in Seq(RecordedObservation)
         /\ x = [instance |-> x.instance, events |-> x.events, records |-> x.records,
                 observations |-> x.observations]
<1>1. x # None
  BY FileAssumption
<1>2. x.instance \in Instance
  BY DEF StoredSubject
<1>3. x.instance.revision \in Nat
  BY <1>2, InstanceFacts
<1> QED
  BY <1>1, <1>2, <1>3 DEF StoredSubject

(* What a search for a decision finds. *)
LEMMA FindRecordFacts ==
  ASSUME NEW x \in StoredSubject, NEW r
  PROVE  LET i == FindRecord(x, r) IN
         /\ i \in Nat
         /\ i # 0 => i \in DOMAIN x.records /\ x.records[i].record_id = r
         /\ i = 0 => \A j \in DOMAIN x.records : x.records[j].record_id # r
<1> DEFINE I == {i \in 1 .. Len(x.records) : x.records[i].record_id = r}
<1>1. FindRecord(x, r) = IF I # {} THEN Min(I) ELSE 0
  BY DEF FindRecord, SelectInSeq, Under
<1>2. x.records \in Seq(Envelope)
  BY StoredFacts
<1>3. Len(x.records) \in Nat /\ DOMAIN x.records = 1 .. Len(x.records)
  BY <1>2
<1>4. I # {} => Min(I) \in I
  <2>1. I \subseteq Nat
    BY <1>3
  <2> QED
    BY <2>1, FirstPlace
<1> QED
  BY <1>1, <1>3, <1>4

(* What a search for an observation finds. *)
LEMMA FindObservationFacts ==
  ASSUME NEW x \in StoredSubject, NEW r
  PROVE  LET i == FindObservation(x, r) IN
         /\ i \in Nat
         /\ i # 0 => i \in DOMAIN x.observations /\ x.observations[i].record_id = r
         /\ i = 0 => \A j \in DOMAIN x.observations : x.observations[j].record_id # r
<1> DEFINE I == {i \in 1 .. Len(x.observations) : x.observations[i].record_id = r}
<1>1. FindObservation(x, r) = IF I # {} THEN Min(I) ELSE 0
  BY DEF FindObservation, SelectInSeq, Under
<1>2. x.observations \in Seq(RecordedObservation)
  BY StoredFacts
<1>3. Len(x.observations) \in Nat /\ DOMAIN x.observations = 1 .. Len(x.observations)
  BY <1>2
<1>4. I # {} => Min(I) \in I
  <2>1. I \subseteq Nat
    BY <1>3
  <2> QED
    BY <2>1, FirstPlace
<1> QED
  BY <1>1, <1>3, <1>4

(* What a write carries, by its kind. *)
LEMMA WriteFacts ==
  ASSUME NEW w \in Write
  PROVE  /\ w # None
         /\ SubjectOf(w) \in Subjects
         /\ w.kind \in {"commit", "commit_recorded", "observe"}
         /\ w.kind = "commit" =>
              /\ w.document \in Decision
              /\ w.document.instance \in Instance
              /\ w.document.events \in Seq(Event)
              /\ SubjectOf(w) = w.document.instance.subject
              /\ w.expect \in Nat \cup {Absent}
         /\ w.kind = "commit_recorded" =>
              /\ w.document \in RecordedCommit
              /\ w.document.instance \in Instance
              /\ w.document.envelope \in Envelope
              /\ SubjectOf(w) = w.document.instance.subject
              /\ w.expect \in Nat \cup {Absent}
         /\ w.kind = "observe" =>
              /\ w.document \in RecordedObservation
              /\ SubjectOf(w) = w.document.subject
<1>1. w # None
  BY FileAssumption
<1>2. CASE w \in [kind : {"commit"}, document : Decision, expect : Nat \cup {Absent}]
  BY <1>1, <1>2 DEF Decision, SubjectOf, Instance
<1>3. CASE w \in [kind : {"commit_recorded"}, document : RecordedCommit,
                  expect : Nat \cup {Absent}]
  BY <1>1, <1>3 DEF RecordedCommit, SubjectOf, Instance
<1>4. CASE w \in [kind : {"observe"}, document : RecordedObservation, expect : {None}]
  BY <1>1, <1>4 DEF RecordedObservation, SubjectOf
<1> QED
  BY <1>2, <1>3, <1>4 DEF Write

(* A valid recorded write has an id of the callers'. *)
LEMMA ValidFacts ==
  ASSUME NEW w \in Write, Valid(w)
  PROVE  /\ w.kind = "commit_recorded" =>
              /\ CommitValid(w.document)
              /\ w.document.envelope.record_id \in RecordIds
              /\ w.document.envelope.result = w.document.instance
         /\ w.kind = "observe" =>
              /\ ObservationValid(w.document)
              /\ w.document.record_id \in RecordIds
              /\ w.document.revision \in Nat
<1>1. CASE w.kind = "commit_recorded"
  BY <1>1, WriteFacts DEF Valid, CommitValid, Envelope, RecordId
<1>2. CASE w.kind = "observe"
  BY <1>2, WriteFacts DEF Valid, ObservationValid, RecordedObservation, RecordId
<1> QED
  BY <1>1, <1>2

(* What one more entry, or none, does to the document held. *)
LEMMA WrittenFacts ==
  ASSUME NEW x \in StoredSubject \cup {None}, NEW w \in Write, Valid(w), Later(w),
         check(Expects(w), held_revision(x))
  PROVE  LET y == Written(x, w) IN
         /\ y \in StoredSubject
         /\ w.kind = "observe" => x # None
         /\ y.instance = IF w.kind = "observe" THEN x.instance ELSE w.document.instance
         /\ y.events = (IF x = None THEN << >> ELSE x.events)
                         \o (IF w.kind = "commit" THEN w.document.events ELSE << >>)
         /\ IF w.kind = "commit_recorded"
            THEN y.records = Append(IF x = None THEN << >> ELSE x.records,
                                    w.document.envelope)
            ELSE y.records = IF x = None THEN << >> ELSE x.records
         /\ IF w.kind = "observe"
            THEN y.observations = Append(x.observations, w.document)
            ELSE y.observations = IF x = None THEN << >> ELSE x.observations
         /\ x # None => x.instance.revision <= y.instance.revision
<1> DEFINE base == IF x = None THEN Fresh(w.document.instance) ELSE x
<1>1. CASE w.kind = "commit"
  <2>1. /\ w.document.instance \in Instance /\ w.document.events \in Seq(Event)
        /\ w.expect \in Nat \cup {Absent}
    BY <1>1, WriteFacts
  <2>2. base \in StoredSubject
    BY <2>1 DEF Fresh, StoredSubject
  <2>3. Written(x, w) = [base EXCEPT !.instance = w.document.instance,
                                     !.events = @ \o w.document.events]
    BY <1>1 DEF Written
  <2>4. base.events \in Seq(Event) /\ base.events \o << >> = base.events
    BY <2>2, StoredFacts
  <2>5. base.events \o w.document.events \in Seq(Event)
    BY <2>1, <2>4
  <2>6. Written(x, w) \in StoredSubject
    BY <2>1, <2>2, <2>3, <2>5 DEF StoredSubject
  <2>7. x # None => x.instance.revision <= w.document.instance.revision
    BY <1>1, <2>1, InstanceFacts, StoredFacts, StoreAssumption
       DEF Later, check, Expects, held_revision
  <2> QED
    BY <1>1, <2>2, <2>3, <2>6, <2>7 DEF Fresh, StoredSubject
<1>2. CASE w.kind = "commit_recorded"
  <2>1. /\ w.document.instance \in Instance /\ w.document.envelope \in Envelope
        /\ w.expect \in Nat \cup {Absent}
    BY <1>2, WriteFacts
  <2>2. base \in StoredSubject
    BY <2>1 DEF Fresh, StoredSubject
  <2>3. Written(x, w) = [base EXCEPT !.instance = w.document.instance,
                                     !.records = Append(@, w.document.envelope)]
    BY <1>2 DEF Written
  <2>4. base.events \in Seq(Event) /\ base.events \o << >> = base.events
    BY <2>2, StoredFacts
  <2>5. Append(base.records, w.document.envelope) \in Seq(Envelope)
    BY <2>1, <2>2, StoredFacts
  <2>6. Written(x, w) \in StoredSubject
    BY <2>1, <2>2, <2>3, <2>5 DEF StoredSubject
  <2>7. x # None => x.instance.revision <= w.document.instance.revision
    BY <1>2, <2>1, InstanceFacts, StoredFacts, StoreAssumption
       DEF Later, check, Expects, held_revision
  <2> QED
    BY <1>2, <2>2, <2>3, <2>4, <2>6, <2>7 DEF Fresh, StoredSubject
<1>3. CASE w.kind = "observe"
  <2>1. w.document \in RecordedObservation /\ w.document.revision \in Nat
    BY <1>3, WriteFacts, ValidFacts
  <2>2. x # None /\ x \in StoredSubject
    BY <1>3, <2>1, StoreAssumption DEF check, Expects, held_revision
  <2>3. Written(x, w) = [x EXCEPT !.observations = Append(@, w.document)]
    BY <1>3, <2>2 DEF Written
  <2>4. x.events \in Seq(Event) /\ x.events \o << >> = x.events
    BY <2>2, StoredFacts
  <2>5. Append(x.observations, w.document) \in Seq(RecordedObservation)
    BY <2>1, <2>2, StoredFacts
  <2>6. Written(x, w) \in StoredSubject
    BY <2>2, <2>3, <2>5 DEF StoredSubject
  <2>7. x.instance.revision <= x.instance.revision
    BY <2>2, StoredFacts
  <2> QED
    BY <1>3, <2>2, <2>3, <2>4, <2>6, <2>7 DEF StoredSubject
<1> QED
  BY <1>1, <1>2, <1>3, WriteFacts

(* A valid write continues the document it is written into. *)
LEMMA WrittenContinues ==
  ASSUME NEW x \in StoredSubject \cup {None}, NEW w \in Write, Valid(w), Later(w),
         check(Expects(w), held_revision(x))
  PROVE  /\ Continues(x, Written(x, w))
         /\ Kept(Written(x, w), w)
         /\ PlacedIn(x, SubjectOf(w)) => PlacedIn(Written(x, w), SubjectOf(w))
<1> DEFINE y == Written(x, w)
           records == IF x = None THEN << >> ELSE x.records
           observations == IF x = None THEN << >> ELSE x.observations
<1>1. /\ y \in StoredSubject
      /\ w.kind = "observe" => x # None
      /\ y.instance = IF w.kind = "observe" THEN x.instance ELSE w.document.instance
      /\ IF w.kind = "commit_recorded"
         THEN y.records = Append(records, w.document.envelope)
         ELSE y.records = records
      /\ IF w.kind = "observe"
         THEN y.observations = Append(observations, w.document)
         ELSE y.observations = observations
      /\ x # None => x.instance.revision <= y.instance.revision
  BY WrittenFacts
<1>2. records \in Seq(Envelope) /\ observations \in Seq(RecordedObservation)
  BY StoredFacts
<1>3. y # None
  BY <1>1, StoredFacts
<1> HIDE DEF y, records, observations
<1>4. w.kind = "commit_recorded" =>
        /\ w.document.envelope \in Envelope
        /\ DOMAIN y.records = DOMAIN records \cup {Len(records) + 1}
        /\ \A i \in DOMAIN records : y.records[i] = records[i]
        /\ y.records[Len(records) + 1] = w.document.envelope
  BY <1>1, <1>2, WriteFacts, AppendFacts
<1>5. w.kind = "observe" =>
        /\ w.document \in RecordedObservation
        /\ DOMAIN y.observations = DOMAIN observations \cup {Len(observations) + 1}
        /\ \A i \in DOMAIN observations : y.observations[i] = observations[i]
        /\ y.observations[Len(observations) + 1] = w.document
  BY <1>1, <1>2, WriteFacts, AppendFacts
<1>6. Keeps(records, y.records) /\ Keeps(observations, y.observations)
  BY <1>1, <1>4, <1>5 DEF Keeps
<1>7. Continues(x, y)
  BY <1>1, <1>3, <1>6 DEF Continues, records, observations
<1>8. Kept(y, w)
  <2>1. w.kind = "commit" => w.document.instance.revision <= y.instance.revision
    BY <1>1, WriteFacts, InstanceFacts
  <2>2. w.kind = "commit_recorded" => w.document.envelope \in ToSet(y.records)
    BY <1>4 DEF ToSet
  <2>3. w.kind = "observe" => w.document \in ToSet(y.observations)
    BY <1>5 DEF ToSet
  <2> QED
    BY <1>3, <2>1, <2>2, <2>3 DEF Kept
<1>9. ASSUME PlacedIn(x, SubjectOf(w))
      PROVE  PlacedIn(y, SubjectOf(w))
  <2> DEFINE s == SubjectOf(w)
  <2>1. y.instance.subject = s
    BY <1>1, <1>9, WriteFacts DEF PlacedIn
  <2>2. \A i \in DOMAIN records : records[i].record_id \in RecordIds /\ records[i].result.subject = s
    BY <1>9 DEF PlacedIn, records
  <2>3. \A i \in DOMAIN observations :
           observations[i].record_id \in RecordIds /\ observations[i].subject = s
    BY <1>9 DEF PlacedIn, observations
  <2>4. w.kind = "commit_recorded" =>
          /\ w.document.envelope.record_id \in RecordIds
          /\ w.document.envelope.result.subject = s
    BY ValidFacts, WriteFacts
  <2>5. w.kind = "observe" =>
          /\ w.document.record_id \in RecordIds
          /\ w.document.subject = s
    BY ValidFacts, WriteFacts
  <2>6. \A i \in DOMAIN y.records :
          y.records[i].record_id \in RecordIds /\ y.records[i].result.subject = s
    BY <1>1, <1>4, <2>2, <2>4
  <2>7. \A i \in DOMAIN y.observations :
          y.observations[i].record_id \in RecordIds /\ y.observations[i].subject = s
    BY <1>1, <1>5, <2>3, <2>5
  <2> QED
    BY <2>1, <2>6, <2>7 DEF PlacedIn
<1> QED
  BY <1>7, <1>8, <1>9 DEF y

(* What record_document returns is an entry of the document it looks in. *)
LEMMA FoundFacts ==
  ASSUME NEW index \in [RecordIds -> Location \cup {None}], NEW r \in RecordIds,
         subjects \in [Subjects -> StoredSubject \cup {None}], DocumentsPlaced,
         record_document(index, r) # None
  PROVE  LET d == record_document(index, r)
             s == index[r].subject
         IN /\ s \in Subjects /\ subjects[s] \in StoredSubject
            /\ \/ /\ d \in RecordedObservation
                  /\ d.subject = s /\ d.record_id = r
                  /\ \E i \in DOMAIN subjects[s].observations :
                       subjects[s].observations[i] = d
               \/ /\ d \in RecordedCommit
                  /\ d.instance.subject = s
                  /\ d.envelope.record_id = r
                  /\ d.instance = d.envelope.result
                  /\ \E i \in DOMAIN subjects[s].records :
                       subjects[s].records[i] = d.envelope
<1> DEFINE s == index[r].subject
           x == subjects[s]
           o == FindObservation(x, r)
           e == FindRecord(x, r)
<1>1. marker /\ index[r] # None /\ x # None
  BY DEF record_document
<1>2. index[r] \in Location
  BY <1>1
<1>3. s \in Subjects
  BY <1>2 DEF Location
<1>4. x \in StoredSubject
  BY <1>1, <1>3
<1>5. /\ x.observations \in Seq(RecordedObservation)
      /\ x.records \in Seq(Envelope)
  BY <1>4, StoredFacts
<1>6. PlacedIn(x, s)
  BY <1>3 DEF DocumentsPlaced
<1>7. CASE index[r].observation
  <2>1. record_document(index, r) = IF o = 0 THEN None ELSE x.observations[o]
    BY <1>1, <1>7 DEF record_document
  <2>2. o # 0 /\ o \in DOMAIN x.observations /\ x.observations[o].record_id = r
    BY <2>1, <1>4, FindObservationFacts
  <2>3. x.observations[o] \in RecordedObservation /\ x.observations[o].subject = s
    BY <2>2, <1>1, <1>5, <1>6 DEF PlacedIn
  <2> QED
    BY <1>3, <1>4, <2>1, <2>2, <2>3
<1>8. CASE ~index[r].observation
  <2>1. record_document(index, r) =
          IF e = 0 THEN None ELSE [instance |-> x.records[e].result, envelope |-> x.records[e]]
    BY <1>1, <1>8 DEF record_document
  <2>2. e # 0 /\ e \in DOMAIN x.records /\ x.records[e].record_id = r
    BY <2>1, <1>4, FindRecordFacts
  <2>3. x.records[e] \in Envelope /\ x.records[e].result.subject = s
    BY <2>2, <1>1, <1>5, <1>6 DEF PlacedIn
  <2>4. [instance |-> x.records[e].result, envelope |-> x.records[e]] \in RecordedCommit
    BY <2>3, EnvelopeFacts DEF RecordedCommit
  <2>5. record_document(index, r) = [instance |-> x.records[e].result, envelope |-> x.records[e]]
    BY <2>1, <2>2
  <2> DEFINE d == record_document(index, r)
  <2>6. /\ d \in RecordedCommit
        /\ d.envelope = x.records[e]
        /\ d.instance = x.records[e].result
    BY <2>4, <2>5
  <2>7. /\ d \in RecordedCommit
        /\ d.instance.subject = s
        /\ d.envelope.record_id = r
        /\ d.instance = d.envelope.result
        /\ \E i \in DOMAIN x.records : x.records[i] = d.envelope
    BY <2>2, <2>3, <2>6
  <2> QED
    BY <1>3, <1>4, <2>7
<1> QED
  BY <1>7, <1>8

(* The three verdicts: a document to install, made of the one held at the   *)
(* revision the caller expects; a retry, whose document is held; a refusal. *)
LEMMA DecideFacts ==
  ASSUME NEW index \in [RecordIds -> Location \cup {None}],
         subjects \in [Subjects -> StoredSubject \cup {None}], DocumentsPlaced,
         NEW w \in Write, Valid(w)
  PROVE  LET v == Decide(index, w)
             x == subjects[SubjectOf(w)]
         IN /\ v.outcome \in {"write", "ok"} \cup Refusals
            /\ v.outcome = "write" =>
                 /\ v.stored = Written(x, w)
                 /\ check(Expects(w), held_revision(x))
                 /\ w.kind # "commit" =>
                      /\ record_document(index, IdOf(w)) = None
                      /\ x # None => /\ FindRecord(x, IdOf(w)) = 0
                                     /\ FindObservation(x, IdOf(w)) = 0
            /\ v.outcome = "ok" => Kept(x, w)
<1> DEFINE s == SubjectOf(w)
           x == subjects[s]
<1>1. s \in Subjects /\ x \in StoredSubject \cup {None}
  BY WriteFacts
<1>2. CASE w.kind = "commit"
  <2>1. Decide(index, w) = DecideCommit(x, w.document, w.expect)
    BY <1>2 DEF Decide
  <2>2. CASE check(w.expect, held_revision(x))
    <3>1. Decide(index, w) = Verdict("write", Written(x, w))
      BY <1>2, <2>1, <2>2 DEF DecideCommit, Written
    <3> QED
      BY <1>2, <2>2, <3>1 DEF Verdict, Expects
  <2>3. CASE ~check(w.expect, held_revision(x))
    BY <2>1, <2>3 DEF DecideCommit, Verdict, Refusals
  <2> QED
    BY <2>2, <2>3
<1>3. CASE w.kind = "commit_recorded"
  <2> DEFINE d == w.document
             r == d.envelope.record_id
             existing == record_document(index, r)
  <2>1. /\ d \in RecordedCommit /\ r \in RecordIds /\ d.envelope \in Envelope
        /\ s = d.instance.subject /\ IdOf(w) = r /\ Expects(w) = w.expect
    BY <1>3, WriteFacts, ValidFacts DEF IdOf, Expects
  <2>2. Decide(index, w) = DecideRecorded(existing, x, d, w.expect)
    BY <1>3 DEF Decide
  <2>3. CASE existing # None
    <3>1. Decide(index, w) = SameOr(existing = d)
      BY <2>2, <2>3 DEF DecideRecorded
    <3>2. ASSUME existing = d
          PROVE  Kept(x, w)
      <4>1. /\ index[r].subject = s
            /\ x \in StoredSubject
            /\ \E i \in DOMAIN x.records : x.records[i] = d.envelope
        BY <2>1, <2>3, <3>2, FoundFacts, DocumentsDisjoint
      <4> QED
        BY <1>3, <4>1, StoredFacts DEF Kept, ToSet
    <3> QED
      BY <3>1, <3>2 DEF SameOr, Verdict, Refusals
  <2>4. CASE existing = None /\ x # None /\ FindRecord(x, r) # 0
    <3> DEFINE i == FindRecord(x, r)
               same == x.records[i] = d.envelope /\ x.instance = d.instance
    <3>1. Decide(index, w) = SameOr(same)
      BY <2>2, <2>4 DEF DecideRecorded
    <3>2. i \in DOMAIN x.records
      BY <1>1, <2>4, FindRecordFacts
    <3>3. same => Kept(x, w)
      BY <1>3, <2>4, <3>2 DEF Kept, ToSet
    <3> QED
      BY <3>1, <3>3 DEF SameOr, Verdict, Refusals
  <2>5. CASE /\ existing = None /\ ~(x # None /\ FindRecord(x, r) # 0)
             /\ x # None /\ FindObservation(x, r) # 0
    <3>1. Decide(index, w) = Verdict("record_conflict", None)
      BY <2>2, <2>5 DEF DecideRecorded
    <3> QED
      BY <3>1 DEF Verdict, Refusals
  <2>6. CASE /\ existing = None /\ ~(x # None /\ FindRecord(x, r) # 0)
             /\ ~(x # None /\ FindObservation(x, r) # 0)
    <3>1. CASE ~check(w.expect, held_revision(x))
      <4>1. Decide(index, w) = Verdict("revision_conflict", None)
        BY <2>2, <2>6, <3>1 DEF DecideRecorded
      <4> QED
        BY <4>1 DEF Verdict, Refusals
    <3>2. CASE check(w.expect, held_revision(x))
      <4>1. Decide(index, w) = Verdict("write", Written(x, w))
        BY <1>3, <2>2, <2>6, <3>2 DEF DecideRecorded, Written
      <4> QED
        BY <1>3, <2>1, <2>6, <3>2, <4>1 DEF Verdict
    <3> QED
      BY <3>1, <3>2
  <2> QED
    BY <2>3, <2>4, <2>5, <2>6
<1>4. CASE w.kind = "observe"
  <2> DEFINE d == w.document
             r == d.record_id
             existing == record_document(index, r)
  <2>1. /\ d \in RecordedObservation /\ r \in RecordIds
        /\ s = d.subject /\ IdOf(w) = r /\ Expects(w) = d.revision
    BY <1>4, WriteFacts, ValidFacts DEF IdOf, Expects
  <2>2. Decide(index, w) = DecideObserve(existing, x, d)
    BY <1>4 DEF Decide
  <2>3. CASE existing # None
    <3>1. Decide(index, w) = SameOr(existing = d)
      BY <2>2, <2>3 DEF DecideObserve
    <3>2. ASSUME existing = d
          PROVE  Kept(x, w)
      <4>1. /\ index[r].subject = s
            /\ x \in StoredSubject
            /\ \E i \in DOMAIN x.observations : x.observations[i] = d
        BY <2>1, <2>3, <3>2, FoundFacts, DocumentsDisjoint
      <4> QED
        BY <1>4, <4>1, StoredFacts DEF Kept, ToSet
    <3> QED
      BY <3>1, <3>2 DEF SameOr, Verdict, Refusals
  <2>4. CASE existing = None /\ x = None
    BY <2>2, <2>4 DEF DecideObserve, Verdict, Refusals
  <2>5. CASE existing = None /\ x # None /\ FindObservation(x, r) # 0
    <3> DEFINE i == FindObservation(x, r)
               same == x.observations[i] = d
    <3>1. Decide(index, w) = SameOr(same)
      BY <2>2, <2>5 DEF DecideObserve
    <3>2. i \in DOMAIN x.observations
      BY <1>1, <2>5, FindObservationFacts
    <3>3. same => Kept(x, w)
      BY <1>4, <2>5, <3>2 DEF Kept, ToSet
    <3> QED
      BY <3>1, <3>3 DEF SameOr, Verdict, Refusals
  <2>6. CASE /\ existing = None /\ x # None /\ FindObservation(x, r) = 0
             /\ FindRecord(x, r) # 0
    BY <2>2, <2>6 DEF DecideObserve, Verdict, Refusals
  <2>7. CASE /\ existing = None /\ x # None /\ FindObservation(x, r) = 0
             /\ FindRecord(x, r) = 0
    <3>1. CASE ~check(d.revision, held_revision(x))
      BY <2>2, <2>7, <3>1 DEF DecideObserve, Verdict, Refusals
    <3>2. CASE check(d.revision, held_revision(x))
      <4>1. Decide(index, w) = Verdict("write", Written(x, w))
        BY <1>4, <2>2, <2>7, <3>2 DEF DecideObserve, Written
      <4> QED
        BY <1>4, <2>1, <2>7, <3>2, <4>1 DEF Verdict
    <3> QED
      BY <3>1, <3>2
  <2> QED
    BY <2>3, <2>4, <2>5, <2>6, <2>7
<1> QED
  BY <1>2, <1>3, <1>4, WriteFacts

-----------------------------------------------------------------------------
(* The invariant that needs nothing of the failures. *)

(* A call that ended. *)
LEMMA IdleCall ==
  /\ Idle \in Call /\ Idle.pc = "idle" /\ Idle.write = None
  /\ \A answer \in {"none", "ok"} \cup Refusals :
       LET c == [Idle EXCEPT !.answer = answer] IN
       c \in Call /\ c.pc = "idle" /\ c.write = None
  BY DEF Idle, Call

(* The writes of a setup. *)
LEMMA SetupFacts ==
  ASSUME TypeOK
  PROVE  setup.writes \subseteq Write /\ \A w \in setup.writes : Later(w)
  BY FileAssumption DEF TypeOK

(* The write of a call under way. *)
LEMMA WriteUnderWay ==
  ASSUME TypeOK, CallHolds, NEW h \in Handles,
         calls[h].pc \in {"lock", "decide", "stage", "install", "sync"}
  PROVE  /\ calls[h].write \in setup.writes
         /\ calls[h].write \in Write
         /\ Valid(calls[h].write)
         /\ Later(calls[h].write)
         /\ SubjectOf(calls[h].write) \in Subjects
<1>1. calls[h].write \in setup.writes /\ Valid(calls[h].write)
  BY DEF CallHolds
<1> QED
  BY <1>1, SetupFacts, WriteFacts

(* The state at the start. *)
LEMMA InitBase == Init => BaseInvariant
<1> SUFFICES ASSUME Init PROVE BaseInvariant
  OBVIOUS
<1> USE DEF Init
<1>1. PICK old \in Legacy :
        /\ marker = (old # None)
        /\ subjects = IF old = None THEN [s \in Subjects |-> None] ELSE old
  OBVIOUS
<1>2. ASSUME NEW s \in Subjects
      PROVE  /\ subjects[s] \in StoredSubject \cup {None}
             /\ PlacedIn(subjects[s], s)
             /\ Continues(subjects[s], subjects[s])
  <2>1. subjects[s] # None =>
          /\ subjects[s] \in StoredSubject
          /\ subjects[s].instance.subject = s
          /\ subjects[s].records = << >> /\ subjects[s].observations = << >>
    BY <1>1, FileAssumption DEF Migrated
  <2> QED
    BY <2>1, StoredFacts, KeepsReflexive DEF PlacedIn, Continues, Keeps
<1>3. subjects \in [Subjects -> StoredSubject \cup {None}]
  <2>1. CASE old = None
    BY <1>1, <2>1
  <2>2. CASE old # None
    BY <1>1, <2>2, FileAssumption DEF Migrated
  <2> QED
    BY <2>1, <2>2
<1>4. marker \in BOOLEAN
  BY <1>1
<1>5. \A h \in Handles : handles[h] = Opened /\ calls[h] = Idle
  OBVIOUS
<1>6. TypeOK
  <2>1. Opened \in Handle
    BY DEF Opened, Handle
  <2>2. epoch \in 0 .. MaxEpoch
    BY FileAssumption
  <2> QED
    BY <1>3, <1>4, <2>1, <2>2, IdleCall DEF TypeOK
<1>7. LockHolds /\ CallHolds /\ StagedHolds
  BY <1>5, IdleCall, FileAssumption
    DEF LockHolds, CallHolds, StagedHolds, Writing
<1>8. EpochHolds
  BY <1>5, FileAssumption DEF EpochHolds, Opened
<1>9. MarkerHolds
  BY <1>1, <1>5, IdleCall DEF MarkerHolds
<1>10. DocumentsPlaced /\ DurableHolds
  BY <1>2 DEF DocumentsPlaced, DurableHolds
<1> QED
  BY <1>6, <1>7, <1>8, <1>9, <1>10 DEF BaseInvariant

(* Return leaves the handle idle and without the lock. *)
LEMMA ReturnFacts ==
  ASSUME BaseInvariant, NEW h \in Handles, NEW answer \in {"ok"} \cup Refusals,
         Return(h, answer), setup' = setup
  PROVE  /\ calls' \in [Handles -> Call]
         /\ calls'[h].pc = "idle" /\ calls'[h].answer = answer
         /\ \A g \in Handles : g # h => calls'[g] = calls[g]
         /\ writer' \in Handles \cup {None} /\ readers' \subseteq Handles
         /\ acked' \subseteq setup'.writes
         /\ writer' # None => writer' = writer
         /\ LockHolds' /\ CallHolds'
<1> DEFINE c == [Idle EXCEPT !.answer = answer]
<1>1. calls \in [Handles -> Call] /\ calls' = [calls EXCEPT ![h] = c]
  BY DEF Return, BaseInvariant, TypeOK
<1>2. c \in Call /\ c.pc = "idle" /\ c.write = None /\ c.answer = answer
  BY IdleCall DEF Idle
<1> HIDE DEF c
<1>3. /\ calls' \in [Handles -> Call] /\ calls'[h] = c
      /\ \A g \in Handles : g # h => calls'[g] = calls[g]
  BY <1>1, <1>2
<1>4. /\ writer' = IF writer = h THEN None ELSE writer
      /\ readers' = readers \ {h}
      /\ acked' = IF answer = "ok" /\ calls[h].write # None
                  THEN acked \cup {calls[h].write} ELSE acked
  BY DEF Return
<1>5. /\ writer' \in Handles \cup {None} /\ readers' \subseteq Handles
      /\ writer' # None => writer' = writer
  BY <1>4 DEF BaseInvariant, TypeOK
<1>6. acked' \subseteq setup'.writes
  BY <1>4 DEF BaseInvariant, TypeOK, CallHolds
<1>7. LockHolds'
  <2>1. ASSUME NEW g \in Handles
        PROVE  /\ (calls'[g].pc \in Writing) <=> (writer' = g)
               /\ (calls'[g].pc = "acquire") <=> (g \in readers')
    <3>1. /\ (calls[g].pc \in Writing) <=> (writer = g)
          /\ (calls[g].pc = "acquire") <=> (g \in readers)
      BY DEF BaseInvariant, LockHolds
    <3>2. CASE g = h
      BY <3>2, <1>2, <1>3, <1>4, FileAssumption DEF Writing
    <3>3. CASE g # h
      BY <3>1, <3>3, <1>3, <1>4, FileAssumption DEF Writing
    <3> QED
      BY <3>2, <3>3
  <2>2. writer' # None => readers' = {}
    BY <1>4 DEF BaseInvariant, LockHolds
  <2> QED
    BY <2>1, <2>2 DEF LockHolds
<1>8. CallHolds'
  BY <1>2, <1>3 DEF BaseInvariant, CallHolds, Valid
<1> QED
  BY <1>2, <1>3, <1>5, <1>6, <1>7, <1>8

(* Documents that stay as they are. *)
LEMMA DocumentsSame ==
  ASSUME BaseInvariant, UNCHANGED <<subjects, durable>>
  PROVE  DocumentsPlaced' /\ DurableHolds'
  BY DEF BaseInvariant, DocumentsPlaced, DurableHolds, PlacedIn, Continues,
    Keeps

(* What is staged stays what it was made of. *)
LEMMA StagedSame ==
  ASSUME BaseInvariant, subjects' = subjects,
         \A g \in Handles : calls'[g].pc \in {"stage", "install"} =>
           /\ calls[g].pc \in {"stage", "install"}
           /\ calls'[g].write = calls[g].write
           /\ calls'[g].stored = calls[g].stored
  PROVE  StagedHolds'
<1> SUFFICES ASSUME NEW g \in Handles, calls'[g].pc \in {"stage", "install"}
             PROVE  /\ calls'[g].stored
                         = Written(subjects'[SubjectOf(calls'[g].write)], calls'[g].write)
                    /\ check(Expects(calls'[g].write),
                             held_revision(subjects'[SubjectOf(calls'[g].write)]))
  BY DEF StagedHolds
<1>1. /\ calls[g].stored = Written(subjects[SubjectOf(calls[g].write)], calls[g].write)
      /\ check(Expects(calls[g].write),
               held_revision(subjects[SubjectOf(calls[g].write)]))
  BY DEF BaseInvariant, StagedHolds
<1> QED
  BY <1>1

(* A write begins. *)
LEMMA BeginBase ==
  ASSUME BaseInvariant, NEW h \in Handles, NEW w \in setup.writes, Begin(h, w)
  PROVE  BaseInvariant'
<1> DEFINE c == IF Valid(w) THEN [Idle EXCEPT !.pc = "lock", !.write = w]
                ELSE [Idle EXCEPT !.answer = "backend"]
<1>1. /\ UNCHANGED <<setup, marker, subjects, durable, stale, epoch, writer, readers,
                     handles, acked>>
      /\ calls[h].pc = "idle" /\ calls' = [calls EXCEPT ![h] = c]
  BY DEF Begin, disk, lock
<1>2. /\ c \in Call
      /\ Valid(w) => c.pc = "lock" /\ c.write = w
      /\ ~Valid(w) => c.pc = "idle" /\ c.write = None
  BY SetupFacts DEF BaseInvariant, Idle, Call, Refusals
<1> HIDE DEF c
<1>3. /\ calls' \in [Handles -> Call] /\ calls'[h] = c
      /\ \A g \in Handles : g # h => calls'[g] = calls[g]
  BY <1>1, <1>2 DEF BaseInvariant, TypeOK
<1>4. TypeOK'
  BY <1>1, <1>3 DEF BaseInvariant, TypeOK
<1>5. LockHolds'
  BY <1>1, <1>2, <1>3 DEF BaseInvariant, LockHolds, Writing
<1>6. CallHolds'
  BY <1>1, <1>2, <1>3 DEF BaseInvariant, CallHolds, Valid
<1>7. EpochHolds' /\ MarkerHolds'
  BY <1>1, <1>2, <1>3 DEF BaseInvariant, EpochHolds, MarkerHolds
<1>8. DocumentsPlaced' /\ DurableHolds'
  BY <1>1, DocumentsSame
<1>9. StagedHolds'
  BY <1>1, <1>2, <1>3, StagedSame
<1> QED
  BY <1>4, <1>5, <1>6, <1>7, <1>8, <1>9 DEF BaseInvariant

(* One handle moves to its next step. *)
LEMMA MovesTo ==
  ASSUME TypeOK, NEW h \in Handles, NEW pc \in {"decide", "install", "sync"},
         Goto(h, pc)
  PROVE  /\ calls' \in [Handles -> Call]
         /\ calls'[h] = [calls[h] EXCEPT !.pc = pc]
         /\ \A g \in Handles : g # h => calls'[g] = calls[g]
<1>1. calls' = [calls EXCEPT ![h] = [calls[h] EXCEPT !.pc = pc]]
  BY DEF Goto
<1>2. calls \in [Handles -> Call] /\ [calls[h] EXCEPT !.pc = pc] \in Call
  BY DEF TypeOK, Call
<1> QED
  BY <1>1, <1>2

(* An index that is kept is the handle's own. *)
LEMMA KeptFacts ==
  ASSUME TypeOK, NEW h \in Handles
  PROVE  /\ handles[h] \in Handle
         /\ KeptIndex(handles[h]) \in [RecordIds -> Location \cup {None}] \cup {None}
         /\ KeptIndex(handles[h]) # None =>
              KeptIndex(handles[h]) = handles[h].index /\ handles[h].epoch = epoch
  BY DEF TypeOK, Handle, KeptIndex

(* The lock is taken. *)
LEMMA LockBase ==
  ASSUME BaseInvariant, NEW h \in Handles, Lock(h)
  PROVE  BaseInvariant'
<1>1. /\ UNCHANGED <<setup, marker, subjects, durable, stale>>
      /\ calls[h].pc = "lock" /\ writer = None /\ readers = {}
      /\ epoch < MaxEpoch /\ epoch' = epoch + 1
  BY DEF Lock, LockFree, disk
<1>2. TypeOK /\ epoch \in Nat /\ epoch' \in 0 .. MaxEpoch
  BY <1>1, FileAssumption DEF BaseInvariant, TypeOK
<1>3. handles[h] \in Handle
      /\ KeptIndex(handles[h]) \in [RecordIds -> Location \cup {None}] \cup {None}
  BY <1>2, KeptFacts
<1>4. CASE /\ handles' = [handles EXCEPT ![h] = [index |-> KeptIndex(handles[h]),
                                                 epoch |-> epoch + 1]]
           /\ writer' = h
           /\ Goto(h, "decide")
           /\ UNCHANGED <<readers, acked>>
  <2>1. handles' \in [Handles -> Handle]
    <3>1. [index |-> KeptIndex(handles[h]), epoch |-> epoch + 1] \in Handle
      BY <1>2, <1>3 DEF Handle
    <3> QED
      BY <1>2, <1>4, <3>1 DEF TypeOK
  <2>2. /\ calls' \in [Handles -> Call]
        /\ calls'[h] = [calls[h] EXCEPT !.pc = "decide"]
        /\ \A g \in Handles : g # h => calls'[g] = calls[g]
    BY <1>4, MovesTo DEF BaseInvariant
  <2>3. calls'[h].pc = "decide" /\ calls'[h].write = calls[h].write
    BY <1>2, <2>2 DEF TypeOK, Call
  <2>4. TypeOK'
    BY <1>1, <1>2, <1>4, <2>1, <2>2 DEF TypeOK
  <2>5. LockHolds'
    BY <1>1, <1>4, <2>2, <2>3, FileAssumption
      DEF BaseInvariant, LockHolds, Writing
  <2>6. CallHolds'
    BY <1>1, <2>2, <2>3 DEF BaseInvariant, CallHolds, Valid
  <2>7. EpochHolds'
    <3>1. handles'[h].epoch = epoch + 1
      BY <1>2, <1>4 DEF TypeOK
    <3>2. \A g \in Handles : g # h => handles'[g] = handles[g]
      BY <1>2, <1>4 DEF TypeOK
    <3>3. \A g \in Handles : handles[g].epoch = None \/ handles[g].epoch \in Nat
      BY <1>2 DEF TypeOK, Handle
    <3>4. \A g \in Handles : handles[g].epoch # None => handles[g].epoch <= epoch
      BY DEF BaseInvariant, EpochHolds
    <3> QED
      BY <1>1, <1>2, <1>4, <3>1, <3>2, <3>3, <3>4, StoreAssumption
        DEF EpochHolds
  <2>8. MarkerHolds'
    BY <1>1, <2>2, <2>3 DEF BaseInvariant, MarkerHolds
  <2>9. DocumentsPlaced' /\ DurableHolds'
    BY <1>1, DocumentsSame
  <2>10. StagedHolds'
    BY <1>1, <2>2, <2>3, StagedSame
  <2> QED
    BY <2>4, <2>5, <2>6, <2>7, <2>8, <2>9, <2>10 DEF BaseInvariant
<1>5. CASE /\ "epoch" \in setup.faults
           /\ handles' = [handles EXCEPT ![h].index = KeptIndex(handles[h])]
           /\ Return(h, "backend")
  <2>1. /\ calls' \in [Handles -> Call] /\ calls'[h].pc = "idle"
        /\ \A g \in Handles : g # h => calls'[g] = calls[g]
        /\ writer' \in Handles \cup {None} /\ readers' \subseteq Handles
        /\ acked' \subseteq setup'.writes
        /\ writer' # None => writer' = writer
        /\ LockHolds' /\ CallHolds'
    BY <1>1, <1>5, ReturnFacts DEF Refusals
  <2>2. /\ handles' \in [Handles -> Handle]
        /\ \A g \in Handles : handles'[g].epoch = handles[g].epoch
    BY <1>2, <1>3, <1>5 DEF TypeOK, Handle
  <2>3. TypeOK'
    BY <1>1, <1>2, <2>1, <2>2 DEF TypeOK
  <2>4. EpochHolds'
    <3>1. \A g \in Handles : handles[g].epoch = None \/ handles[g].epoch \in Nat
      BY <1>2 DEF TypeOK, Handle
    <3>2. \A g \in Handles : handles[g].epoch # None => handles[g].epoch <= epoch
      BY DEF BaseInvariant, EpochHolds
    <3>3. \A g \in Handles : writer' # g
      BY <1>1, <2>1, FileAssumption
    <3> QED
      BY <1>1, <1>2, <2>2, <3>1, <3>2, <3>3 DEF EpochHolds
  <2>5. MarkerHolds'
    BY <1>1, <2>1 DEF BaseInvariant, MarkerHolds
  <2>6. DocumentsPlaced' /\ DurableHolds'
    BY <1>1, DocumentsSame
  <2>7. StagedHolds'
    BY <1>1, <2>1, StagedSame
  <2> QED
    BY <2>1, <2>3, <2>4, <2>5, <2>6, <2>7 DEF BaseInvariant
<1> QED
  BY <1>4, <1>5 DEF Lock

(* A step that returns and leaves the documents and the epochs alone. *)
LEMMA ReturnBase ==
  ASSUME BaseInvariant, NEW h \in Handles, NEW answer \in {"ok"} \cup Refusals,
         Return(h, answer),
         UNCHANGED <<setup, subjects, durable, stale, epoch>>,
         marker' \in BOOLEAN, marker => marker',
         handles' \in [Handles -> Handle],
         \A g \in Handles : handles'[g].epoch = handles[g].epoch
  PROVE  BaseInvariant'
<1>1. /\ calls' \in [Handles -> Call] /\ calls'[h].pc = "idle"
      /\ \A g \in Handles : g # h => calls'[g] = calls[g]
      /\ writer' \in Handles \cup {None} /\ readers' \subseteq Handles
      /\ acked' \subseteq setup'.writes
      /\ writer' # None => writer' = writer
      /\ LockHolds' /\ CallHolds'
  BY ReturnFacts
<1>2. TypeOK'
  BY <1>1 DEF BaseInvariant, TypeOK
<1>3. EpochHolds'
  BY <1>1, FileAssumption DEF BaseInvariant, EpochHolds
<1>4. MarkerHolds'
  BY <1>1 DEF BaseInvariant, MarkerHolds
<1>5. DocumentsPlaced' /\ DurableHolds'
  BY DocumentsSame
<1>6. StagedHolds'
  BY <1>1, StagedSame
<1> QED
  BY <1>1, <1>2, <1>3, <1>4, <1>5, <1>6 DEF BaseInvariant

(* The write is decided under the lock. *)
LEMMA DecideBase ==
  ASSUME BaseInvariant, NEW h \in Handles, DecideWrite(h)
  PROVE  BaseInvariant'
<1> DEFINE w == calls[h].write
           looks == marker /\ w.kind # "commit"
           s == SubjectOf(w)
<1>1. calls[h].pc = "decide" /\ UNCHANGED <<setup, marker, subjects, durable, stale, epoch>>
  BY DEF DecideWrite, disk
<1>2. /\ w \in setup.writes /\ w \in Write /\ Valid(w) /\ Later(w) /\ s \in Subjects
  BY <1>1, WriteUnderWay DEF BaseInvariant
<1>3. PICK index \in [RecordIds -> Location \cup {None}] :
        /\ handles' = IF looks THEN [handles EXCEPT ![h].index = index] ELSE handles
        /\ IF Decide(index, w).outcome = "write"
           THEN /\ calls' = [calls EXCEPT ![h].pc = "stage",
                                          ![h].stored = Decide(index, w).stored]
                /\ UNCHANGED <<writer, readers, acked>>
           ELSE Return(h, Decide(index, w).outcome)
  BY DEF DecideWrite
<1> DEFINE v == Decide(index, w)
<1>4. /\ v.outcome \in {"write", "ok"} \cup Refusals
      /\ v.outcome = "write" =>
           /\ v.stored = Written(subjects[s], w)
           /\ check(Expects(w), held_revision(subjects[s]))
  BY <1>2, DecideFacts DEF BaseInvariant, TypeOK
<1>5. /\ handles' \in [Handles -> Handle]
      /\ \A g \in Handles : handles'[g].epoch = handles[g].epoch
  BY <1>3 DEF BaseInvariant, TypeOK, Handle
<1> HIDE DEF v, looks
<1>6. CASE v.outcome = "write"
  <2>1. v.stored \in StoredSubject
    <3>1. subjects[s] \in StoredSubject \cup {None}
      BY <1>2 DEF BaseInvariant, TypeOK
    <3>2. Written(subjects[s], w) \in StoredSubject
      BY <1>2, <1>4, <1>6, <3>1, WrittenFacts
    <3> QED
      BY <1>4, <1>6, <3>2
  <2> DEFINE c == [calls[h] EXCEPT !.pc = "stage", !.stored = v.stored]
  <2>2. calls' = [calls EXCEPT ![h] = c] /\ UNCHANGED <<writer, readers, acked>>
    BY <1>3, <1>6 DEF v
  <2>3. c \in Call /\ c.pc = "stage" /\ c.write = w /\ c.stored = v.stored
    BY <2>1 DEF BaseInvariant, TypeOK, Call
  <2> HIDE DEF c, w
  <2>4. /\ calls' \in [Handles -> Call] /\ calls'[h] = c
        /\ \A g \in Handles : g # h => calls'[g] = calls[g]
    BY <2>2, <2>3 DEF BaseInvariant, TypeOK
  <2>5. TypeOK'
    BY <1>1, <1>5, <2>2, <2>4 DEF BaseInvariant, TypeOK
  <2>6. LockHolds'
    BY <1>1, <2>2, <2>3, <2>4 DEF BaseInvariant, LockHolds, Writing
  <2>7. CallHolds'
    BY <1>1, <1>2, <2>3, <2>4 DEF BaseInvariant, CallHolds, Valid
  <2>8. EpochHolds'
    BY <1>1, <1>5, <2>2 DEF BaseInvariant, EpochHolds
  <2>9. MarkerHolds'
    BY <1>1, <2>3, <2>4 DEF BaseInvariant, MarkerHolds
  <2>10. DocumentsPlaced' /\ DurableHolds'
    BY <1>1, DocumentsSame
  <2>11. StagedHolds'
    <3> SUFFICES ASSUME NEW g \in Handles, calls'[g].pc \in {"stage", "install"}
                 PROVE  /\ calls'[g].stored
                             = Written(subjects[SubjectOf(calls'[g].write)], calls'[g].write)
                        /\ check(Expects(calls'[g].write),
                                 held_revision(subjects[SubjectOf(calls'[g].write)]))
      BY <1>1 DEF StagedHolds
    <3>1. CASE g = h
      BY <3>1, <1>4, <1>6, <2>3, <2>4
    <3>2. CASE g # h
      BY <3>2, <2>4 DEF BaseInvariant, StagedHolds
    <3> QED
      BY <3>1, <3>2
  <2> QED
    BY <2>5, <2>6, <2>7, <2>8, <2>9, <2>10, <2>11 DEF BaseInvariant
<1>7. CASE v.outcome # "write"
  <2>1. Return(h, v.outcome) /\ v.outcome \in {"ok"} \cup Refusals
    BY <1>3, <1>4, <1>7 DEF v
  <2>2. marker' \in BOOLEAN /\ (marker => marker')
    BY <1>1 DEF BaseInvariant, TypeOK
  <2> QED
    BY <1>1, <1>5, <2>1, <2>2, ReturnBase
<1> QED
  BY <1>6, <1>7

(* The new document is staged. *)
LEMMA StageBase ==
  ASSUME BaseInvariant, NEW h \in Handles, Stage(h)
  PROVE  BaseInvariant'
<1>1. calls[h].pc = "stage" /\ UNCHANGED <<setup, subjects, durable, stale, epoch, handles>>
  BY DEF Stage
<1>2. CASE marker' = TRUE /\ Goto(h, "install") /\ UNCHANGED <<writer, readers, acked>>
  <2>1. /\ calls' \in [Handles -> Call]
        /\ calls'[h] = [calls[h] EXCEPT !.pc = "install"]
        /\ \A g \in Handles : g # h => calls'[g] = calls[g]
    BY <1>2, MovesTo DEF BaseInvariant
  <2>2. /\ calls'[h].pc = "install" /\ calls'[h].write = calls[h].write
        /\ calls'[h].stored = calls[h].stored
    BY <2>1 DEF BaseInvariant, TypeOK, Call
  <2>3. TypeOK'
    BY <1>1, <1>2, <2>1 DEF BaseInvariant, TypeOK
  <2>4. LockHolds'
    BY <1>1, <1>2, <2>1, <2>2 DEF BaseInvariant, LockHolds, Writing
  <2>5. CallHolds'
    BY <1>1, <2>1, <2>2 DEF BaseInvariant, CallHolds, Valid
  <2>6. EpochHolds'
    BY <1>1, <1>2 DEF BaseInvariant, EpochHolds
  <2>7. MarkerHolds'
    BY <1>1, <1>2, <2>1, <2>2 DEF BaseInvariant, MarkerHolds
  <2>8. DocumentsPlaced' /\ DurableHolds'
    BY <1>1, DocumentsSame
  <2>9. StagedHolds'
    BY <1>1, <2>1, <2>2, StagedSame
  <2> QED
    BY <2>3, <2>4, <2>5, <2>6, <2>7, <2>8, <2>9 DEF BaseInvariant
<1>3. CASE "marker" \in setup.faults /\ ~marker /\ marker' \in BOOLEAN /\ Return(h, "backend")
  BY <1>1, <1>3, ReturnBase DEF Refusals, BaseInvariant, TypeOK
<1>4. CASE "stage" \in setup.faults /\ marker' = TRUE /\ Return(h, "backend")
  BY <1>1, <1>4, ReturnBase DEF Refusals, BaseInvariant, TypeOK
<1> QED
  BY <1>2, <1>3, <1>4 DEF Stage

(* What continues a continuation continues the first. *)
LEMMA ContinuesTransitive ==
  ASSUME NEW x, NEW y \in StoredSubject \cup {None}, NEW z \in StoredSubject \cup {None},
         x \in StoredSubject \cup {None}, Continues(x, y), Continues(y, z)
  PROVE  Continues(x, z)
<1> SUFFICES ASSUME x # None PROVE Continues(x, z)
  BY DEF Continues
<1>1. /\ y # None /\ z # None
      /\ Keeps(x.records, y.records) /\ Keeps(y.records, z.records)
      /\ Keeps(x.observations, y.observations) /\ Keeps(y.observations, z.observations)
      /\ x.instance.revision <= y.instance.revision
      /\ y.instance.revision <= z.instance.revision
  BY DEF Continues
<1>2. /\ x.instance.revision \in Nat /\ y.instance.revision \in Nat
      /\ z.instance.revision \in Nat
  BY <1>1, StoredFacts
<1> QED
  BY <1>1, <1>2 DEF Continues, Keeps

(* The staged document is renamed into place. *)
LEMMA InstallBase ==
  ASSUME BaseInvariant, NEW h \in Handles, Install(h)
  PROVE  BaseInvariant'
<1> DEFINE w == calls[h].write
           s == SubjectOf(w)
<1>1. calls[h].pc = "install" /\ UNCHANGED <<setup, marker, durable, stale, epoch, handles>>
  BY DEF Install
<1>2. /\ w \in setup.writes /\ w \in Write /\ Valid(w) /\ Later(w) /\ s \in Subjects
      /\ TypeOK
  BY <1>1, WriteUnderWay DEF BaseInvariant
<1>3. CASE /\ subjects' = [subjects EXCEPT ![s] = calls[h].stored]
           /\ Goto(h, "sync")
           /\ UNCHANGED <<writer, readers, acked>>
  <2>1. /\ calls' \in [Handles -> Call]
        /\ calls'[h] = [calls[h] EXCEPT !.pc = "sync"]
        /\ \A g \in Handles : g # h => calls'[g] = calls[g]
    BY <1>3, MovesTo DEF BaseInvariant
  <2>2. calls'[h].pc = "sync" /\ calls'[h].write = w
    BY <2>1 DEF BaseInvariant, TypeOK, Call
  <2>3. /\ calls[h].stored = Written(subjects[s], w)
        /\ check(Expects(w), held_revision(subjects[s]))
    BY <1>1 DEF BaseInvariant, StagedHolds
  <2> DEFINE y == Written(subjects[s], w)
  <2>4. /\ subjects[s] \in StoredSubject \cup {None}
        /\ subjects \in [Subjects -> StoredSubject \cup {None}]
        /\ durable \in [Subjects -> StoredSubject \cup {None}]
    BY <1>2 DEF TypeOK
  <2>5. /\ y \in StoredSubject
        /\ Continues(subjects[s], y)
        /\ PlacedIn(subjects[s], s) => PlacedIn(y, s)
    BY <1>2, <2>3, <2>4, WrittenFacts, WrittenContinues
  <2> HIDE DEF y
  <2>6. /\ subjects' \in [Subjects -> StoredSubject \cup {None}]
        /\ subjects'[s] = y
        /\ \A t \in Subjects : t # s => subjects'[t] = subjects[t]
    BY <1>2, <1>3, <2>3, <2>4, <2>5 DEF y
  <2> HIDE DEF w, s
  <2>7. \A g \in Handles : g # h => calls[g].pc \notin Writing
    BY <1>1 DEF BaseInvariant, LockHolds, Writing
  <2>8. TypeOK'
    BY <1>1, <1>3, <2>1, <2>6 DEF BaseInvariant, TypeOK
  <2>9. LockHolds'
    BY <1>1, <1>3, <2>1, <2>2 DEF BaseInvariant, LockHolds, Writing
  <2>10. CallHolds'
    BY <1>1, <1>2, <2>1, <2>2 DEF BaseInvariant, CallHolds, Valid
  <2>11. EpochHolds'
    BY <1>1, <1>3 DEF BaseInvariant, EpochHolds
  <2>12. MarkerHolds'
    BY <1>1, <2>1, <2>2 DEF BaseInvariant, MarkerHolds
  <2>13. DocumentsPlaced'
    BY <1>1, <2>5, <2>6 DEF BaseInvariant, DocumentsPlaced
  <2>14. DurableHolds'
    <3> SUFFICES ASSUME NEW t \in Subjects PROVE Continues(durable[t], subjects'[t])
      BY <1>1 DEF DurableHolds
    <3>1. Continues(durable[t], subjects[t])
      BY DEF BaseInvariant, DurableHolds
    <3>2. durable[t] \in StoredSubject \cup {None} /\ subjects[t] \in StoredSubject \cup {None}
      BY <2>4
    <3>3. CASE t = s
      BY <3>1, <3>2, <3>3, <2>5, <2>6, ContinuesTransitive
    <3>4. CASE t # s
      BY <3>1, <3>4, <2>6
    <3> QED
      BY <3>3, <3>4
  <2>15. StagedHolds'
    BY <2>1, <2>2, <2>7 DEF StagedHolds, Writing
  <2> QED
    BY <2>8, <2>9, <2>10, <2>11, <2>12, <2>13, <2>14, <2>15 DEF BaseInvariant
<1>4. CASE "install" \in setup.faults /\ Return(h, "backend") /\ UNCHANGED subjects
  BY <1>1, <1>4, ReturnBase DEF Refusals, BaseInvariant, TypeOK
<1> QED
  BY <1>3, <1>4 DEF Install

(* A document continues itself. *)
LEMMA ContinuesReflexive ==
  ASSUME NEW x \in StoredSubject \cup {None}
  PROVE  Continues(x, x)
  BY StoredFacts DEF Continues, Keeps

(* A handle learns where its own entry is, and nothing else. *)
LEMMA LearnedFacts ==
  ASSUME NEW handle \in Handle, NEW w \in Write, Valid(w)
  PROVE  /\ Learned(handle, w) \in Handle
         /\ Learned(handle, w).epoch = handle.epoch
         /\ handle.index = None \/ w.kind = "commit" => Learned(handle, w) = handle
         /\ handle.index # None /\ w.kind # "commit" =>
              /\ handle.index \in [RecordIds -> Location \cup {None}]
              /\ IdOf(w) \in RecordIds
              /\ Learned(handle, w).index # None
              /\ Learned(handle, w).index =
                   [handle.index EXCEPT ![IdOf(w)] =
                      [subject |-> SubjectOf(w), observation |-> w.kind = "observe"]]
<1> DEFINE place == [subject |-> SubjectOf(w), observation |-> w.kind = "observe"]
           index == [handle.index EXCEPT ![IdOf(w)] = place]
<1>1. /\ SubjectOf(w) \in Subjects /\ w.kind \in {"commit", "commit_recorded", "observe"}
      /\ w.kind # "commit" => IdOf(w) \in RecordIds
  BY WriteFacts, ValidFacts DEF IdOf
<1>2. CASE w.kind = "commit" \/ handle.index = None
  BY <1>1, <1>2 DEF Learned, remember
<1>3. CASE w.kind # "commit" /\ handle.index # None
  <2>1. Learned(handle, w) = [handle EXCEPT !.index = index]
    <3>1. CASE w.kind = "commit_recorded"
      BY <1>3, <3>1 DEF Learned, remember, IdOf
    <3>2. CASE w.kind = "observe"
      BY <1>3, <3>2 DEF Learned, remember, IdOf
    <3> QED
      BY <1>1, <1>3, <3>1, <3>2
  <2>2. handle.index \in [RecordIds -> Location \cup {None}]
    BY <1>3 DEF Handle
  <2>3. place \in Location
    BY <1>1 DEF Location
  <2>4. index \in [RecordIds -> Location \cup {None}] /\ index # None
    BY <2>2, <2>3, FileAssumption
  <2> HIDE DEF index, place
  <2>5. /\ Learned(handle, w) \in Handle
        /\ Learned(handle, w).epoch = handle.epoch
        /\ Learned(handle, w).index = index
    BY <2>1, <2>4 DEF Handle
  <2> QED
    BY <1>1, <1>3, <2>2, <2>4, <2>5 DEF index, place
<1> QED
  BY <1>2, <1>3

(* The directory is synced and the write is answered. *)
LEMMA SyncBase ==
  ASSUME BaseInvariant, NEW h \in Handles, Sync(h)
  PROVE  BaseInvariant'
<1> DEFINE w == calls[h].write
           entity == Entity[SubjectOf(w)]
<1>1. calls[h].pc = "sync" /\ UNCHANGED <<setup, marker, subjects, stale, epoch>>
  BY DEF Sync
<1>2. w \in Write /\ Valid(w) /\ TypeOK /\ handles[h] \in Handle
  BY <1>1, WriteUnderWay DEF BaseInvariant, TypeOK
<1>3. CASE /\ durable' = sync_directory(entity)
           /\ handles' = [handles EXCEPT ![h] = Learned(@, w)]
           /\ Return(h, "ok")
  <2>1. /\ calls' \in [Handles -> Call] /\ calls'[h].pc = "idle"
        /\ \A g \in Handles : g # h => calls'[g] = calls[g]
        /\ writer' \in Handles \cup {None} /\ readers' \subseteq Handles
        /\ acked' \subseteq setup'.writes
        /\ writer' # None => writer' = writer
        /\ LockHolds' /\ CallHolds'
    BY <1>1, <1>3, ReturnFacts
  <2>2. Learned(handles[h], w) \in Handle /\ Learned(handles[h], w).epoch = handles[h].epoch
    BY <1>2, LearnedFacts
  <2>3. /\ handles' \in [Handles -> Handle]
        /\ \A g \in Handles : handles'[g].epoch = handles[g].epoch
    BY <1>2, <1>3, <2>2 DEF TypeOK
  <2>4. /\ durable' \in [Subjects -> StoredSubject \cup {None}]
        /\ \A s \in Subjects : durable'[s] = subjects[s] \/ durable'[s] = durable[s]
    BY <1>2, <1>3 DEF sync_directory, TypeOK
  <2>5. TypeOK'
    BY <1>1, <2>1, <2>3, <2>4 DEF BaseInvariant, TypeOK
  <2>6. EpochHolds'
    BY <1>1, <2>1, <2>3, FileAssumption DEF BaseInvariant, EpochHolds
  <2>7. MarkerHolds'
    BY <1>1, <2>1 DEF BaseInvariant, MarkerHolds
  <2>8. DocumentsPlaced'
    BY <1>1, <2>4 DEF BaseInvariant, DocumentsPlaced
  <2>9. DurableHolds'
    <3> SUFFICES ASSUME NEW s \in Subjects PROVE Continues(durable'[s], subjects[s])
      BY <1>1 DEF DurableHolds
    <3>1. Continues(durable[s], subjects[s]) /\ subjects[s] \in StoredSubject \cup {None}
      BY DEF BaseInvariant, DurableHolds, TypeOK
    <3>2. Continues(subjects[s], subjects[s])
      BY <3>1, ContinuesReflexive
    <3> QED
      BY <3>1, <3>2, <2>4
  <2>10. StagedHolds'
    BY <1>1, <2>1, StagedSame
  <2> QED
    BY <2>1, <2>5, <2>6, <2>7, <2>8, <2>9, <2>10 DEF BaseInvariant
<1>4. CASE /\ "directory" \in setup.faults
           /\ Return(h, "backend")
           /\ UNCHANGED <<durable, handles>>
  BY <1>1, <1>4, ReturnBase DEF Refusals, BaseInvariant, TypeOK
<1> QED
  BY <1>3, <1>4 DEF Sync

(* A reader opens the store. *)
LEMMA AcquireBase ==
  ASSUME BaseInvariant, NEW h \in Handles, Acquire(h)
  PROVE  BaseInvariant'
<1> DEFINE c == IF ~marker THEN [Idle EXCEPT !.answer = "ok"]
                ELSE IF epoch = 0 THEN [Idle EXCEPT !.answer = "backend"]
                ELSE [Idle EXCEPT !.pc = "acquire", !.todo = Here \cup stale]
<1>1. /\ calls[h].pc = "idle" /\ calls' = [calls EXCEPT ![h] = c]
      /\ UNCHANGED <<setup, marker, subjects, durable, stale, epoch, writer, handles, acked>>
      /\ IF marker /\ epoch > 0
         THEN writer = None /\ readers' = readers \cup {h}
         ELSE UNCHANGED readers
  BY DEF Acquire, disk
<1>2. epoch \in Nat /\ stale \subseteq Subjects
  BY FileAssumption DEF BaseInvariant, TypeOK
<1>3. /\ c \in Call /\ c.write = None
      /\ c.pc = IF marker /\ epoch > 0 THEN "acquire" ELSE "idle"
  <2>1. CASE ~marker
    BY <2>1, IdleCall
  <2>2. CASE marker /\ epoch = 0
    BY <2>2, IdleCall DEF Refusals
  <2>3. CASE marker /\ epoch # 0
    <3>1. Here \cup stale \subseteq Subjects
      BY <1>2 DEF Here
    <3>2. c = [Idle EXCEPT !.pc = "acquire", !.todo = Here \cup stale]
      BY <2>3
    <3>3. c \in Call /\ c.write = None /\ c.pc = "acquire"
      <4> HIDE DEF c
      <4> QED
        BY <3>1, <3>2 DEF Idle, Call
    <3> QED
      BY <1>2, <2>3, <3>3
  <2> QED
    BY <2>1, <2>2, <2>3
<1> HIDE DEF c
<1>4. /\ calls' \in [Handles -> Call] /\ calls'[h] = c
      /\ \A g \in Handles : g # h => calls'[g] = calls[g]
  BY <1>1, <1>3 DEF BaseInvariant, TypeOK
<1>5. TypeOK'
  BY <1>1, <1>4 DEF BaseInvariant, TypeOK
<1>6. LockHolds'
  BY <1>1, <1>3, <1>4 DEF BaseInvariant, LockHolds, Writing
<1>7. CallHolds'
  BY <1>1, <1>3, <1>4 DEF BaseInvariant, CallHolds, Valid
<1>8. EpochHolds' /\ MarkerHolds'
  BY <1>1, <1>3, <1>4 DEF BaseInvariant, EpochHolds, MarkerHolds
<1>9. DocumentsPlaced' /\ DurableHolds'
  BY <1>1, DocumentsSame
<1>10. StagedHolds'
  BY <1>1, <1>3, <1>4, StagedSame
<1> QED
  BY <1>5, <1>6, <1>7, <1>8, <1>9, <1>10 DEF BaseInvariant

(* A reader takes one subject. *)
LEMMA AcquireSubjectBase ==
  ASSUME BaseInvariant, NEW h \in Handles, NEW s \in Subjects, AcquireSubject(h, s)
  PROVE  BaseInvariant'
<1>1. /\ calls[h].pc = "acquire"
      /\ UNCHANGED <<setup, marker, subjects, durable, stale, epoch, handles>>
  BY DEF AcquireSubject, disk
<1>2. CASE s \in stale
  BY <1>1, <1>2, ReturnBase DEF AcquireSubject, Refusals, BaseInvariant, TypeOK
<1>3. CASE s \notin stale
  <2> DEFINE c == [calls[h] EXCEPT !.todo = @ \ {s}, !.taken[s] = subjects[s]]
  <2>1. calls' = [calls EXCEPT ![h] = c] /\ UNCHANGED <<writer, readers, acked>>
    BY <1>3 DEF AcquireSubject
  <2>2. /\ calls[h] \in Call /\ calls[h].todo \subseteq Subjects
        /\ [calls[h].taken EXCEPT ![s] = subjects[s]]
             \in [Subjects -> StoredSubject \cup {None}]
    BY DEF BaseInvariant, TypeOK, Call
  <2>3. c \in Call /\ c.pc = "acquire" /\ c.write = calls[h].write
    BY <1>1, <2>2 DEF Call
  <2> HIDE DEF c
  <2>4. /\ calls' \in [Handles -> Call] /\ calls'[h] = c
        /\ \A g \in Handles : g # h => calls'[g] = calls[g]
    BY <2>1, <2>3 DEF BaseInvariant, TypeOK
  <2>5. TypeOK'
    BY <1>1, <2>1, <2>4 DEF BaseInvariant, TypeOK
  <2>6. LockHolds'
    BY <1>1, <2>1, <2>3, <2>4 DEF BaseInvariant, LockHolds, Writing
  <2>7. CallHolds'
    BY <1>1, <2>3, <2>4 DEF BaseInvariant, CallHolds, Valid
  <2>8. EpochHolds' /\ MarkerHolds'
    BY <1>1, <2>1, <2>3, <2>4 DEF BaseInvariant, EpochHolds, MarkerHolds
  <2>9. DocumentsPlaced' /\ DurableHolds'
    BY <1>1, DocumentsSame
  <2>10. StagedHolds'
    BY <1>1, <2>3, <2>4, StagedSame
  <2> QED
    BY <2>5, <2>6, <2>7, <2>8, <2>9, <2>10 DEF BaseInvariant
<1> QED
  BY <1>2, <1>3

(* A reader has taken them all. *)
LEMMA AcquiredBase ==
  ASSUME BaseInvariant, NEW h \in Handles, Acquired(h)
  PROVE  BaseInvariant'
  BY ReturnBase DEF Acquired, disk, BaseInvariant, TypeOK

(* A handle is cloned. *)
LEMMA CloneBase ==
  ASSUME BaseInvariant, NEW h \in Handles, NEW g \in Handles, Clone(h, g)
  PROVE  BaseInvariant'
<1>1. /\ calls[h].pc = "idle" /\ calls[g].pc = "idle" /\ h # g
      /\ handles' = [handles EXCEPT ![g] = handles[h]]
      /\ UNCHANGED <<setup, marker, subjects, durable, stale, epoch, writer, readers,
                     calls, acked>>
  BY DEF Clone, disk, lock
<1>2. TypeOK'
  BY <1>1 DEF BaseInvariant, TypeOK
<1>3. LockHolds' /\ CallHolds'
  BY <1>1 DEF BaseInvariant, LockHolds, CallHolds, Valid
<1>4. EpochHolds'
  <2>1. /\ handles'[g] = handles[h]
        /\ \A f \in Handles : f # g => handles'[f] = handles[f]
    BY <1>1 DEF BaseInvariant, TypeOK
  <2>2. writer # h /\ writer # g
    BY <1>1 DEF BaseInvariant, LockHolds, Writing
  <2> QED
    BY <1>1, <2>1, <2>2 DEF BaseInvariant, EpochHolds
<1>5. MarkerHolds'
  BY <1>1 DEF BaseInvariant, MarkerHolds
<1>6. DocumentsPlaced' /\ DurableHolds'
  BY <1>1, DocumentsSame
<1>7. StagedHolds'
  BY <1>1, StagedSame
<1> QED
  BY <1>2, <1>3, <1>4, <1>5, <1>6, <1>7 DEF BaseInvariant

(* A process stops. *)
LEMMA CrashBase ==
  ASSUME BaseInvariant, NEW h \in Handles, Crash(h)
  PROVE  BaseInvariant'
<1>1. /\ handles' = [handles EXCEPT ![h] = Opened]
      /\ calls' = [calls EXCEPT ![h] = Idle]
      /\ writer' = IF writer = h THEN None ELSE writer
      /\ readers' = readers \ {h}
      /\ stale' = stale \cup Abandoned(h)
      /\ UNCHANGED <<setup, marker, subjects, durable, epoch, acked>>
  BY DEF Crash
<1>2. Idle \in Call /\ Idle.pc = "idle" /\ Idle.write = None
  BY IdleCall
<1>3. /\ calls' \in [Handles -> Call] /\ calls'[h] = Idle
      /\ \A g \in Handles : g # h => calls'[g] = calls[g]
  BY <1>1, <1>2 DEF BaseInvariant, TypeOK
<1>4. /\ handles' \in [Handles -> Handle] /\ handles'[h] = Opened
      /\ \A g \in Handles : g # h => handles'[g] = handles[g]
  <2>1. Opened \in Handle
    BY DEF Opened, Handle
  <2> QED
    BY <1>1, <2>1 DEF BaseInvariant, TypeOK
<1>5. Abandoned(h) \subseteq Subjects
  BY WriteUnderWay DEF Abandoned, BaseInvariant
<1>6. TypeOK'
  BY <1>1, <1>3, <1>4, <1>5 DEF BaseInvariant, TypeOK
<1>7. LockHolds'
  <2>1. ASSUME NEW g \in Handles
        PROVE  /\ (calls'[g].pc \in Writing) <=> (writer' = g)
               /\ (calls'[g].pc = "acquire") <=> (g \in readers')
    <3>1. /\ (calls[g].pc \in Writing) <=> (writer = g)
          /\ (calls[g].pc = "acquire") <=> (g \in readers)
      BY DEF BaseInvariant, LockHolds
    <3>2. CASE g = h
      BY <3>2, <1>1, <1>2, <1>3, FileAssumption DEF Writing
    <3>3. CASE g # h
      BY <3>1, <3>3, <1>1, <1>3, FileAssumption
    <3> QED
      BY <3>2, <3>3
  <2>2. writer' # None => readers' = {}
    BY <1>1 DEF BaseInvariant, LockHolds
  <2> QED
    BY <2>1, <2>2 DEF LockHolds
<1>8. CallHolds'
  BY <1>1, <1>2, <1>3 DEF BaseInvariant, CallHolds, Valid
<1>9. EpochHolds'
  <2>1. Opened.epoch = None /\ epoch \in Nat
    BY FileAssumption DEF Opened, BaseInvariant, TypeOK
  <2>2. writer' # h /\ \A g \in Handles : g # h /\ writer' = g => writer = g
    BY <1>1, FileAssumption
  <2> QED
    BY <1>1, <1>4, <2>1, <2>2, StoreAssumption DEF BaseInvariant, EpochHolds
<1>10. MarkerHolds'
  BY <1>1, <1>2, <1>3 DEF BaseInvariant, MarkerHolds
<1>11. DocumentsPlaced' /\ DurableHolds'
  BY <1>1, DocumentsSame
<1>12. StagedHolds'
  BY <1>1, <1>2, <1>3, StagedSame
<1> QED
  BY <1>6, <1>7, <1>8, <1>9, <1>10, <1>11, <1>12 DEF BaseInvariant

(* What a power cut leaves of each document. *)
LEMMA CutFacts ==
  ASSUME BaseInvariant, PowerCut
  PROVE  /\ UNCHANGED <<setup, marker, epoch, acked>>
         /\ subjects' \in [Subjects -> StoredSubject \cup {None}]
         /\ durable' = subjects'
         /\ \A s \in Subjects : subjects'[s] \in {None, durable[s], subjects[s]}
         /\ \A h \in Handles : handles'[h] = Opened /\ calls'[h] = Idle
<1>1. PICK lost \in SUBSET Subjects, gone \in SUBSET {Entity[s] : s \in Subjects} :
        subjects' = [s \in Subjects |-> IF Entity[s] \in gone THEN None
                                        ELSE IF s \in lost THEN durable[s]
                                        ELSE subjects[s]]
  BY DEF PowerCut
<1>2. \A s \in Subjects : subjects'[s] \in {None, durable[s], subjects[s]}
  BY <1>1
<1>3. subjects' \in [Subjects -> StoredSubject \cup {None}]
  BY <1>1 DEF BaseInvariant, TypeOK
<1> QED
  BY <1>2, <1>3 DEF PowerCut

(* The power is cut. *)
LEMMA CutBase ==
  ASSUME BaseInvariant, PowerCut
  PROVE  BaseInvariant'
<1>1. /\ UNCHANGED <<setup, marker, epoch, acked>>
      /\ subjects' \in [Subjects -> StoredSubject \cup {None}]
      /\ durable' = subjects'
      /\ \A s \in Subjects : subjects'[s] \in {None, durable[s], subjects[s]}
      /\ \A h \in Handles : handles'[h] = Opened /\ calls'[h] = Idle
  BY CutFacts
<1>2. /\ writer' = None /\ readers' = {}
      /\ handles' = [h \in Handles |-> Opened]
      /\ calls' = [h \in Handles |-> Idle]
      /\ stale' = stale \cup UNION {Abandoned(h) : h \in Handles}
  BY DEF PowerCut
<1>3. Idle \in Call /\ Idle.pc = "idle" /\ Idle.write = None
  BY IdleCall
<1>4. Opened \in Handle /\ Opened.epoch = None
  BY DEF Opened, Handle
<1>5. stale' \subseteq Subjects
  <2>1. \A h \in Handles : Abandoned(h) \subseteq Subjects
    BY WriteUnderWay DEF Abandoned, BaseInvariant
  <2> QED
    BY <1>2, <2>1 DEF BaseInvariant, TypeOK
<1>6. TypeOK'
  BY <1>1, <1>2, <1>3, <1>4, <1>5 DEF BaseInvariant, TypeOK
<1>7. LockHolds' /\ CallHolds' /\ StagedHolds'
  BY <1>1, <1>2, <1>3, FileAssumption
    DEF LockHolds, CallHolds, StagedHolds, Writing
<1>8. EpochHolds'
  BY <1>1, <1>2, <1>4, FileAssumption DEF EpochHolds
<1>9. MarkerHolds'
  <2>1. ~marker => \A s \in Subjects : subjects[s] = None /\ durable[s] = None
    BY DEF BaseInvariant, MarkerHolds, DurableHolds, Continues
  <2> QED
    BY <1>1, <1>3, <2>1 DEF MarkerHolds
<1>10. DocumentsPlaced'
  <2>1. \A s \in Subjects : PlacedIn(None, s)
    BY DEF PlacedIn
  <2> QED
    BY <1>1, <2>1 DEF BaseInvariant, DocumentsPlaced
<1>11. DurableHolds'
  BY <1>1, ContinuesReflexive DEF DurableHolds
<1> QED
  BY <1>6, <1>7, <1>8, <1>9, <1>10, <1>11 DEF BaseInvariant

(* Nothing moves. *)
LEMMA StutterBase ==
  ASSUME BaseInvariant, UNCHANGED vars
  PROVE  BaseInvariant'
<1>1. UNCHANGED <<setup, marker, subjects, durable, stale, epoch, writer, readers,
                  handles, calls, acked>>
  BY DEF vars
<1>2. TypeOK' /\ LockHolds' /\ CallHolds' /\ EpochHolds' /\ MarkerHolds'
  BY <1>1 DEF BaseInvariant, TypeOK, LockHolds, CallHolds, EpochHolds,
    MarkerHolds, Valid
<1>3. DocumentsPlaced' /\ DurableHolds'
  BY <1>1, DocumentsSame
<1>4. StagedHolds'
  BY <1>1, StagedSame
<1> QED
  BY <1>2, <1>3, <1>4 DEF BaseInvariant

(* Every step keeps the base of the invariant. *)
LEMMA NextBase == BaseInvariant /\ [Next]_vars => BaseInvariant'
<1> SUFFICES ASSUME BaseInvariant, [Next]_vars PROVE BaseInvariant'
  OBVIOUS
<1>1. CASE UNCHANGED vars
  BY <1>1, StutterBase
<1>2. CASE PowerCut
  BY <1>2, CutBase
<1>3. ASSUME NEW h \in Handles, NEW w \in setup.writes, Begin(h, w)
      PROVE  BaseInvariant'
  BY <1>3, BeginBase
<1>4. ASSUME NEW h \in Handles, Step(h)
      PROVE  BaseInvariant'
  BY <1>4, LockBase, DecideBase, StageBase, InstallBase, SyncBase,
     AcquireSubjectBase, AcquiredBase DEF Step
<1>5. ASSUME NEW h \in Handles, Acquire(h)
      PROVE  BaseInvariant'
  BY <1>5, AcquireBase
<1>6. ASSUME NEW h \in Handles, NEW g \in Handles, Clone(h, g)
      PROVE  BaseInvariant'
  BY <1>6, CloneBase
<1>7. ASSUME NEW h \in Handles, Crash(h)
      PROVE  BaseInvariant'
  BY <1>7, CrashBase
<1> QED
  BY <1>1, <1>2, <1>3, <1>4, <1>5, <1>6, <1>7 DEF Next

(* Documents, staged files, locks, calls and the synced state agree with each *)
(* other in every reachable state (FileStore's write path and its recovery). *)
THEOREM Inductive == Spec => []BaseInvariant
<1>1. Init => BaseInvariant
  BY InitBase
<1>2. BaseInvariant /\ [Next]_vars => BaseInvariant'
  BY NextBase
<1> QED
  BY <1>1, <1>2, PTL DEF Spec

(* Every variable of the file provider keeps its type. *)
THEOREM TypeCorrect == Spec => []TypeOK
<1>1. BaseInvariant => TypeOK
  BY DEF BaseInvariant
<1> QED
  BY <1>1, Inductive, PTL

-----------------------------------------------------------------------------
(* Acquisitions. *)

(* A step of a write touches its own call only, and acquires nothing. *)
LEMMA WriteCalls ==
  ASSUME BaseInvariant, NEW h \in Handles,
         Lock(h) \/ DecideWrite(h) \/ Stage(h) \/ Install(h) \/ Sync(h)
  PROVE  /\ calls'[h].pc # "acquire"
         /\ \A g \in Handles : g # h => calls'[g] = calls[g]
<1>1. calls \in [Handles -> Call] /\ TypeOK
  BY DEF BaseInvariant, TypeOK
<1>2. \A pc \in {"decide", "install", "sync"} : Goto(h, pc) =>
        /\ calls'[h].pc # "acquire"
        /\ \A g \in Handles : g # h => calls'[g] = calls[g]
  BY <1>1 DEF Goto, Call
<1>3. \A answer : Return(h, answer) =>
        /\ calls'[h].pc # "acquire"
        /\ \A g \in Handles : g # h => calls'[g] = calls[g]
  BY <1>1 DEF Return, Idle
<1>4. CASE Lock(h)
  BY <1>2, <1>3, <1>4 DEF Lock
<1>5. CASE DecideWrite(h)
  <2>1. PICK index \in [RecordIds -> Location \cup {None}] :
          \/ calls' = [calls EXCEPT ![h].pc = "stage",
                         ![h].stored = Decide(index, calls[h].write).stored]
          \/ Return(h, Decide(index, calls[h].write).outcome)
    BY <1>5 DEF DecideWrite
  <2>2. CASE calls' = [calls EXCEPT ![h].pc = "stage",
                         ![h].stored = Decide(index, calls[h].write).stored]
    BY <1>1, <2>2 DEF Call
  <2> QED
    BY <1>3, <2>1, <2>2
<1>6. CASE Stage(h)
  BY <1>2, <1>3, <1>6 DEF Stage
<1>7. CASE Install(h)
  BY <1>2, <1>3, <1>7 DEF Install
<1>8. CASE Sync(h)
  BY <1>3, <1>8 DEF Sync
<1> QED
  BY <1>4, <1>5, <1>6, <1>7, <1>8

(* A step that neither changes a document nor a reader. *)
LEMMA SnapshotSame ==
  ASSUME AcquisitionIsSnapshot, subjects' = subjects,
         \A g \in Handles : calls'[g].pc = "acquire" => calls'[g] = calls[g]
  PROVE  AcquisitionIsSnapshot'
  BY DEF AcquisitionIsSnapshot

(* Every step keeps what a reader acquired a snapshot. *)
LEMMA SnapshotKept ==
  BaseInvariant /\ AcquisitionIsSnapshot /\ [Next]_vars => AcquisitionIsSnapshot'
<1> SUFFICES ASSUME BaseInvariant, AcquisitionIsSnapshot, [Next]_vars
             PROVE  AcquisitionIsSnapshot'
  OBVIOUS
<1>1. CASE UNCHANGED vars
  BY <1>1, SnapshotSame DEF vars
<1>2. CASE PowerCut
  BY <1>2, CutFacts, IdleCall DEF AcquisitionIsSnapshot
<1>3. ASSUME NEW h \in Handles, NEW w \in setup.writes, Begin(h, w)
      PROVE  AcquisitionIsSnapshot'
  <2>1. /\ subjects' = subjects
        /\ calls' = [calls EXCEPT ![h] = IF Valid(w)
                       THEN [Idle EXCEPT !.pc = "lock", !.write = w]
                       ELSE [Idle EXCEPT !.answer = "backend"]]
    BY <1>3 DEF Begin, disk
  <2>2. \A g \in Handles : calls'[g].pc = "acquire" => calls'[g] = calls[g]
    BY <2>1 DEF BaseInvariant, TypeOK, Idle
  <2> QED
    BY <2>1, <2>2, SnapshotSame
<1>4. ASSUME NEW h \in Handles,
             Lock(h) \/ DecideWrite(h) \/ Stage(h) \/ Install(h) \/ Sync(h)
      PROVE  AcquisitionIsSnapshot'
  <2>1. \A g \in Handles : calls'[g].pc = "acquire" => calls'[g] = calls[g]
    BY <1>4, WriteCalls
  <2>2. CASE subjects' = subjects
    BY <2>1, <2>2, SnapshotSame
  <2>3. CASE subjects' # subjects
    <3>1. calls[h].pc = "install"
      BY <1>4, <2>3 DEF Lock, DecideWrite, Stage, Install, Sync, disk
    <3>2. \A g \in Handles : calls[g].pc # "acquire"
      BY <3>1, FileAssumption DEF BaseInvariant, LockHolds, Writing
    <3> QED
      BY <2>1, <3>2 DEF AcquisitionIsSnapshot
  <2> QED
    BY <2>2, <2>3
<1>5. ASSUME NEW h \in Handles, Acquire(h)
      PROVE  AcquisitionIsSnapshot'
  <2> DEFINE c == IF ~marker THEN [Idle EXCEPT !.answer = "ok"]
                  ELSE IF epoch = 0 THEN [Idle EXCEPT !.answer = "backend"]
                  ELSE [Idle EXCEPT !.pc = "acquire", !.todo = Here \cup stale]
  <2>1. subjects' = subjects /\ calls' = [calls EXCEPT ![h] = c]
    BY <1>5 DEF Acquire, disk
  <2>2. c.pc = "acquire" =>
          /\ c.todo = Here \cup stale
          /\ \A s \in Subjects : c.taken[s] = None
    BY DEF Idle
  <2> HIDE DEF c
  <2>3. calls'[h] = c /\ \A g \in Handles : g # h => calls'[g] = calls[g]
    BY <2>1 DEF BaseInvariant, TypeOK
  <2>4. \A s \in Subjects : s \notin Here => subjects[s] = None
    BY DEF Here
  <2>5. ASSUME NEW g \in Handles, calls'[g].pc = "acquire", NEW s \in Subjects
        PROVE  IF s \in calls'[g].todo THEN calls'[g].taken[s] = None
               ELSE calls'[g].taken[s] = subjects'[s]
    <3>1. CASE g = h
      BY <3>1, <2>1, <2>2, <2>3, <2>4, <2>5
    <3>2. CASE g # h
      BY <3>2, <2>1, <2>3, <2>5 DEF AcquisitionIsSnapshot
    <3> QED
      BY <3>1, <3>2
  <2> QED
    BY <2>5 DEF AcquisitionIsSnapshot
<1>6. ASSUME NEW h \in Handles, NEW t \in Subjects, AcquireSubject(h, t)
      PROVE  AcquisitionIsSnapshot'
  <2>1. CASE t \in stale
    BY <1>6, <2>1, SnapshotSame
       DEF AcquireSubject, Return, disk, BaseInvariant, TypeOK, Idle
  <2>2. CASE t \notin stale
    <3> DEFINE c == [calls[h] EXCEPT !.todo = @ \ {t}, !.taken[t] = subjects[t]]
    <3>1. subjects' = subjects /\ calls' = [calls EXCEPT ![h] = c] /\ calls[h].pc = "acquire"
      BY <1>6, <2>2 DEF AcquireSubject, disk
    <3>2. /\ calls[h] \in Call
          /\ calls[h].taken \in [Subjects -> StoredSubject \cup {None}]
      BY DEF BaseInvariant, TypeOK, Call
    <3>3. /\ c.todo = calls[h].todo \ {t}
          /\ c.taken = [calls[h].taken EXCEPT ![t] = subjects[t]]
      BY <3>2 DEF Call
    <3> HIDE DEF c
    <3>4. calls'[h] = c /\ \A g \in Handles : g # h => calls'[g] = calls[g]
      BY <3>1 DEF BaseInvariant, TypeOK
    <3>5. ASSUME NEW g \in Handles, calls'[g].pc = "acquire", NEW s \in Subjects
          PROVE  IF s \in calls'[g].todo THEN calls'[g].taken[s] = None
                 ELSE calls'[g].taken[s] = subjects'[s]
      <4>1. CASE g = h
        <5>1. IF s \in calls[h].todo THEN calls[h].taken[s] = None
              ELSE calls[h].taken[s] = subjects[s]
          BY <3>1 DEF AcquisitionIsSnapshot
        <5> QED
          BY <4>1, <5>1, <3>1, <3>2, <3>3, <3>4
      <4>2. CASE g # h
        BY <4>2, <3>1, <3>4, <3>5 DEF AcquisitionIsSnapshot
      <4> QED
        BY <4>1, <4>2
    <3> QED
      BY <3>5 DEF AcquisitionIsSnapshot
  <2> QED
    BY <2>1, <2>2
<1>7. ASSUME NEW h \in Handles, Acquired(h)
      PROVE  AcquisitionIsSnapshot'
  BY <1>7, SnapshotSame DEF Acquired, Return, disk, BaseInvariant, TypeOK, Idle
<1>8. ASSUME NEW h \in Handles, NEW g \in Handles, Clone(h, g)
      PROVE  AcquisitionIsSnapshot'
  BY <1>8, SnapshotSame DEF Clone, disk
<1>9. ASSUME NEW h \in Handles, Crash(h)
      PROVE  AcquisitionIsSnapshot'
  BY <1>9, SnapshotSame DEF Crash, BaseInvariant, TypeOK, Idle
<1> QED
  BY <1>1, <1>2, <1>3, <1>4, <1>5, <1>6, <1>7, <1>8, <1>9 DEF Next, Step

(* An acquisition under a shared lock takes every document from one moment  *)
(* of the store, whatever writers, failures and other acquisitions do.      *)
THEOREM Snapshot == Spec => []AcquisitionIsSnapshot
<1>1. Init => AcquisitionIsSnapshot
  <2>1. Init => \A h \in Handles : calls[h] = Idle
    BY DEF Init
  <2> QED
    BY <2>1, IdleCall DEF AcquisitionIsSnapshot
<1>2. BaseInvariant /\ AcquisitionIsSnapshot /\ [Next]_vars => AcquisitionIsSnapshot'
  BY SnapshotKept
<1> QED
  BY <1>1, <1>2, Inductive, PTL DEF Spec

-----------------------------------------------------------------------------
(* Acknowledged writes. *)

(* The setup is fixed. *)
LEMMA SetupSame == [Next]_vars => setup' = setup
  BY DEF Next, Step, vars, Begin, Lock, DecideWrite, Stage, Install, Sync,
    Acquire,
         AcquireSubject, Acquired, Clone, Crash, PowerCut, disk

(* A document that continues another holds what that one held. *)
LEMMA KeptOn ==
  ASSUME NEW x \in StoredSubject \cup {None}, NEW y \in StoredSubject \cup {None},
         NEW w \in Write, Continues(x, y), Kept(x, w)
  PROVE  Kept(y, w)
<1>1. /\ x # None /\ y # None
      /\ x.instance.revision <= y.instance.revision
      /\ Keeps(x.records, y.records) /\ Keeps(x.observations, y.observations)
  BY DEF Kept, Continues
<1>2. w.kind = "commit" => w.document.instance.revision <= y.instance.revision
  <2>1. w.kind = "commit" => w.document.instance.revision \in Nat
    BY WriteFacts, InstanceFacts
  <2>2. x.instance.revision \in Nat /\ y.instance.revision \in Nat
    BY <1>1, StoredFacts
  <2> QED
    BY <1>1, <2>1, <2>2 DEF Kept
<1>3. w.kind = "commit_recorded" => w.document.envelope \in ToSet(y.records)
  BY <1>1 DEF Kept, Keeps, ToSet
<1>4. w.kind = "observe" => w.document \in ToSet(y.observations)
  BY <1>1 DEF Kept, Keeps, ToSet
<1> QED
  BY <1>1, <1>2, <1>3, <1>4 DEF Kept

(* A step that neither installs, syncs nor acknowledges. *)
LEMMA KeptQuietly ==
  ASSUME BaseInvariant, SettledHolds, KeptHolds,
         UNCHANGED <<setup, subjects, durable, acked>>,
         \A g \in Handles : calls'[g].pc = "sync" => calls'[g] = calls[g],
         setup.power_cuts => \A g \in Handles : calls[g].pc = "sync" => calls'[g] = calls[g]
  PROVE  SettledHolds' /\ KeptHolds'
<1>1. SettledHolds'
  BY DEF SettledHolds
<1>2. KeptHolds'
  BY DEF KeptHolds
<1> QED
  BY <1>1, <1>2

(* An error, or an answer to no write. *)
LEMMA KeptReturn ==
  ASSUME BaseInvariant, SettledHolds, KeptHolds, NEW h \in Handles,
         NEW answer \in {"ok"} \cup Refusals, Return(h, answer),
         answer # "ok" \/ calls[h].write = None,
         UNCHANGED <<setup, subjects, durable>>,
         setup.power_cuts => calls[h].pc # "sync"
  PROVE  SettledHolds' /\ KeptHolds'
<1>1. acked' = acked
  BY DEF Return
<1>2. calls'[h].pc = "idle" /\ \A g \in Handles : g # h => calls'[g] = calls[g]
  BY ReturnFacts
<1> QED
  BY <1>1, <1>2, KeptQuietly

(* A decided write waits for its sync. *)
LEMMA DecideKept ==
  ASSUME BaseInvariant, SettledHolds, KeptHolds, NEW h \in Handles, DecideWrite(h)
  PROVE  SettledHolds' /\ KeptHolds'
<1> DEFINE w == calls[h].write
           s == SubjectOf(w)
<1>1. calls[h].pc = "decide" /\ UNCHANGED <<setup, subjects, durable>>
  BY DEF DecideWrite, disk
<1>2. w \in Write /\ Valid(w) /\ s \in Subjects
  BY <1>1, WriteUnderWay DEF BaseInvariant
<1>3. PICK index \in [RecordIds -> Location \cup {None}] :
        IF Decide(index, w).outcome = "write"
        THEN /\ calls' = [calls EXCEPT ![h].pc = "stage",
                                       ![h].stored = Decide(index, w).stored]
             /\ UNCHANGED <<writer, readers, acked>>
        ELSE Return(h, Decide(index, w).outcome)
  BY DEF DecideWrite
<1> DEFINE v == Decide(index, w)
<1>4. /\ v.outcome \in {"write", "ok"} \cup Refusals
      /\ v.outcome = "ok" => Kept(subjects[s], w)
  BY <1>2, DecideFacts DEF BaseInvariant, TypeOK
<1> HIDE DEF v
<1>5. CASE v.outcome = "write"
  <2>1. \A g \in Handles : /\ calls'[g].pc = "sync" => calls'[g] = calls[g]
                           /\ calls[g].pc = "sync" => calls'[g] = calls[g]
    BY <1>1, <1>3, <1>5 DEF BaseInvariant, TypeOK, Call, v
  <2> QED
    BY <1>1, <1>3, <1>5, <2>1, KeptQuietly DEF v
<1>6. CASE v.outcome # "write" /\ v.outcome # "ok"
  <2>1. Return(h, v.outcome) /\ v.outcome \in {"ok"} \cup Refusals
    BY <1>3, <1>4, <1>6 DEF v
  <2> QED
    BY <1>1, <1>6, <2>1, KeptReturn
<1>7. CASE v.outcome = "ok"
  <2>1. Return(h, "ok")
    BY <1>3, <1>7 DEF v
  <2>2. acked' = acked \cup {w}
    BY <2>1, <1>2, WriteFacts DEF Return
  <2>3. calls'[h].pc = "idle" /\ \A g \in Handles : g # h => calls'[g] = calls[g]
    BY <1>1, <2>1, ReturnFacts
  <2>4. \A g \in Handles : calls[g].pc # "sync"
    BY <1>1 DEF BaseInvariant, LockHolds, Writing
  <2>5. setup.power_cuts => \A t \in Subjects : subjects[t] = durable[t]
    BY <2>4 DEF SettledHolds
  <2>6. SettledHolds'
    BY <1>1, <2>5 DEF SettledHolds
  <2>7. KeptHolds'
    BY <1>1, <1>2, <1>4, <1>7, <2>2, <2>3, <2>4, <2>5 DEF KeptHolds
  <2> QED
    BY <2>6, <2>7
<1> QED
  BY <1>5, <1>6, <1>7

(* An installed write is still to be synced. *)
LEMMA InstallKept ==
  ASSUME BaseInvariant, SettledHolds, KeptHolds, NEW h \in Handles, Install(h)
  PROVE  SettledHolds' /\ KeptHolds'
<1> DEFINE w == calls[h].write
           s == SubjectOf(w)
<1>1. calls[h].pc = "install" /\ UNCHANGED <<setup, durable>>
  BY DEF Install
<1>2. w \in Write /\ Valid(w) /\ Later(w) /\ s \in Subjects /\ TypeOK
  BY <1>1, WriteUnderWay DEF BaseInvariant
<1>3. CASE /\ subjects' = [subjects EXCEPT ![s] = calls[h].stored]
           /\ Goto(h, "sync")
           /\ UNCHANGED <<writer, readers, acked>>
  <2>1. /\ calls'[h] = [calls[h] EXCEPT !.pc = "sync"]
        /\ \A g \in Handles : g # h => calls'[g] = calls[g]
    BY <1>3, MovesTo DEF BaseInvariant
  <2>2. calls'[h].pc = "sync" /\ calls'[h].write = w
    BY <2>1 DEF BaseInvariant, TypeOK, Call
  <2>3. /\ calls[h].stored = Written(subjects[s], w)
        /\ check(Expects(w), held_revision(subjects[s]))
    BY <1>1 DEF BaseInvariant, StagedHolds
  <2> DEFINE y == Written(subjects[s], w)
  <2>4. /\ subjects[s] \in StoredSubject \cup {None}
        /\ subjects \in [Subjects -> StoredSubject \cup {None}]
    BY <1>2 DEF TypeOK
  <2>5. y \in StoredSubject /\ Continues(subjects[s], y) /\ Kept(y, w)
    BY <1>2, <2>3, <2>4, WrittenFacts, WrittenContinues
  <2> HIDE DEF y
  <2>6. /\ subjects'[s] = y
        /\ \A t \in Subjects : t # s => subjects'[t] = subjects[t]
    BY <1>2, <1>3, <2>3, <2>4 DEF y
  <2> HIDE DEF w, s
  <2>7. \A g \in Handles : g # h => calls[g].pc # "sync"
    BY <1>1 DEF BaseInvariant, LockHolds, Writing
  <2>8. SettledHolds'
    <3> SUFFICES ASSUME setup.power_cuts, NEW t \in Subjects, subjects'[t] # durable[t]
                 PROVE  calls'[h].pc = "sync" /\ SubjectOf(calls'[h].write) = t
      BY <1>1 DEF SettledHolds
    <3>1. \A g \in Handles : calls[g].pc # "sync"
      BY <1>1, <2>7
    <3>2. subjects[t] = durable[t]
      BY <3>1 DEF SettledHolds
    <3> QED
      BY <3>2, <2>2, <2>6 DEF s
  <2>9. KeptHolds'
    <3>1. ASSUME NEW u \in acked
          PROVE  /\ Kept(subjects'[SubjectOf(u)], u)
                 /\ setup.power_cuts => Kept(durable[SubjectOf(u)], u)
      <4>1. u \in Write /\ SubjectOf(u) \in Subjects
        BY <1>2, SetupFacts, WriteFacts DEF TypeOK
      <4>2. /\ Kept(subjects[SubjectOf(u)], u)
            /\ setup.power_cuts => Kept(durable[SubjectOf(u)], u)
        BY DEF KeptHolds
      <4>3. CASE SubjectOf(u) = s
        <5>1. Kept(y, u)
          BY <4>1, <4>2, <4>3, <2>4, <2>5, KeptOn
        <5> QED
          BY <5>1, <4>2, <4>3, <2>6
      <4>4. CASE SubjectOf(u) # s
        BY <4>1, <4>2, <4>4, <2>6
      <4> QED
        BY <4>3, <4>4
    <3>2. ASSUME NEW g \in Handles, calls'[g].pc = "sync"
          PROVE  Kept(subjects'[SubjectOf(calls'[g].write)], calls'[g].write)
      <4>1. g = h
        BY <3>2, <2>1, <2>7
      <4> QED
        BY <4>1, <2>2, <2>5, <2>6 DEF s
    <3> QED
      BY <1>1, <1>3, <3>1, <3>2 DEF KeptHolds
  <2> QED
    BY <2>8, <2>9
<1>4. CASE "install" \in setup.faults /\ Return(h, "backend") /\ UNCHANGED subjects
  BY <1>1, <1>4, KeptReturn DEF Refusals
<1> QED
  BY <1>3, <1>4 DEF Install

(* A synced write is durable when it is acknowledged. *)
LEMMA SyncKept ==
  ASSUME BaseInvariant, Recoverable, SettledHolds, KeptHolds, NEW h \in Handles, Sync(h)
  PROVE  SettledHolds' /\ KeptHolds'
<1> DEFINE w == calls[h].write
           s == SubjectOf(w)
<1>1. calls[h].pc = "sync" /\ UNCHANGED <<setup, subjects>>
  BY DEF Sync
<1>2. w \in Write /\ s \in Subjects
  BY <1>1, WriteUnderWay DEF BaseInvariant
<1>3. CASE durable' = sync_directory(Entity[s]) /\ Return(h, "ok")
  <2>1. calls'[h].pc = "idle" /\ \A g \in Handles : g # h => calls'[g] = calls[g]
    BY <1>1, <1>3, ReturnFacts
  <2>2. acked' = acked \cup {w}
    BY <1>2, <1>3, WriteFacts DEF Return
  <2>3. /\ durable'[s] = subjects[s]
        /\ \A t \in Subjects : durable'[t] = subjects[t] \/ durable'[t] = durable[t]
    BY <1>2, <1>3 DEF sync_directory
  <2>4. \A g \in Handles : g # h => calls[g].pc # "sync"
    BY <1>1 DEF BaseInvariant, LockHolds, Writing
  <2>5. SettledHolds'
    <3> SUFFICES ASSUME setup.power_cuts, NEW t \in Subjects, subjects[t] # durable'[t]
                 PROVE  FALSE
      BY <1>1 DEF SettledHolds
    <3>1. subjects[t] # durable[t]
      BY <2>3
    <3>2. PICK g \in Handles : calls[g].pc = "sync" /\ SubjectOf(calls[g].write) = t
      BY <3>1 DEF SettledHolds
    <3> QED
      BY <3>2, <2>3, <2>4
  <2>6. Kept(subjects[s], w)
    BY <1>1 DEF KeptHolds
  <2>7. KeptHolds'
    <3>1. ASSUME NEW u \in acked'
          PROVE  /\ Kept(subjects[SubjectOf(u)], u)
                 /\ setup.power_cuts => Kept(durable'[SubjectOf(u)], u)
      <4>1. CASE u = w
        BY <4>1, <2>3, <2>6
      <4>2. CASE u \in acked
        <5>1. SubjectOf(u) \in Subjects
          BY <4>2, SetupFacts, WriteFacts DEF BaseInvariant, TypeOK
        <5> QED
          BY <4>2, <5>1, <2>3 DEF KeptHolds
      <4> QED
        BY <4>1, <4>2, <2>2
    <3>2. \A g \in Handles : calls'[g].pc # "sync"
      BY <2>1, <2>4
    <3> QED
      BY <1>1, <3>1, <3>2 DEF KeptHolds
  <2> QED
    BY <2>5, <2>7
<1>4. CASE "directory" \in setup.faults /\ Return(h, "backend") /\ UNCHANGED durable
  <2>1. ~setup.power_cuts
    BY <1>4 DEF Recoverable, Synced
  <2> QED
    BY <1>1, <1>4, <2>1, KeptReturn DEF Refusals
<1> QED
  BY <1>3, <1>4 DEF Sync

(* A power cut loses what was not synced. *)
LEMMA CutKept ==
  ASSUME BaseInvariant, Recoverable, KeptHolds, PowerCut
  PROVE  SettledHolds' /\ KeptHolds'
<1>1. /\ UNCHANGED <<setup, acked>> /\ durable' = subjects'
      /\ \A h \in Handles : calls'[h] = Idle
  BY CutFacts
<1>2. PICK lost \in SUBSET Subjects, gone \in SUBSET {Entity[s] : s \in Subjects} :
        /\ AncestorsDurable => gone = {}
        /\ subjects' = [s \in Subjects |-> IF Entity[s] \in gone THEN None
                                          ELSE IF s \in lost THEN durable[s]
                                          ELSE subjects[s]]
  BY DEF PowerCut
<1>3. setup.power_cuts /\ gone = {}
  BY <1>2 DEF PowerCut, Recoverable
<1>4. \A s \in Subjects : subjects'[s] = durable[s] \/ subjects'[s] = subjects[s]
  BY <1>2, <1>3
<1>5. SettledHolds'
  BY <1>1 DEF SettledHolds
<1>6. ASSUME NEW u \in acked
      PROVE  Kept(subjects'[SubjectOf(u)], u)
  <2>1. SubjectOf(u) \in Subjects
    BY SetupFacts, WriteFacts DEF BaseInvariant, TypeOK
  <2> QED
    BY <1>3, <1>4, <2>1 DEF KeptHolds
<1>7. \A h \in Handles : calls'[h].pc # "sync"
  BY <1>1, IdleCall
<1>8. KeptHolds'
  BY <1>1, <1>6, <1>7 DEF KeptHolds
<1> QED
  BY <1>5, <1>8

(* Every step keeps what was acknowledged. *)
LEMMA NextKept == KeptInvariant /\ [Next]_vars => KeptInvariant'
<1> SUFFICES ASSUME KeptInvariant, [Next]_vars, Recoverable'
             PROVE  SettledHolds' /\ KeptHolds'
  BY NextBase DEF KeptInvariant
<1>1. BaseInvariant /\ Recoverable /\ SettledHolds /\ KeptHolds /\ setup' = setup
  BY SetupSame DEF KeptInvariant, Recoverable, Synced
<1>2. CASE UNCHANGED vars
  BY <1>1, <1>2, KeptQuietly DEF vars
<1>3. CASE PowerCut
  BY <1>1, <1>3, CutKept
<1>4. ASSUME NEW h \in Handles, NEW w \in setup.writes, Begin(h, w)
      PROVE  SettledHolds' /\ KeptHolds'
  <2>1. /\ UNCHANGED <<setup, subjects, durable, acked>> /\ calls[h].pc = "idle"
        /\ calls' = [calls EXCEPT ![h] = IF Valid(w)
                       THEN [Idle EXCEPT !.pc = "lock", !.write = w]
                       ELSE [Idle EXCEPT !.answer = "backend"]]
    BY <1>4 DEF Begin, disk
  <2>2. \A g \in Handles : /\ calls'[g].pc = "sync" => calls'[g] = calls[g]
                           /\ calls[g].pc = "sync" => calls'[g] = calls[g]
    BY <1>1, <2>1 DEF BaseInvariant, TypeOK, Idle
  <2> QED
    BY <1>1, <2>1, <2>2, KeptQuietly
<1>5. ASSUME NEW h \in Handles, Lock(h)
      PROVE  SettledHolds' /\ KeptHolds'
  <2>1. UNCHANGED <<setup, subjects, durable>> /\ calls[h].pc = "lock"
    BY <1>5 DEF Lock, disk
  <2>2. CASE Goto(h, "decide") /\ UNCHANGED acked
    <3>1. \A g \in Handles : /\ calls'[g].pc = "sync" => calls'[g] = calls[g]
                             /\ calls[g].pc = "sync" => calls'[g] = calls[g]
      BY <1>1, <2>1, <2>2 DEF Goto, BaseInvariant, TypeOK, Call
    <3> QED
      BY <1>1, <2>1, <2>2, <3>1, KeptQuietly
  <2>3. CASE Return(h, "backend")
    BY <1>1, <2>1, <2>3, KeptReturn DEF Refusals
  <2> QED
    BY <1>5, <2>2, <2>3 DEF Lock
<1>6. ASSUME NEW h \in Handles, Stage(h)
      PROVE  SettledHolds' /\ KeptHolds'
  <2>1. UNCHANGED <<setup, subjects, durable>> /\ calls[h].pc = "stage"
    BY <1>6 DEF Stage
  <2>2. CASE Goto(h, "install") /\ UNCHANGED acked
    <3>1. \A g \in Handles : /\ calls'[g].pc = "sync" => calls'[g] = calls[g]
                             /\ calls[g].pc = "sync" => calls'[g] = calls[g]
      BY <1>1, <2>1, <2>2 DEF Goto, BaseInvariant, TypeOK, Call
    <3> QED
      BY <1>1, <2>1, <2>2, <3>1, KeptQuietly
  <2>3. CASE Return(h, "backend")
    BY <1>1, <2>1, <2>3, KeptReturn DEF Refusals
  <2> QED
    BY <1>6, <2>2, <2>3 DEF Stage
<1>7. ASSUME NEW h \in Handles, DecideWrite(h) \/ Install(h) \/ Sync(h)
      PROVE  SettledHolds' /\ KeptHolds'
  BY <1>1, <1>7, DecideKept, InstallKept, SyncKept
<1>8. ASSUME NEW h \in Handles, Acquire(h)
      PROVE  SettledHolds' /\ KeptHolds'
  <2>1. /\ UNCHANGED <<setup, subjects, durable, acked>> /\ calls[h].pc = "idle"
        /\ calls' = [calls EXCEPT ![h] = IF ~marker THEN [Idle EXCEPT !.answer = "ok"]
                       ELSE IF epoch = 0 THEN [Idle EXCEPT !.answer = "backend"]
                       ELSE [Idle EXCEPT !.pc = "acquire", !.todo = Here \cup stale]]
    BY <1>8 DEF Acquire, disk
  <2>2. \A g \in Handles : /\ calls'[g].pc = "sync" => calls'[g] = calls[g]
                           /\ calls[g].pc = "sync" => calls'[g] = calls[g]
    BY <1>1, <2>1 DEF BaseInvariant, TypeOK, Idle
  <2> QED
    BY <1>1, <2>1, <2>2, KeptQuietly
<1>9. ASSUME NEW h \in Handles, NEW s \in Subjects, AcquireSubject(h, s)
      PROVE  SettledHolds' /\ KeptHolds'
  <2>1. UNCHANGED <<setup, subjects, durable>> /\ calls[h].pc = "acquire"
    BY <1>9 DEF AcquireSubject, disk
  <2>2. CASE Return(h, "backend")
    BY <1>1, <2>1, <2>2, KeptReturn DEF Refusals
  <2>3. CASE /\ calls' = [calls EXCEPT ![h].todo = @ \ {s}, ![h].taken[s] = subjects[s]]
             /\ UNCHANGED acked
    <3>1. \A g \in Handles : /\ calls'[g].pc = "sync" => calls'[g] = calls[g]
                             /\ calls[g].pc = "sync" => calls'[g] = calls[g]
      BY <1>1, <2>1, <2>3 DEF BaseInvariant, TypeOK, Call
    <3> QED
      BY <1>1, <2>1, <2>3, <3>1, KeptQuietly
  <2> QED
    BY <1>9, <2>2, <2>3 DEF AcquireSubject
<1>10. ASSUME NEW h \in Handles, Acquired(h)
       PROVE  SettledHolds' /\ KeptHolds'
  <2>1. /\ UNCHANGED <<setup, subjects, durable>> /\ calls[h].pc = "acquire"
        /\ Return(h, "ok")
    BY <1>10 DEF Acquired, disk
  <2>2. calls[h].write = None
    BY <1>1, <2>1 DEF BaseInvariant, CallHolds
  <2> QED
    BY <1>1, <2>1, <2>2, KeptReturn
<1>11. ASSUME NEW h \in Handles, NEW g \in Handles, Clone(h, g)
       PROVE  SettledHolds' /\ KeptHolds'
  BY <1>1, <1>11, KeptQuietly DEF Clone, disk
<1>12. ASSUME NEW h \in Handles, Crash(h)
       PROVE  SettledHolds' /\ KeptHolds'
  <2>1. /\ UNCHANGED <<setup, subjects, durable, acked>>
        /\ calls' = [calls EXCEPT ![h] = Idle]
    BY <1>12 DEF Crash
  <2>2. ~setup.power_cuts
    BY <1>1, <1>12 DEF Crash, Recoverable
  <2>3. \A g \in Handles : calls'[g].pc = "sync" => calls'[g] = calls[g]
    BY <1>1, <2>1, IdleCall DEF BaseInvariant, TypeOK
  <2> QED
    BY <1>1, <2>1, <2>2, <2>3, KeptQuietly
<1> QED
  BY <1>2, <1>3, <1>4, <1>5, <1>6, <1>7, <1>8, <1>9, <1>10, <1>11, <1>12
    DEF Next, Step

(* The documents keep every acknowledged write, and the durable ones do     *)
(* where power may be lost.                                                 *)
THEOREM KeptInductive == Spec => []KeptInvariant
<1>1. Init => KeptInvariant
  <2> SUFFICES ASSUME Init PROVE SettledHolds /\ KeptHolds
    BY InitBase DEF KeptInvariant
  <2>1. acked = {} /\ durable = subjects /\ \A h \in Handles : calls[h] = Idle
    BY DEF Init
  <2> QED
    BY <2>1, IdleCall DEF SettledHolds, KeptHolds
<1>2. KeptInvariant /\ [Next]_vars => KeptInvariant'
  BY NextKept
<1> QED
  BY <1>1, <1>2, PTL DEF Spec

(* No acknowledged write is lost: through every failure but a power cut,    *)
(* and through power cuts when the directory of each rename was synced by   *)
(* the process that renamed, and is reachable once synced.                  *)
THEOREM AcknowledgedKept == Spec => [](Recoverable => AcknowledgedSurvives)
<1>1. KeptInvariant => (Recoverable => AcknowledgedSurvives)
  BY DEF KeptInvariant, KeptHolds, AcknowledgedSurvives
<1> QED
  BY <1>1, KeptInductive, PTL

-----------------------------------------------------------------------------
(* Record ids. *)

HasRecord(x, r) == x # None /\ \E i \in DOMAIN x.records : x.records[i].record_id = r

HasObservation(x, r) ==
  x # None /\ \E i \in DOMAIN x.observations : x.observations[i].record_id = r

(* What the two searches say of a document. *)
LEMMA HasFacts ==
  ASSUME NEW x \in StoredSubject, NEW r
  PROVE  /\ FindObservation(x, r) > 0 <=> HasObservation(x, r)
         /\ FindObservation(x, r) = 0 <=> ~HasObservation(x, r)
         /\ FindRecord(x, r) = 0 <=> ~HasRecord(x, r)
         /\ FindRecord(x, r) + FindObservation(x, r) > 0
              <=> HasRecord(x, r) \/ HasObservation(x, r)
<1>1. x # None
  BY StoredFacts
<1>2. FindObservation(x, r) \in Nat /\ (FindObservation(x, r) = 0 <=> ~HasObservation(x, r))
  BY <1>1, FindObservationFacts DEF HasObservation
<1>3. FindRecord(x, r) \in Nat /\ (FindRecord(x, r) = 0 <=> ~HasRecord(x, r))
  BY <1>1, FindRecordFacts DEF HasRecord
<1> QED
  BY <1>2, <1>3

(* The subjects that hold a record id. *)
LEMMA HoldingFacts ==
  ASSUME NEW docs \in [Subjects -> StoredSubject \cup {None}], NEW r
  PROVE  Holding(docs, r) =
           {s \in Subjects : HasRecord(docs[s], r) \/ HasObservation(docs[s], r)}
<1>1. ASSUME NEW s \in Subjects
      PROVE  (docs[s] # None /\ FindRecord(docs[s], r) + FindObservation(docs[s], r) > 0)
               <=> HasRecord(docs[s], r) \/ HasObservation(docs[s], r)
  <2>1. CASE docs[s] = None
    BY <2>1 DEF HasRecord, HasObservation
  <2>2. CASE docs[s] \in StoredSubject
    BY <2>2, StoredFacts, HasFacts
  <2> QED
    BY <2>1, <2>2
<1> QED
  BY <1>1 DEF Holding

(* scan_records, in terms of what the documents hold. *)
LEMMA ScanFacts ==
  ASSUME NEW docs \in [Subjects -> StoredSubject \cup {None}], NEW index
  PROVE  ScanMay(docs, index) <=>
           \A r \in RecordIds :
             IF Holding(docs, r) = {} THEN index[r] = None
             ELSE \E s \in Holding(docs, r) :
                    index[r] = [subject |-> s, observation |-> HasObservation(docs[s], r)]
<1>1. ASSUME NEW r \in RecordIds, NEW s \in Holding(docs, r)
      PROVE  (FindObservation(docs[s], r) > 0) = HasObservation(docs[s], r)
  <2>1. docs[s] \in StoredSubject
    BY DEF Holding
  <2>2. FindObservation(docs[s], r) > 0 <=> HasObservation(docs[s], r)
    BY <2>1, HasFacts
  <2>3. /\ (FindObservation(docs[s], r) > 0) \in BOOLEAN
        /\ HasObservation(docs[s], r) \in BOOLEAN
    BY DEF HasObservation
  <2> QED
    BY <2>2, <2>3
<1> QED
  BY <1>1 DEF ScanMay

(* A write adds its own id to its own document. *)
LEMMA WrittenHas ==
  ASSUME NEW x \in StoredSubject \cup {None}, NEW w \in Write, Valid(w), Later(w),
         check(Expects(w), held_revision(x)), NEW r
  PROVE  /\ HasRecord(Written(x, w), r)
              <=> HasRecord(x, r) \/ (w.kind = "commit_recorded" /\ r = IdOf(w))
         /\ HasObservation(Written(x, w), r)
              <=> HasObservation(x, r) \/ (w.kind = "observe" /\ r = IdOf(w))
<1> DEFINE y == Written(x, w)
           records == IF x = None THEN << >> ELSE x.records
           observations == IF x = None THEN << >> ELSE x.observations
<1>1. /\ y \in StoredSubject
      /\ w.kind = "observe" => x # None
      /\ IF w.kind = "commit_recorded"
         THEN y.records = Append(records, w.document.envelope)
         ELSE y.records = records
      /\ IF w.kind = "observe"
         THEN y.observations = Append(observations, w.document)
         ELSE y.observations = observations
  BY WrittenFacts
<1>2. records \in Seq(Envelope) /\ observations \in Seq(RecordedObservation)
  BY StoredFacts
<1>3. y # None
  BY <1>1, StoredFacts
<1>4. /\ HasRecord(x, r) <=> \E i \in DOMAIN records : records[i].record_id = r
      /\ HasObservation(x, r) <=> \E i \in DOMAIN observations : observations[i].record_id = r
  BY DEF HasRecord, HasObservation
<1> HIDE DEF y, records, observations
<1>5. w.kind = "commit_recorded" =>
        /\ DOMAIN y.records = DOMAIN records \cup {Len(records) + 1}
        /\ \A i \in DOMAIN records : y.records[i] = records[i]
        /\ y.records[Len(records) + 1] = w.document.envelope
        /\ Len(records) + 1 \notin DOMAIN records
        /\ w.document.envelope.record_id = IdOf(w)
  <2> SUFFICES ASSUME w.kind = "commit_recorded" PROVE
        /\ DOMAIN y.records = DOMAIN records \cup {Len(records) + 1}
        /\ \A i \in DOMAIN records : y.records[i] = records[i]
        /\ y.records[Len(records) + 1] = w.document.envelope
        /\ Len(records) + 1 \notin DOMAIN records
        /\ w.document.envelope.record_id = IdOf(w)
    OBVIOUS
  <2>1. w.document.envelope \in Envelope /\ y.records = Append(records, w.document.envelope)
    BY <1>1, WriteFacts
  <2> QED
    BY <1>2, <2>1, AppendFacts DEF IdOf
<1>6. w.kind = "observe" =>
        /\ DOMAIN y.observations = DOMAIN observations \cup {Len(observations) + 1}
        /\ \A i \in DOMAIN observations : y.observations[i] = observations[i]
        /\ y.observations[Len(observations) + 1] = w.document
        /\ Len(observations) + 1 \notin DOMAIN observations
        /\ w.document.record_id = IdOf(w)
  <2> SUFFICES ASSUME w.kind = "observe" PROVE
        /\ DOMAIN y.observations = DOMAIN observations \cup {Len(observations) + 1}
        /\ \A i \in DOMAIN observations : y.observations[i] = observations[i]
        /\ y.observations[Len(observations) + 1] = w.document
        /\ Len(observations) + 1 \notin DOMAIN observations
        /\ w.document.record_id = IdOf(w)
    OBVIOUS
  <2>1. w.document \in RecordedObservation /\ y.observations = Append(observations, w.document)
    BY <1>1, WriteFacts
  <2> QED
    BY <1>2, <2>1, AppendFacts DEF IdOf
<1>7. HasRecord(y, r)
        <=> HasRecord(x, r) \/ (w.kind = "commit_recorded" /\ r = IdOf(w))
  <2>1. HasRecord(y, r) <=> \E i \in DOMAIN y.records : y.records[i].record_id = r
    BY <1>3 DEF HasRecord
  <2>2. CASE w.kind = "commit_recorded"
    BY <2>1, <2>2, <1>4, <1>5
  <2>3. CASE w.kind # "commit_recorded"
    BY <2>1, <2>3, <1>1, <1>4
  <2> QED
    BY <2>2, <2>3
<1>8. HasObservation(y, r)
        <=> HasObservation(x, r) \/ (w.kind = "observe" /\ r = IdOf(w))
  <2>1. HasObservation(y, r)
          <=> \E i \in DOMAIN y.observations : y.observations[i].record_id = r
    BY <1>3 DEF HasObservation
  <2>2. CASE w.kind = "observe"
    BY <2>1, <2>2, <1>4, <1>6
  <2>3. CASE w.kind # "observe"
    BY <2>1, <2>3, <1>1, <1>4
  <2> QED
    BY <2>2, <2>3
<1> QED
  BY <1>7, <1>8 DEF y

(* Documents cut back to what they continue hold no id twice either. *)
LEMMA IdsCutBack ==
  ASSUME NEW docs, NEW older, IdsGlobal(docs),
         \A s \in Subjects : Continues(older[s], docs[s])
  PROVE  IdsGlobal(older)
<1> SUFFICES ASSUME NEW s \in Subjects, NEW t \in Subjects,
                    older[s] # None, older[t] # None
             PROVE
    /\ \A i \in DOMAIN older[s].records, j \in DOMAIN older[t].records :
         older[s].records[i].record_id = older[t].records[j].record_id => s = t /\ i = j
    /\ \A i \in DOMAIN older[s].observations, j \in DOMAIN older[t].observations :
         older[s].observations[i].record_id = older[t].observations[j].record_id
           => s = t /\ i = j
    /\ \A i \in DOMAIN older[s].records, j \in DOMAIN older[t].observations :
         older[s].records[i].record_id # older[t].observations[j].record_id
  BY DEF IdsGlobal
<1>1. /\ docs[s] # None /\ docs[t] # None
      /\ \A i \in DOMAIN older[s].records :
           i \in DOMAIN docs[s].records /\ docs[s].records[i] = older[s].records[i]
      /\ \A i \in DOMAIN older[t].records :
           i \in DOMAIN docs[t].records /\ docs[t].records[i] = older[t].records[i]
      /\ \A i \in DOMAIN older[s].observations :
           /\ i \in DOMAIN docs[s].observations
           /\ docs[s].observations[i] = older[s].observations[i]
      /\ \A i \in DOMAIN older[t].observations :
           /\ i \in DOMAIN docs[t].observations
           /\ docs[t].observations[i] = older[t].observations[i]
  BY DEF Continues, Keeps
<1>2. /\ \A i \in DOMAIN docs[s].records, j \in DOMAIN docs[t].records :
           docs[s].records[i].record_id = docs[t].records[j].record_id => s = t /\ i = j
      /\ \A i \in DOMAIN docs[s].observations, j \in DOMAIN docs[t].observations :
           docs[s].observations[i].record_id = docs[t].observations[j].record_id
             => s = t /\ i = j
      /\ \A i \in DOMAIN docs[s].records, j \in DOMAIN docs[t].observations :
           docs[s].records[i].record_id # docs[t].observations[j].record_id
  BY <1>1 DEF IdsGlobal
<1>3. ASSUME NEW i \in DOMAIN older[s].records, NEW j \in DOMAIN older[t].records,
             older[s].records[i].record_id = older[t].records[j].record_id
      PROVE  s = t /\ i = j
  BY <1>1, <1>2, <1>3
<1>4. ASSUME NEW i \in DOMAIN older[s].observations, NEW j \in DOMAIN older[t].observations,
             older[s].observations[i].record_id = older[t].observations[j].record_id
      PROVE  s = t /\ i = j
  BY <1>1, <1>2, <1>4
<1>5. ASSUME NEW i \in DOMAIN older[s].records, NEW j \in DOMAIN older[t].observations
      PROVE  older[s].records[i].record_id # older[t].observations[j].record_id
  BY <1>1, <1>2
<1> QED
  BY <1>3, <1>4, <1>5

(* The same, with one more entry under an id no document has. *)
LEMMA IdsInstalled ==
  ASSUME NEW docs \in [Subjects -> StoredSubject \cup {None}], IdsGlobal(docs),
         NEW w \in Write, Valid(w), Later(w),
         check(Expects(w), held_revision(docs[SubjectOf(w)])),
         w.kind # "commit" => Holding(docs, IdOf(w)) = {}
  PROVE  IdsGlobal([docs EXCEPT ![SubjectOf(w)] = Written(docs[SubjectOf(w)], w)])
<1> DEFINE z == SubjectOf(w)
           x == docs[z]
           y == Written(x, w)
           nu == [docs EXCEPT ![z] = y]
           records == IF x = None THEN << >> ELSE x.records
           observations == IF x = None THEN << >> ELSE x.observations
<1>1. z \in Subjects /\ x \in StoredSubject \cup {None}
  BY WriteFacts
<1>2. /\ y \in StoredSubject
      /\ w.kind = "observe" => x # None
      /\ IF w.kind = "commit_recorded"
         THEN y.records = Append(records, w.document.envelope)
         ELSE y.records = records
      /\ IF w.kind = "observe"
         THEN y.observations = Append(observations, w.document)
         ELSE y.observations = observations
  BY <1>1, WrittenFacts
<1>3. records \in Seq(Envelope) /\ observations \in Seq(RecordedObservation)
  BY <1>1, StoredFacts
<1>4. nu[z] = y /\ \A s \in Subjects : s # z => nu[s] = docs[s]
  BY <1>1
<1> DEFINE R(s) == IF docs[s] = None THEN << >> ELSE docs[s].records
           O(s) == IF docs[s] = None THEN << >> ELSE docs[s].observations
<1>5. \A s, t \in Subjects :
        /\ \A i \in DOMAIN R(s), j \in DOMAIN R(t) :
             R(s)[i].record_id = R(t)[j].record_id => s = t /\ i = j
        /\ \A i \in DOMAIN O(s), j \in DOMAIN O(t) :
             O(s)[i].record_id = O(t)[j].record_id => s = t /\ i = j
        /\ \A i \in DOMAIN R(s), j \in DOMAIN O(t) : R(s)[i].record_id # O(t)[j].record_id
  BY DEF IdsGlobal
<1>6. w.kind # "commit" => \A s \in Subjects :
        /\ \A i \in DOMAIN R(s) : R(s)[i].record_id # IdOf(w)
        /\ \A i \in DOMAIN O(s) : O(s)[i].record_id # IdOf(w)
  <2> SUFFICES ASSUME w.kind # "commit", NEW s \in Subjects
               PROVE  /\ \A i \in DOMAIN R(s) : R(s)[i].record_id # IdOf(w)
                      /\ \A i \in DOMAIN O(s) : O(s)[i].record_id # IdOf(w)
    OBVIOUS
  <2>1. ~HasRecord(docs[s], IdOf(w)) /\ ~HasObservation(docs[s], IdOf(w))
    BY HoldingFacts
  <2> QED
    BY <2>1 DEF HasRecord, HasObservation
<1>7. R(z) = records /\ O(z) = observations
  OBVIOUS
<1>8. \A s \in Subjects : s # z /\ nu[s] # None =>
        nu[s].records = R(s) /\ nu[s].observations = O(s)
  BY <1>4
<1> HIDE DEF y, nu, records, observations, R, O
<1>9. w.kind = "commit_recorded" =>
        /\ y.observations = observations
        /\ DOMAIN y.records = DOMAIN records \cup {Len(records) + 1}
        /\ \A i \in DOMAIN records : y.records[i] = records[i]
        /\ y.records[Len(records) + 1].record_id = IdOf(w)
  <2> SUFFICES ASSUME w.kind = "commit_recorded" PROVE
        /\ y.observations = observations
        /\ DOMAIN y.records = DOMAIN records \cup {Len(records) + 1}
        /\ \A i \in DOMAIN records : y.records[i] = records[i]
        /\ y.records[Len(records) + 1].record_id = IdOf(w)
    OBVIOUS
  <2>1. /\ w.document.envelope \in Envelope
        /\ y.records = Append(records, w.document.envelope)
        /\ y.observations = observations
    BY <1>2, WriteFacts
  <2> QED
    BY <1>3, <2>1, AppendFacts DEF IdOf
<1>10. w.kind = "observe" =>
        /\ y.records = records
        /\ DOMAIN y.observations = DOMAIN observations \cup {Len(observations) + 1}
        /\ \A i \in DOMAIN observations : y.observations[i] = observations[i]
        /\ y.observations[Len(observations) + 1].record_id = IdOf(w)
  <2> SUFFICES ASSUME w.kind = "observe" PROVE
        /\ y.records = records
        /\ DOMAIN y.observations = DOMAIN observations \cup {Len(observations) + 1}
        /\ \A i \in DOMAIN observations : y.observations[i] = observations[i]
        /\ y.observations[Len(observations) + 1].record_id = IdOf(w)
    OBVIOUS
  <2>1. /\ w.document \in RecordedObservation
        /\ y.observations = Append(observations, w.document)
        /\ y.records = records
    BY <1>2, WriteFacts
  <2> QED
    BY <1>3, <2>1, AppendFacts DEF IdOf
<1>11. w.kind = "commit" => y.records = records /\ y.observations = observations
  BY <1>2
<1>12. w.kind \in {"commit", "commit_recorded", "observe"}
  BY WriteFacts
<1> SUFFICES ASSUME NEW s \in Subjects, NEW t \in Subjects, nu[s] # None, nu[t] # None
             PROVE
    /\ \A i \in DOMAIN nu[s].records, j \in DOMAIN nu[t].records :
         nu[s].records[i].record_id = nu[t].records[j].record_id => s = t /\ i = j
    /\ \A i \in DOMAIN nu[s].observations, j \in DOMAIN nu[t].observations :
         nu[s].observations[i].record_id = nu[t].observations[j].record_id => s = t /\ i = j
    /\ \A i \in DOMAIN nu[s].records, j \in DOMAIN nu[t].observations :
         nu[s].records[i].record_id # nu[t].observations[j].record_id
  BY DEF IdsGlobal, nu, y
<1> DEFINE new == Len(records) + 1
           last == Len(observations) + 1
(* An entry is one of before, or the one with the new id. *)
<1>13. ASSUME NEW q \in Subjects, nu[q] # None
       PROVE  /\ \A i \in DOMAIN nu[q].records :
                   \/ i \in DOMAIN R(q) /\ nu[q].records[i] = R(q)[i]
                   \/ /\ q = z /\ i = new /\ w.kind = "commit_recorded"
                      /\ nu[q].records[i].record_id = IdOf(w)
              /\ \A i \in DOMAIN nu[q].observations :
                   \/ i \in DOMAIN O(q) /\ nu[q].observations[i] = O(q)[i]
                   \/ /\ q = z /\ i = last /\ w.kind = "observe"
                      /\ nu[q].observations[i].record_id = IdOf(w)
  <2>1. CASE q # z
    BY <2>1, <1>8, <1>13
  <2>2. CASE q = z
    BY <2>2, <1>4, <1>7, <1>9, <1>10, <1>11, <1>12
  <2> QED
    BY <2>1, <2>2
<1> HIDE DEF new, last, z
<1>14. ASSUME NEW i \in DOMAIN nu[s].records, NEW j \in DOMAIN nu[t].records,
              nu[s].records[i].record_id = nu[t].records[j].record_id
       PROVE  s = t /\ i = j
  BY <1>5, <1>6, <1>13, <1>14
<1>15. ASSUME NEW i \in DOMAIN nu[s].observations, NEW j \in DOMAIN nu[t].observations,
              nu[s].observations[i].record_id = nu[t].observations[j].record_id
       PROVE  s = t /\ i = j
  BY <1>5, <1>6, <1>13, <1>15
<1>16. ASSUME NEW i \in DOMAIN nu[s].records, NEW j \in DOMAIN nu[t].observations
       PROVE  nu[s].records[i].record_id # nu[t].observations[j].record_id
  BY <1>5, <1>6, <1>13
<1> QED
  BY <1>14, <1>15, <1>16

(* What holds an id after a document is installed. *)
LEMMA HoldingInstalled ==
  ASSUME NEW docs \in [Subjects -> StoredSubject \cup {None}],
         NEW w \in Write, Valid(w), Later(w),
         check(Expects(w), held_revision(docs[SubjectOf(w)])), NEW r
  PROVE  LET z  == SubjectOf(w)
             nu == [docs EXCEPT ![z] = Written(docs[z], w)]
         IN /\ nu \in [Subjects -> StoredSubject \cup {None}]
            /\ Holding(nu, r) = IF w.kind # "commit" /\ r = IdOf(w)
                                THEN Holding(docs, r) \cup {z} ELSE Holding(docs, r)
            /\ \A s \in Subjects :
                 HasObservation(nu[s], r)
                   <=> \/ HasObservation(docs[s], r)
                       \/ w.kind = "observe" /\ r = IdOf(w) /\ s = z
<1> DEFINE z == SubjectOf(w)
           y == Written(docs[z], w)
           nu == [docs EXCEPT ![z] = y]
<1>1. z \in Subjects /\ docs[z] \in StoredSubject \cup {None}
      /\ w.kind \in {"commit", "commit_recorded", "observe"}
  BY WriteFacts
<1>2. y \in StoredSubject
  BY <1>1, WrittenFacts
<1>3. /\ HasRecord(y, r)
           <=> HasRecord(docs[z], r) \/ (w.kind = "commit_recorded" /\ r = IdOf(w))
      /\ HasObservation(y, r)
           <=> HasObservation(docs[z], r) \/ (w.kind = "observe" /\ r = IdOf(w))
  BY <1>1, WrittenHas
<1> HIDE DEF y
<1>4. /\ nu \in [Subjects -> StoredSubject \cup {None}]
      /\ nu[z] = y /\ \A s \in Subjects : s # z => nu[s] = docs[s]
  BY <1>1, <1>2
<1> HIDE DEF nu, z
<1>5. /\ Holding(nu, r) =
           {s \in Subjects : HasRecord(nu[s], r) \/ HasObservation(nu[s], r)}
      /\ Holding(docs, r) =
           {s \in Subjects : HasRecord(docs[s], r) \/ HasObservation(docs[s], r)}
  BY <1>4, HoldingFacts
<1>6. ASSUME NEW s \in Subjects
      PROVE  s \in Holding(nu, r)
               <=> s \in Holding(docs, r) \/ (w.kind # "commit" /\ r = IdOf(w) /\ s = z)
  <2>1. CASE s = z
    BY <2>1, <1>1, <1>3, <1>4, <1>5
  <2>2. CASE s # z
    BY <2>2, <1>4, <1>5
  <2> QED
    BY <2>1, <2>2
<1>7. Holding(nu, r) \subseteq Subjects /\ Holding(docs, r) \subseteq Subjects
  BY <1>5
<1>8. Holding(nu, r) = IF w.kind # "commit" /\ r = IdOf(w)
                       THEN Holding(docs, r) \cup {z} ELSE Holding(docs, r)
  BY <1>1, <1>6, <1>7
<1>9. \A s \in Subjects :
        HasObservation(nu[s], r)
          <=> \/ HasObservation(docs[s], r)
              \/ w.kind = "observe" /\ r = IdOf(w) /\ s = z
  BY <1>3, <1>4
<1> QED
  BY <1>4, <1>8, <1>9 DEF nu, y, z

(* An exact index is exact again once it has learned of the new entry. *)
LEMMA ScanInstalled ==
  ASSUME NEW docs \in [Subjects -> StoredSubject \cup {None}],
         NEW w \in Write, Valid(w), Later(w),
         check(Expects(w), held_revision(docs[SubjectOf(w)])),
         w.kind # "commit" => Holding(docs, IdOf(w)) = {},
         NEW handle \in Handle, handle.index # None, ScanMay(docs, handle.index)
  PROVE  ScanMay([docs EXCEPT ![SubjectOf(w)] = Written(docs[SubjectOf(w)], w)],
                 Learned(handle, w).index)
<1> DEFINE z == SubjectOf(w)
           nu == [docs EXCEPT ![z] = Written(docs[z], w)]
           new == Learned(handle, w).index
<1>1. /\ nu \in [Subjects -> StoredSubject \cup {None}]
      /\ \A r :
           /\ Holding(nu, r) = IF w.kind # "commit" /\ r = IdOf(w)
                               THEN Holding(docs, r) \cup {z} ELSE Holding(docs, r)
           /\ \A s \in Subjects :
                HasObservation(nu[s], r)
                  <=> \/ HasObservation(docs[s], r)
                      \/ w.kind = "observe" /\ r = IdOf(w) /\ s = z
  BY HoldingInstalled
<1>2. /\ w.kind = "commit" => new = handle.index
      /\ w.kind # "commit" =>
           /\ handle.index \in [RecordIds -> Location \cup {None}]
           /\ IdOf(w) \in RecordIds
           /\ new = [handle.index EXCEPT ![IdOf(w)] =
                       [subject |-> z, observation |-> w.kind = "observe"]]
  BY LearnedFacts
<1>3. z \in Subjects
  BY WriteFacts
<1> HIDE DEF nu, new, z
<1>4. \A r \in RecordIds :
        IF Holding(docs, r) = {} THEN handle.index[r] = None
        ELSE \E s \in Holding(docs, r) :
               handle.index[r] = [subject |-> s, observation |-> HasObservation(docs[s], r)]
  BY ScanFacts
<1>5. ASSUME NEW r \in RecordIds
      PROVE  IF Holding(nu, r) = {} THEN new[r] = None
             ELSE \E s \in Holding(nu, r) :
                    new[r] = [subject |-> s, observation |-> HasObservation(nu[s], r)]
  <2>1. CASE w.kind # "commit" /\ r = IdOf(w)
    <3>1. Holding(nu, r) = {z}
      BY <2>1, <1>1
    <3>2. ~HasObservation(docs[z], r)
      BY <2>1, <1>3, HoldingFacts
    <3>3. HasObservation(nu[z], r) = (w.kind = "observe")
      <4>1. HasObservation(nu[z], r) <=> (w.kind = "observe")
        BY <2>1, <3>2, <1>1, <1>3
      <4> QED
        BY <4>1 DEF HasObservation
    <3>4. new[r] = [subject |-> z, observation |-> w.kind = "observe"]
      BY <2>1, <1>2
    <3> QED
      BY <3>1, <3>3, <3>4
  <2>2. CASE w.kind = "commit" \/ r # IdOf(w)
    <3>1. Holding(nu, r) = Holding(docs, r)
      BY <2>2, <1>1
    <3>2. new[r] = handle.index[r]
      BY <2>2, <1>2
    <3>3. ASSUME NEW s \in Holding(docs, r)
          PROVE  HasObservation(nu[s], r) = HasObservation(docs[s], r)
      <4>1. HasObservation(nu[s], r) <=> HasObservation(docs[s], r)
        BY <2>2, <1>1 DEF Holding
      <4> QED
        BY <4>1 DEF HasObservation
    <3> QED
      BY <3>1, <3>2, <3>3, <1>4
  <2> QED
    BY <2>1, <2>2
<1>6. ScanMay(nu, new)
  BY <1>1, <1>5, ScanFacts
<1> QED
  BY <1>6 DEF nu, new, z

(* A lookup that finds nothing through an exact index, or before the root   *)
(* is marked, is right.                                                     *)
LEMMA LookupFacts ==
  ASSUME BaseInvariant, NEW index \in [RecordIds -> Location \cup {None}],
         marker => ScanMay(subjects, index), NEW r \in RecordIds,
         record_document(index, r) = None
  PROVE  Holding(subjects, r) = {}
<1> SUFFICES ASSUME Holding(subjects, r) # {} PROVE FALSE
  OBVIOUS
<1>1. subjects \in [Subjects -> StoredSubject \cup {None}]
  BY DEF BaseInvariant, TypeOK
<1>2. marker
  <2>1. \E s \in Subjects : subjects[s] # None
    BY DEF Holding
  <2> QED
    BY <2>1 DEF BaseInvariant, MarkerHolds
<1>3. PICK s \in Holding(subjects, r) :
        index[r] = [subject |-> s, observation |-> HasObservation(subjects[s], r)]
  BY <1>1, <1>2, ScanFacts
<1>4. /\ subjects[s] \in StoredSubject
      /\ HasRecord(subjects[s], r) \/ HasObservation(subjects[s], r)
  BY <1>1, <1>3, HoldingFacts, StoredFacts DEF HasRecord, HasObservation
<1> DEFINE x == subjects[s]
           o == FindObservation(x, r)
           e == FindRecord(x, r)
<1>5. x # None /\ index[r] # None
  <2>1. s \in Subjects /\ HasObservation(subjects[s], r) \in BOOLEAN
    BY DEF Holding, HasObservation
  <2>2. index[r] \in Location
    BY <1>3, <2>1 DEF Location
  <2> QED
    BY <1>4, <2>2, StoredFacts, FileAssumption
<1>6. record_document(index, r) =
        IF HasObservation(x, r) THEN IF o = 0 THEN None ELSE x.observations[o]
        ELSE IF e = 0 THEN None
             ELSE [instance |-> x.records[e].result, envelope |-> x.records[e]]
  BY <1>2, <1>3, <1>5 DEF record_document
<1>7. (o = 0 <=> ~HasObservation(x, r)) /\ (e = 0 <=> ~HasRecord(x, r))
  BY <1>4, HasFacts
<1>8. CASE HasObservation(x, r)
  <2>1. x.observations[o] \in RecordedObservation
    BY <1>4, <1>7, <1>8, FindObservationFacts, StoredFacts
  <2> QED
    BY <2>1, <1>6, <1>7, <1>8, StoreAssumption DEF Document
<1>9. CASE ~HasObservation(x, r)
  <2>1. x.records[e] \in Envelope
    BY <1>4, <1>7, <1>9, FindRecordFacts, StoredFacts
  <2>2. [instance |-> x.records[e].result, envelope |-> x.records[e]] \in RecordedCommit
    BY <2>1, EnvelopeFacts DEF RecordedCommit
  <2> QED
    BY <2>2, <1>4, <1>6, <1>7, <1>9, StoreAssumption DEF Document
<1> QED
  BY <1>8, <1>9

(* A step that leaves the documents alone and teaches no handle anything. *)
LEMMA IdsQuietly ==
  ASSUME RecordIdsGlobal, IndexHolds, FreshHolds, subjects' = subjects,
         \A g \in Handles :
           Knows(g)'.index # None /\ Knows(g)'.epoch = epoch' =>
             \E f \in Handles : Knows(g)'.index = Knows(f).index /\ Knows(f).epoch = epoch,
         \A g \in Handles : calls'[g].pc \in {"stage", "install"} =>
           calls[g].pc \in {"stage", "install"} /\ calls'[g].write = calls[g].write
  PROVE  RecordIdsGlobal' /\ IndexHolds' /\ FreshHolds'
<1>1. RecordIdsGlobal'
  BY DEF RecordIdsGlobal
<1>2. IndexHolds'
  <2> SUFFICES ASSUME NEW g \in Handles,
                      Knows(g)'.index # None, Knows(g)'.epoch = epoch'
               PROVE  ScanMay(subjects, Knows(g)'.index)
    BY DEF IndexHolds
  <2>1. PICK f \in Handles : Knows(g)'.index = Knows(f).index /\ Knows(f).epoch = epoch
    OBVIOUS
  <2> QED
    BY <2>1 DEF IndexHolds
<1>3. FreshHolds'
  BY DEF FreshHolds
<1> QED
  BY <1>1, <1>2, <1>3

(* A call that returns without having installed a document. *)
LEMMA IdsReturn ==
  ASSUME BaseInvariant, RecordIdsGlobal, IndexHolds, FreshHolds, NEW h \in Handles,
         NEW answer \in {"ok"} \cup Refusals, Return(h, answer), calls[h].pc # "sync",
         UNCHANGED <<setup, subjects, epoch, handles>>
  PROVE  RecordIdsGlobal' /\ IndexHolds' /\ FreshHolds'
<1>1. calls'[h].pc = "idle" /\ \A g \in Handles : g # h => calls'[g] = calls[g]
  BY ReturnFacts
<1>2. \A g \in Handles : Knows(g)' = Knows(g)
  BY <1>1 DEF Knows
<1> QED
  BY <1>1, <1>2, IdsQuietly

(* A call that begins, or goes on with an acquisition. *)
LEMMA IdsGoto ==
  ASSUME BaseInvariant, RecordIdsGlobal, IndexHolds, FreshHolds, NEW h \in Handles,
         calls[h].pc \in {"idle", "acquire"}, calls'[h].pc \in {"idle", "lock", "acquire"},
         \A g \in Handles : g # h => calls'[g] = calls[g],
         UNCHANGED <<subjects, epoch, handles>>
  PROVE  RecordIdsGlobal' /\ IndexHolds' /\ FreshHolds'
<1>1. \A g \in Handles : Knows(g)' = Knows(g)
  BY DEF Knows
<1> QED
  BY <1>1, IdsQuietly

(* A handle that takes the lock trusts its index or scans anew. *)
LEMMA LockIds ==
  ASSUME BaseInvariant, RecordIdsGlobal, IndexHolds, FreshHolds, NEW h \in Handles, Lock(h)
  PROVE  RecordIdsGlobal' /\ IndexHolds' /\ FreshHolds'
<1>1. /\ UNCHANGED <<setup, subjects>> /\ epoch' = epoch + 1
      /\ calls[h].pc = "lock" /\ writer = None
  BY DEF Lock, LockFree, disk
<1>2. TypeOK /\ epoch \in Nat
  BY FileAssumption DEF BaseInvariant, TypeOK
<1>3. \A g \in Handles : calls[g].pc \notin Writing /\ Knows(g) = handles[g]
  BY <1>1, FileAssumption DEF BaseInvariant, LockHolds, Writing, Knows
<1>4. \A g \in Handles : handles[g].epoch # epoch + 1
  <2>1. \A g \in Handles : handles[g].epoch = None \/ handles[g].epoch \in Nat
    BY <1>2 DEF TypeOK, Handle
  <2> QED
    BY <1>2, <2>1, StoreAssumption DEF BaseInvariant, EpochHolds
<1>5. CASE /\ handles' = [handles EXCEPT ![h] = [index |-> KeptIndex(handles[h]),
                                                 epoch |-> epoch + 1]]
           /\ Goto(h, "decide")
  <2>1. /\ calls'[h] = [calls[h] EXCEPT !.pc = "decide"]
        /\ \A g \in Handles : g # h => calls'[g] = calls[g]
    BY <1>2, <1>5, MovesTo
  <2>2. calls'[h].pc = "decide"
    BY <1>2, <2>1 DEF TypeOK, Call
  <2>3. \A g \in Handles : Knows(g)' = handles'[g]
    BY <1>3, <2>1, <2>2 DEF Knows, Writing
  <2>4. /\ handles'[h].index = KeptIndex(handles[h])
        /\ \A g \in Handles : g # h => handles'[g] = handles[g]
    BY <1>2, <1>5 DEF TypeOK
  <2>5. ASSUME NEW g \in Handles, Knows(g)'.index # None, Knows(g)'.epoch = epoch'
        PROVE  \E f \in Handles : Knows(g)'.index = Knows(f).index /\ Knows(f).epoch = epoch
    <3>1. g = h
      BY <1>1, <1>4, <2>3, <2>4, <2>5
    <3>2. KeptIndex(handles[h]) = handles[h].index /\ handles[h].epoch = epoch
      BY <1>2, <2>3, <2>4, <2>5, <3>1, KeptFacts
    <3> QED
      BY <1>3, <2>3, <2>4, <3>1, <3>2
  <2> QED
    BY <1>1, <2>1, <2>2, <2>5, IdsQuietly
<1>6. CASE /\ handles' = [handles EXCEPT ![h].index = KeptIndex(handles[h])]
           /\ Return(h, "backend")
  <2>1. calls'[h].pc = "idle" /\ \A g \in Handles : g # h => calls'[g] = calls[g]
    BY <1>1, <1>6, ReturnFacts DEF Refusals
  <2>2. \A g \in Handles : handles'[g].epoch = handles[g].epoch
    BY <1>2, <1>6 DEF TypeOK, Handle
  <2>3. \A g \in Handles : Knows(g)' = handles'[g]
    BY <1>3, <2>1 DEF Knows, Writing
  <2>4. \A g \in Handles : Knows(g)'.epoch # epoch'
    BY <1>1, <1>4, <2>2, <2>3
  <2> QED
    BY <1>1, <2>1, <2>4, IdsQuietly
<1> QED
  BY <1>5, <1>6 DEF Lock

(* A write that is decided names a free record id. *)
LEMMA DecideIds ==
  ASSUME BaseInvariant, RecordIdsGlobal, IndexHolds, FreshHolds, NEW h \in Handles,
         DecideWrite(h)
  PROVE  RecordIdsGlobal' /\ IndexHolds' /\ FreshHolds'
<1> DEFINE w == calls[h].write
           looks == marker /\ w.kind # "commit"
<1>1. calls[h].pc = "decide" /\ UNCHANGED <<setup, subjects, epoch>>
  BY DEF DecideWrite, disk
<1>2. /\ w \in Write /\ Valid(w) /\ TypeOK
      /\ subjects \in [Subjects -> StoredSubject \cup {None}]
  BY <1>1, WriteUnderWay DEF BaseInvariant, TypeOK
<1>3. PICK index \in [RecordIds -> Location \cup {None}] :
        /\ IF looks /\ handles[h].index = None THEN ScanMay(subjects, index)
           ELSE index = IF handles[h].index = None
                        THEN [r \in RecordIds |-> None] ELSE handles[h].index
        /\ handles' = IF looks THEN [handles EXCEPT ![h].index = index] ELSE handles
        /\ IF Decide(index, w).outcome = "write"
           THEN calls' = [calls EXCEPT ![h].pc = "stage",
                                       ![h].stored = Decide(index, w).stored]
           ELSE Return(h, Decide(index, w).outcome)
  BY DEF DecideWrite
<1> DEFINE v == Decide(index, w)
<1>4. /\ v.outcome \in {"write", "ok"} \cup Refusals
      /\ v.outcome = "write" /\ w.kind # "commit" => record_document(index, IdOf(w)) = None
  BY <1>2, DecideFacts DEF BaseInvariant
<1> HIDE DEF v
<1>5. \A g \in Handles : g # h => calls[g].pc \notin Writing
  BY <1>1 DEF BaseInvariant, LockHolds, Writing
<1>6. handles[h].epoch = epoch
  BY <1>1 DEF BaseInvariant, LockHolds, EpochHolds, Writing
<1>7. looks => ScanMay(subjects, index)
  <2>1. Knows(h) = handles[h]
    BY <1>1 DEF Knows
  <2> QED
    BY <1>3, <1>6, <2>1 DEF IndexHolds
<1>8. /\ calls'[h].pc # "sync" /\ calls'[h].write # w => calls'[h].pc = "idle"
      /\ calls'[h].pc # "install"
      /\ calls'[h].pc # "sync"
      /\ calls'[h].pc = "stage" => v.outcome = "write" /\ calls'[h].write = w
      /\ \A g \in Handles : g # h => calls'[g] = calls[g]
  <2>1. CASE v.outcome = "write"
    <3>1. calls' = [calls EXCEPT ![h] = [calls[h] EXCEPT !.pc = "stage", !.stored = v.stored]]
      BY <1>3, <2>1 DEF v
    <3>2. calls[h] \in Call /\ calls \in [Handles -> Call]
      BY <1>2 DEF TypeOK
    <3> QED
      BY <2>1, <3>1, <3>2 DEF Call
  <2>2. CASE v.outcome # "write"
    <3>1. Return(h, v.outcome) /\ v.outcome \in {"ok"} \cup Refusals
      BY <1>3, <1>4, <2>2 DEF v
    <3>2. calls'[h].pc = "idle" /\ \A g \in Handles : g # h => calls'[g] = calls[g]
      BY <1>1, <3>1, ReturnFacts
    <3> QED
      BY <3>2
  <2> QED
    BY <2>1, <2>2
<1>9. RecordIdsGlobal'
  BY <1>1 DEF RecordIdsGlobal
<1>10. IndexHolds'
  <2> SUFFICES ASSUME NEW g \in Handles,
                      Knows(g)'.index # None, Knows(g)'.epoch = epoch'
               PROVE  ScanMay(subjects, Knows(g)'.index)
    BY <1>1 DEF IndexHolds
  <2>1. CASE g = h
    <3>1. Knows(h)' = handles'[h] /\ Knows(h) = handles[h]
      BY <1>1, <1>8 DEF Knows
    <3>2. CASE looks
      <4>1. handles'[h].index = index
        BY <1>2, <1>3, <3>2 DEF TypeOK, Handle
      <4> QED
        BY <1>7, <2>1, <3>1, <3>2, <4>1
    <3>3. CASE ~looks
      BY <1>3, <1>6, <2>1, <3>1, <3>3 DEF IndexHolds
    <3> QED
      BY <3>2, <3>3
  <2>2. CASE g # h
    <3>1. Knows(g)' = handles'[g] /\ Knows(g) = handles[g]
      BY <1>5, <1>8, <2>2 DEF Knows, Writing
    <3>2. handles'[g] = handles[g]
      BY <1>2, <1>3, <2>2 DEF TypeOK
    <3> QED
      BY <1>1, <3>1, <3>2 DEF IndexHolds
  <2> QED
    BY <2>1, <2>2
<1>11. FreshHolds'
  <2> SUFFICES ASSUME NEW g \in Handles, calls'[g].pc \in {"stage", "install"},
                      calls'[g].write.kind # "commit"
               PROVE  Holding(subjects, IdOf(calls'[g].write)) = {}
    BY <1>1 DEF FreshHolds
  <2>1. g = h /\ v.outcome = "write" /\ calls'[h].write = w
    BY <1>5, <1>8 DEF Writing
  <2>2. record_document(index, IdOf(w)) = None /\ IdOf(w) \in RecordIds
    BY <1>2, <1>4, <2>1, ValidFacts, WriteFacts DEF IdOf
  <2>3. marker => ScanMay(subjects, index)
    BY <1>7, <2>1
  <2> QED
    BY <2>1, <2>2, <2>3, LookupFacts
<1> QED
  BY <1>9, <1>10, <1>11

(* An installed write adds the one id it names. *)
LEMMA InstallIds ==
  ASSUME BaseInvariant, RecordIdsGlobal, IndexHolds, FreshHolds, NEW h \in Handles,
         Install(h)
  PROVE  RecordIdsGlobal' /\ IndexHolds' /\ FreshHolds'
<1> DEFINE w == calls[h].write
           s == SubjectOf(w)
<1>1. calls[h].pc = "install" /\ UNCHANGED <<setup, epoch, handles>>
  BY DEF Install
<1>2. /\ w \in Write /\ Valid(w) /\ Later(w) /\ TypeOK
      /\ subjects \in [Subjects -> StoredSubject \cup {None}]
  BY <1>1, WriteUnderWay DEF BaseInvariant, TypeOK
<1>3. CASE subjects' = [subjects EXCEPT ![s] = calls[h].stored] /\ Goto(h, "sync")
  <2>1. /\ calls'[h] = [calls[h] EXCEPT !.pc = "sync"]
        /\ \A g \in Handles : g # h => calls'[g] = calls[g]
    BY <1>3, MovesTo DEF BaseInvariant
  <2>2. calls'[h].pc = "sync" /\ calls'[h].write = w
    BY <2>1 DEF BaseInvariant, TypeOK, Call
  <2>3. /\ calls[h].stored = Written(subjects[s], w)
        /\ check(Expects(w), held_revision(subjects[s]))
    BY <1>1 DEF BaseInvariant, StagedHolds
  <2>4. w.kind # "commit" => Holding(subjects, IdOf(w)) = {}
    BY <1>1 DEF FreshHolds
  <2>5. subjects' = [subjects EXCEPT ![s] = Written(subjects[s], w)]
    BY <1>3, <2>3
  <2> HIDE DEF w, s
  <2>6. \A g \in Handles : g # h => calls[g].pc \notin Writing
    BY <1>1 DEF BaseInvariant, LockHolds, Writing
  <2>7. /\ handles[h].epoch = epoch
        /\ \A g \in Handles : g # h => handles[g].epoch # epoch
    BY <1>1 DEF BaseInvariant, LockHolds, EpochHolds, Writing
  <2>8. RecordIdsGlobal'
    BY <1>2, <2>3, <2>4, <2>5, IdsInstalled DEF RecordIdsGlobal, s
  <2>9. IndexHolds'
    <3> SUFFICES ASSUME NEW g \in Handles,
                        Knows(g)'.index # None, Knows(g)'.epoch = epoch'
                 PROVE  ScanMay(subjects', Knows(g)'.index)
      BY DEF IndexHolds
    <3>1. CASE g = h
      <4>1. Knows(h)' = Learned(handles[h], w) /\ Knows(h) = handles[h]
        BY <1>1, <2>2 DEF Knows
      <4>2. handles[h] \in Handle
        BY <1>2 DEF TypeOK
      <4>3. handles[h].index # None
        BY <1>2, <3>1, <4>1, <4>2, LearnedFacts
      <4>4. ScanMay(subjects, handles[h].index)
        BY <2>7, <4>1, <4>3 DEF IndexHolds
      <4> QED
        BY <1>2, <2>3, <2>4, <2>5, <3>1, <4>1, <4>2, <4>3, <4>4,
          ScanInstalled DEF s
    <3>2. CASE g # h
      <4>1. Knows(g)' = handles[g]
        BY <1>1, <2>1, <2>6, <3>2 DEF Knows, Writing
      <4> QED
        BY <1>1, <2>7, <3>2, <4>1
    <3> QED
      BY <3>1, <3>2
  <2>10. FreshHolds'
    BY <2>1, <2>2, <2>6 DEF FreshHolds, Writing
  <2> QED
    BY <2>8, <2>9, <2>10
<1>4. CASE Return(h, "backend") /\ UNCHANGED subjects
  BY <1>1, <1>4, IdsReturn DEF Refusals
<1> QED
  BY <1>3, <1>4 DEF Install

(* A handle that syncs learns the id it wrote. *)
LEMMA SyncIds ==
  ASSUME BaseInvariant, Synced, RecordIdsGlobal, IndexHolds, FreshHolds, NEW h \in Handles,
         Sync(h)
  PROVE  RecordIdsGlobal' /\ IndexHolds' /\ FreshHolds'
<1>1. /\ calls[h].pc = "sync" /\ UNCHANGED <<setup, subjects, epoch>>
      /\ handles' = [handles EXCEPT ![h] = Learned(@, calls[h].write)]
      /\ Return(h, "ok")
  BY DEF Sync, Synced
<1>2. calls'[h].pc = "idle" /\ \A g \in Handles : g # h => calls'[g] = calls[g]
  BY <1>1, ReturnFacts
<1>3. /\ handles'[h] = Learned(handles[h], calls[h].write)
      /\ \A g \in Handles : g # h => handles'[g] = handles[g]
  BY <1>1 DEF BaseInvariant, TypeOK
<1>4. \A g \in Handles : Knows(g)' = Knows(g)
  <2>1. Knows(h)' = Knows(h)
    BY <1>1, <1>2, <1>3 DEF Knows
  <2>2. \A g \in Handles : g # h => Knows(g)' = Knows(g)
    BY <1>2, <1>3 DEF Knows
  <2> QED
    BY <2>1, <2>2
<1> QED
  BY <1>1, <1>2, <1>4, IdsQuietly

(* A process dies: its handle forgets, the others know what they knew. *)
LEMMA CrashIds ==
  ASSUME BaseInvariant, RecordIdsGlobal, IndexHolds, FreshHolds, NEW h \in Handles,
         Crash(h)
  PROVE  RecordIdsGlobal' /\ IndexHolds' /\ FreshHolds'
<1>1. /\ handles' = [handles EXCEPT ![h] = Opened]
      /\ calls' = [calls EXCEPT ![h] = Idle]
      /\ UNCHANGED <<subjects, epoch>>
  BY DEF Crash
<1>2. /\ handles'[h] = Opened /\ calls'[h] = Idle
      /\ \A g \in Handles : g # h => handles'[g] = handles[g] /\ calls'[g] = calls[g]
  BY <1>1 DEF BaseInvariant, TypeOK
<1>3. Idle.pc = "idle" /\ Opened.index = None
  BY DEF Idle, Opened
<1>4. Knows(h)' = Opened /\ \A g \in Handles : g # h => Knows(g)' = Knows(g)
  BY <1>2, <1>3 DEF Knows
<1> QED
  BY <1>1, <1>2, <1>3, <1>4, IdsQuietly

(* After a power cut no handle knows anything, and the documents are cut    *)
(* back to what they continued.                                             *)
LEMMA CutIds ==
  ASSUME BaseInvariant, RecordIdsGlobal, PowerCut
  PROVE  RecordIdsGlobal' /\ IndexHolds' /\ FreshHolds'
<1>1. /\ \A s \in Subjects : subjects'[s] \in {None, durable[s], subjects[s]}
      /\ \A h \in Handles : handles'[h] = Opened /\ calls'[h] = Idle
  BY CutFacts
<1>2. Idle.pc = "idle" /\ Opened.index = None
  BY DEF Idle, Opened
<1>3. \A s \in Subjects : Continues(subjects'[s], subjects[s])
  <2>1. ASSUME NEW s \in Subjects
        PROVE  Continues(subjects'[s], subjects[s])
    <3>1. /\ subjects[s] \in StoredSubject \cup {None}
          /\ Continues(durable[s], subjects[s])
      BY DEF BaseInvariant, TypeOK, DurableHolds
    <3>2. Continues(subjects[s], subjects[s]) /\ Continues(None, subjects[s])
      BY <3>1, ContinuesReflexive DEF Continues
    <3> QED
      BY <1>1, <3>1, <3>2
  <2> QED
    BY <2>1
<1>4. RecordIdsGlobal'
  BY <1>3, IdsCutBack DEF RecordIdsGlobal
<1>5. IndexHolds'
  BY <1>1, <1>2 DEF IndexHolds, Knows
<1>6. FreshHolds'
  BY <1>1, <1>2 DEF FreshHolds
<1> QED
  BY <1>4, <1>5, <1>6

(* The steps of a write keep the ids. *)
LEMMA StepIds ==
  ASSUME BaseInvariant, Synced, RecordIdsGlobal, IndexHolds, FreshHolds, NEW h \in Handles,
         Step(h)
  PROVE  RecordIdsGlobal' /\ IndexHolds' /\ FreshHolds'
<1>1. ASSUME Stage(h)
      PROVE  RecordIdsGlobal' /\ IndexHolds' /\ FreshHolds'
  <2>1. calls[h].pc = "stage" /\ UNCHANGED <<setup, subjects, epoch, handles>>
    BY <1>1 DEF Stage
  <2>2. CASE Goto(h, "install")
    <3>1. /\ calls'[h] = [calls[h] EXCEPT !.pc = "install"]
          /\ \A g \in Handles : g # h => calls'[g] = calls[g]
      BY <2>2, MovesTo DEF BaseInvariant
    <3>2. calls'[h].pc = "install" /\ calls'[h].write = calls[h].write
      BY <3>1 DEF BaseInvariant, TypeOK, Call
    <3>3. \A g \in Handles : Knows(g)' = Knows(g)
      BY <2>1, <3>1, <3>2 DEF Knows
    <3> QED
      BY <2>1, <3>1, <3>2, <3>3, IdsQuietly
  <2>3. CASE Return(h, "backend")
    BY <2>1, <2>3, IdsReturn DEF Refusals
  <2> QED
    BY <1>1, <2>2, <2>3 DEF Stage
<1>2. ASSUME NEW s \in Subjects, AcquireSubject(h, s)
      PROVE  RecordIdsGlobal' /\ IndexHolds' /\ FreshHolds'
  <2>1. calls[h].pc = "acquire" /\ UNCHANGED <<setup, subjects, epoch, handles>>
    BY <1>2 DEF AcquireSubject, disk
  <2>2. CASE Return(h, "backend")
    BY <2>1, <2>2, IdsReturn DEF Refusals
  <2>3. CASE calls' = [calls EXCEPT ![h].todo = @ \ {s}, ![h].taken[s] = subjects[s]]
    <3>1. calls'[h].pc = "acquire" /\ \A g \in Handles : g # h => calls'[g] = calls[g]
      BY <2>1, <2>3 DEF BaseInvariant, TypeOK, Call
    <3> QED
      BY <2>1, <3>1, IdsGoto
  <2> QED
    BY <1>2, <2>2, <2>3 DEF AcquireSubject
<1>3. ASSUME Acquired(h)
      PROVE  RecordIdsGlobal' /\ IndexHolds' /\ FreshHolds'
  BY <1>3, IdsReturn DEF Acquired, disk
<1> QED
  BY <1>1, <1>2, <1>3, LockIds, DecideIds, InstallIds, SyncIds DEF Step

(* Every step keeps the record ids global. *)
LEMMA NextIds == IdInvariant /\ [Next]_vars => IdInvariant'
<1> SUFFICES ASSUME IdInvariant, [Next]_vars, Synced'
             PROVE  RecordIdsGlobal' /\ IndexHolds' /\ FreshHolds'
  BY NextBase DEF IdInvariant
<1>1. BaseInvariant /\ Synced /\ RecordIdsGlobal /\ IndexHolds /\ FreshHolds
  BY SetupSame DEF IdInvariant, Synced
<1>2. CASE UNCHANGED vars
  <2>1. UNCHANGED <<subjects, epoch, handles, calls>>
    BY <1>2 DEF vars
  <2>2. \A g \in Handles : Knows(g)' = Knows(g)
    BY <2>1 DEF Knows
  <2> QED
    BY <1>1, <2>1, <2>2, IdsQuietly
<1>3. CASE PowerCut
  BY <1>1, <1>3, CutIds
<1>4. ASSUME NEW h \in Handles, NEW w \in setup.writes, Begin(h, w)
      PROVE  RecordIdsGlobal' /\ IndexHolds' /\ FreshHolds'
  <2>1. /\ UNCHANGED <<subjects, epoch, handles>> /\ calls[h].pc = "idle"
        /\ calls' = [calls EXCEPT ![h] = IF Valid(w)
                       THEN [Idle EXCEPT !.pc = "lock", !.write = w]
                       ELSE [Idle EXCEPT !.answer = "backend"]]
    BY <1>4 DEF Begin, disk, lock
  <2>2. calls'[h].pc \in {"lock", "idle"} /\ \A g \in Handles : g # h => calls'[g] = calls[g]
    BY <1>1, <2>1 DEF BaseInvariant, TypeOK, Idle
  <2> QED
    BY <1>1, <2>1, <2>2, IdsGoto
<1>5. ASSUME NEW h \in Handles, Step(h)
      PROVE  RecordIdsGlobal' /\ IndexHolds' /\ FreshHolds'
  BY <1>1, <1>5, StepIds
<1>6. ASSUME NEW h \in Handles, Acquire(h)
      PROVE  RecordIdsGlobal' /\ IndexHolds' /\ FreshHolds'
  <2>1. /\ UNCHANGED <<subjects, epoch, handles>> /\ calls[h].pc = "idle"
        /\ calls' = [calls EXCEPT ![h] = IF ~marker THEN [Idle EXCEPT !.answer = "ok"]
                       ELSE IF epoch = 0 THEN [Idle EXCEPT !.answer = "backend"]
                       ELSE [Idle EXCEPT !.pc = "acquire", !.todo = Here \cup stale]]
    BY <1>6 DEF Acquire, disk
  <2>2. calls'[h].pc \in {"acquire", "idle"} /\ \A g \in Handles : g # h => calls'[g] = calls[g]
    BY <1>1, <2>1 DEF BaseInvariant, TypeOK, Idle
  <2> QED
    BY <1>1, <2>1, <2>2, IdsGoto
<1>7. ASSUME NEW h \in Handles, NEW g \in Handles, Clone(h, g)
      PROVE  RecordIdsGlobal' /\ IndexHolds' /\ FreshHolds'
  <2>1. /\ calls[h].pc = "idle" /\ calls[g].pc = "idle"
        /\ handles' = [handles EXCEPT ![g] = handles[h]]
        /\ UNCHANGED <<subjects, epoch, calls>>
    BY <1>7 DEF Clone, disk, lock
  <2>2. /\ handles'[g] = handles[h]
        /\ \A f \in Handles : f # g => handles'[f] = handles[f]
    BY <1>1, <2>1 DEF BaseInvariant, TypeOK
  <2>3. Knows(g)' = Knows(h) /\ \A f \in Handles : f # g => Knows(f)' = Knows(f)
    BY <2>1, <2>2 DEF Knows
  <2> QED
    BY <1>1, <2>1, <2>3, IdsQuietly
<1>8. ASSUME NEW h \in Handles, Crash(h)
      PROVE  RecordIdsGlobal' /\ IndexHolds' /\ FreshHolds'
  BY <1>1, <1>8, CrashIds
<1> QED
  BY <1>2, <1>3, <1>4, <1>5, <1>6, <1>7, <1>8 DEF Next

(* The indexes that handles trust are scans of the documents, and no entry  *)
(* under way has an id that some document has.                              *)
THEOREM IdsInductive == Spec => []IdInvariant
<1>1. Init => IdInvariant
  <2> SUFFICES ASSUME Init PROVE RecordIdsGlobal /\ IndexHolds /\ FreshHolds
    BY InitBase DEF IdInvariant
  <2>1. \A h \in Handles : handles[h] = Opened /\ calls[h] = Idle
    BY DEF Init
  <2>2. Idle.pc = "idle" /\ Opened.index = None
    BY DEF Idle, Opened
  <2>3. \A s \in Subjects : subjects[s] # None =>
          subjects[s].records = << >> /\ subjects[s].observations = << >>
    BY FileAssumption DEF Init, Migrated
  <2>4. RecordIdsGlobal
    BY <2>3 DEF RecordIdsGlobal, IdsGlobal
  <2>5. IndexHolds /\ FreshHolds
    BY <2>1, <2>2 DEF IndexHolds, FreshHolds, Knows
  <2> QED
    BY <2>4, <2>5
<1>2. IdInvariant /\ [Next]_vars => IdInvariant'
  BY NextIds
<1> QED
  BY <1>1, <1>2, PTL DEF Spec

(* Where every directory is synced after a rename, a record id is given to  *)
(* one entry of one subject, whichever handles wrote, cached and crashed.   *)
THEOREM IdsAreGlobal == Spec => [](Synced => RecordIdsGlobal)
<1>1. IdInvariant => (Synced => RecordIdsGlobal)
  BY DEF IdInvariant
<1> QED
  BY <1>1, IdsInductive, PTL

-----------------------------------------------------------------------------
(* Where every directory is synced after a rename, the handles of a file   *)
(* store answer as the contract does, and together they implement it.      *)

(* The record ids of the store the documents are. *)

(* Subject documents, each of its own subject, with global record ids. *)
Sound(docs) ==
  /\ docs \in [Subjects -> StoredSubject \cup {None}]
  /\ \A s \in Subjects : PlacedIn(docs[s], s)
  /\ IdsGlobal(docs)

(* A subject document holds a document under a record id. *)
IsEntry(x, d, r) ==
  /\ x # None
  /\ \/ \E i \in DOMAIN x.records :
          /\ x.records[i].record_id = r
          /\ d = [instance |-> x.records[i].result, envelope |-> x.records[i]]
     \/ \E i \in DOMAIN x.observations :
          /\ x.observations[i].record_id = r
          /\ d = x.observations[i]

(* The subject of a document, and the id it goes by. *)
LEMMA EntryFacts ==
  ASSUME NEW s \in Subjects, NEW x \in StoredSubject \cup {None}, PlacedIn(x, s),
         NEW d, NEW r, IsEntry(x, d, r)
  PROVE  /\ d \in Document /\ d # None
         /\ NamedBy(d) = r /\ r \in RecordIds
         /\ Contract!Named(d) = s
         /\ d \in Documents(x)
<1>1. x \in StoredSubject /\ x # None
  BY DEF IsEntry
<1>2. x.records \in Seq(Envelope) /\ x.observations \in Seq(RecordedObservation)
  BY <1>1, StoredFacts
<1>3. ASSUME NEW i \in DOMAIN x.records, x.records[i].record_id = r,
             d = [instance |-> x.records[i].result, envelope |-> x.records[i]]
      PROVE  /\ d \in Document /\ d # None
             /\ NamedBy(d) = r /\ r \in RecordIds
             /\ Contract!Named(d) = s
             /\ d \in Documents(x)
  <2>1. x.records[i] \in Envelope
    BY <1>2
  <2>2. d \in RecordedCommit
    BY <1>3, <2>1, EnvelopeFacts DEF RecordedCommit
  <2>3. "note" \notin DOMAIN d
    BY <1>3
  <2>4. x.records[i].result.subject = s /\ r \in RecordIds
    BY <1>1, <1>3 DEF PlacedIn
  <2>5. NamedBy(d) = r /\ Contract!Named(d) = s
    BY <1>3, <2>3, <2>4 DEF NamedBy, Contract!Named
  <2>6. d \in Documents(x)
    BY <1>1, <1>3 DEF Documents, ToSet
  <2> QED
    BY <2>2, <2>4, <2>5, <2>6, StoreAssumption DEF Document
<1>4. ASSUME NEW i \in DOMAIN x.observations, x.observations[i].record_id = r,
             d = x.observations[i]
      PROVE  /\ d \in Document /\ d # None
             /\ NamedBy(d) = r /\ r \in RecordIds
             /\ Contract!Named(d) = s
             /\ d \in Documents(x)
  <2>1. d \in RecordedObservation
    BY <1>2, <1>4
  <2>2. "note" \in DOMAIN d
    BY <2>1 DEF RecordedObservation
  <2>3. d.subject = s /\ r \in RecordIds
    BY <1>1, <1>4 DEF PlacedIn
  <2>4. NamedBy(d) = r /\ Contract!Named(d) = s
    BY <1>4, <2>2, <2>3 DEF NamedBy, Contract!Named
  <2>5. d \in Documents(x)
    BY <1>1, <1>4 DEF Documents, ToSet
  <2> QED
    BY <2>1, <2>3, <2>4, <2>5, StoreAssumption DEF Document
<1> QED
  BY <1>3, <1>4 DEF IsEntry

(* A subject's documents are what it holds under their ids. *)
LEMMA DocumentsFacts ==
  ASSUME NEW s \in Subjects, NEW x \in StoredSubject \cup {None}, PlacedIn(x, s),
         NEW d \in Documents(x)
  PROVE  IsEntry(x, d, NamedBy(d))
<1>1. x \in StoredSubject /\ x # None
  BY DEF Documents
<1>2. x.records \in Seq(Envelope) /\ x.observations \in Seq(RecordedObservation)
  BY <1>1, StoredFacts
<1>3. CASE d \in ToSet(x.observations)
  <2>1. PICK i \in DOMAIN x.observations : d = x.observations[i]
    BY <1>3 DEF ToSet
  <2>2. "note" \in DOMAIN d
    <3>1. d \in RecordedObservation
      BY <1>2, <2>1
    <3> QED
      BY <3>1 DEF RecordedObservation
  <2>3. NamedBy(d) = x.observations[i].record_id
    BY <2>1, <2>2 DEF NamedBy
  <2> QED
    BY <1>1, <2>1, <2>3 DEF IsEntry
<1>4. CASE d \in {[instance |-> e.result, envelope |-> e] : e \in ToSet(x.records)}
  <2>1. PICK i \in DOMAIN x.records :
          d = [instance |-> x.records[i].result, envelope |-> x.records[i]]
    BY <1>4 DEF ToSet
  <2>2. "note" \notin DOMAIN d /\ d.envelope = x.records[i]
    BY <2>1
  <2>3. NamedBy(d) = x.records[i].record_id
    BY <2>2 DEF NamedBy
  <2> QED
    BY <1>1, <2>1, <2>3 DEF IsEntry
<1> QED
  BY <1>1, <1>3, <1>4 DEF Documents

(* An id is given to one document. *)
LEMMA EntryUnique ==
  ASSUME NEW docs, Sound(docs), NEW s \in Subjects, NEW t \in Subjects,
         NEW d, NEW e, NEW r, IsEntry(docs[s], d, r), IsEntry(docs[t], e, r)
  PROVE  s = t /\ d = e
<1>1. docs[s] # None /\ docs[t] # None
  BY DEF IsEntry
<1> DEFINE x == docs[s]
           y == docs[t]
<1>2. /\ \A i \in DOMAIN x.records, j \in DOMAIN y.records :
           x.records[i].record_id = y.records[j].record_id => s = t /\ i = j
      /\ \A i \in DOMAIN x.observations, j \in DOMAIN y.observations :
           x.observations[i].record_id = y.observations[j].record_id => s = t /\ i = j
      /\ \A i \in DOMAIN x.records, j \in DOMAIN y.observations :
           x.records[i].record_id # y.observations[j].record_id
      /\ \A i \in DOMAIN y.records, j \in DOMAIN x.observations :
           y.records[i].record_id # x.observations[j].record_id
  BY <1>1 DEF Sound, IdsGlobal
<1> QED
  BY <1>2 DEF IsEntry

(* The index of the store has what some subject holds, and nothing else. *)
LEMMA IndexFacts ==
  ASSUME NEW docs, Sound(docs), NEW r \in RecordIds
  PROVE  LET d == AsStore(docs).record_ids[r] IN
         /\ d # None => \E s \in Subjects : IsEntry(docs[s], d, r)
         /\ \A s \in Subjects : \A e : IsEntry(docs[s], e, r) => d = e /\ e # None
<1> DEFINE all == UNION {Documents(docs[s]) : s \in Subjects}
           d == AsStore(docs).record_ids[r]
<1>1. d = IF \E e \in all : NamedBy(e) = r THEN CHOOSE e \in all : NamedBy(e) = r ELSE None
  BY DEF AsStore
<1>2. ASSUME NEW e \in all, NamedBy(e) = r
      PROVE  \E s \in Subjects : IsEntry(docs[s], e, r)
  BY <1>2, DocumentsFacts DEF Sound
<1>3. ASSUME NEW s \in Subjects, NEW e, IsEntry(docs[s], e, r)
      PROVE  e \in all /\ NamedBy(e) = r /\ e # None
  BY <1>3, EntryFacts DEF Sound
<1>4. (\E e \in all : NamedBy(e) = r) => d \in all /\ NamedBy(d) = r
  BY <1>1
<1> HIDE DEF all, d
<1>5. d # None => \E s \in Subjects : IsEntry(docs[s], d, r)
  BY <1>1, <1>2, <1>4
<1>6. ASSUME NEW s \in Subjects, NEW e, IsEntry(docs[s], e, r)
      PROVE  d = e /\ e # None
  BY <1>2, <1>3, <1>4, <1>6, EntryUnique
<1> QED
  BY <1>5, <1>6 DEF d

(* What a document holds under an id, one that continues it holds too. *)
LEMMA EntryContinues ==
  ASSUME NEW x, NEW y, Continues(x, y), NEW d, NEW r, IsEntry(x, d, r)
  PROVE  IsEntry(y, d, r)
<1>1. y # None /\ Keeps(x.records, y.records) /\ Keeps(x.observations, y.observations)
  BY DEF IsEntry, Continues
<1>2. CASE \E i \in DOMAIN x.records :
             /\ x.records[i].record_id = r
             /\ d = [instance |-> x.records[i].result, envelope |-> x.records[i]]
  BY <1>1, <1>2 DEF IsEntry, Keeps
<1>3. CASE \E i \in DOMAIN x.observations :
             x.observations[i].record_id = r /\ d = x.observations[i]
  BY <1>1, <1>3 DEF IsEntry, Keeps
<1> QED
  BY <1>2, <1>3 DEF IsEntry

(* Who holds an id has a document under it. *)
LEMMA HasEntry ==
  ASSUME NEW x, NEW r
  PROVE  HasRecord(x, r) \/ HasObservation(x, r) <=> \E d : IsEntry(x, d, r)
  BY DEF HasRecord, HasObservation, IsEntry

(* A lookup through an exact index, or before the root is marked, finds     *)
(* what the store names.                                                    *)
LEMMA LookupIs ==
  ASSUME BaseInvariant, RecordIdsGlobal, NEW index \in [RecordIds -> Location \cup {None}],
         marker => ScanMay(subjects, index), NEW r \in RecordIds
  PROVE  record_document(index, r) = Visible.record_ids[r]
<1> DEFINE d == record_document(index, r)
           s == index[r].subject
<1>1. Sound(subjects)
  BY DEF Sound, BaseInvariant, TypeOK, DocumentsPlaced, RecordIdsGlobal
<1> DEFINE v == Visible.record_ids[r]
<1>a. /\ v # None => \E t \in Subjects : IsEntry(subjects[t], v, r)
      /\ \A t \in Subjects : \A e : IsEntry(subjects[t], e, r) => v = e
  BY <1>1, IndexFacts DEF Visible
<1> HIDE DEF v
<1>2. CASE d = None
  <2>1. Holding(subjects, r) = {}
    BY <1>2, LookupFacts
  <2>2. \A t \in Subjects : ~(HasRecord(subjects[t], r) \/ HasObservation(subjects[t], r))
    BY <1>1, <2>1, HoldingFacts DEF Sound
  <2>3. \A t \in Subjects : \A e : ~IsEntry(subjects[t], e, r)
    BY <2>2, HasEntry
  <2> QED
    BY <1>2, <1>a, <2>3 DEF v
<1>3. CASE d # None
  <2>1. /\ s \in Subjects /\ subjects[s] \in StoredSubject
        /\ \/ /\ d \in RecordedObservation
              /\ d.record_id = r
              /\ \E i \in DOMAIN subjects[s].observations :
                   subjects[s].observations[i] = d
           \/ /\ d \in RecordedCommit
              /\ d.envelope.record_id = r
              /\ d.instance = d.envelope.result
              /\ \E i \in DOMAIN subjects[s].records : subjects[s].records[i] = d.envelope
    BY <1>3, FoundFacts DEF BaseInvariant, TypeOK
  <2>2. subjects[s] # None
    BY <2>1, StoredFacts
  <2>3. d \in RecordedCommit => d = [instance |-> d.instance, envelope |-> d.envelope]
    BY DEF RecordedCommit
  <2>4. IsEntry(subjects[s], d, r)
    <3> HIDE DEF d, s
    <3> QED
      BY <2>1, <2>2, <2>3 DEF IsEntry
  <2> QED
    BY <1>a, <2>1, <2>4 DEF v
<1> QED
  BY <1>2, <1>3

-----------------------------------------------------------------------------
(* What a write does to the documents is what the contract gives it. *)

(* The document of a write, and none else, comes under its id. *)
LEMMA EntryWritten ==
  ASSUME NEW x \in StoredSubject \cup {None}, NEW w \in Write, Valid(w), Later(w),
         check(Expects(w), held_revision(x)), NEW d, NEW r
  PROVE  IsEntry(Written(x, w), d, r)
           <=> IsEntry(x, d, r) \/ (w.kind # "commit" /\ r = IdOf(w) /\ d = w.document)
<1> DEFINE y == Written(x, w)
           records == IF x = None THEN << >> ELSE x.records
           observations == IF x = None THEN << >> ELSE x.observations
<1>1. /\ y \in StoredSubject
      /\ w.kind = "observe" => x # None
      /\ IF w.kind = "commit_recorded"
         THEN y.records = Append(records, w.document.envelope)
         ELSE y.records = records
      /\ IF w.kind = "observe"
         THEN y.observations = Append(observations, w.document)
         ELSE y.observations = observations
  BY WrittenFacts
<1>2. records \in Seq(Envelope) /\ observations \in Seq(RecordedObservation)
  BY StoredFacts
<1>3. y # None
  BY <1>1, StoredFacts
<1> DEFINE InRecords(q) ==
             \E i \in DOMAIN q : /\ q[i].record_id = r
                                 /\ d = [instance |-> q[i].result, envelope |-> q[i]]
           InObservations(q) == \E i \in DOMAIN q : q[i].record_id = r /\ d = q[i]
<1>4. /\ IsEntry(x, d, r) <=> InRecords(records) \/ InObservations(observations)
      /\ IsEntry(y, d, r) <=> InRecords(y.records) \/ InObservations(y.observations)
  BY <1>3 DEF IsEntry
<1> HIDE DEF y, records, observations
<1>5. w.kind = "commit_recorded" =>
        (InRecords(y.records) <=> InRecords(records) \/ (r = IdOf(w) /\ d = w.document))
  <2> SUFFICES ASSUME w.kind = "commit_recorded"
               PROVE  InRecords(y.records)
                        <=> InRecords(records) \/ (r = IdOf(w) /\ d = w.document)
    OBVIOUS
  <2>1. /\ w.document \in RecordedCommit /\ w.document.envelope \in Envelope
        /\ w.document.envelope.result = w.document.instance
        /\ w.document.envelope.record_id = IdOf(w)
    BY WriteFacts, ValidFacts DEF IdOf
  <2>2. w.document = [instance |-> w.document.envelope.result,
                      envelope |-> w.document.envelope]
    BY <2>1 DEF RecordedCommit
  <2>3. /\ DOMAIN y.records = DOMAIN records \cup {Len(records) + 1}
        /\ \A i \in DOMAIN records : y.records[i] = records[i]
        /\ y.records[Len(records) + 1] = w.document.envelope
    BY <1>1, <1>2, <2>1, AppendFacts
  <2> QED
    BY <2>1, <2>2, <2>3
<1>6. w.kind = "observe" =>
        (InObservations(y.observations)
           <=> InObservations(observations) \/ (r = IdOf(w) /\ d = w.document))
  <2> SUFFICES ASSUME w.kind = "observe"
               PROVE  InObservations(y.observations)
                        <=> InObservations(observations) \/ (r = IdOf(w) /\ d = w.document)
    OBVIOUS
  <2>1. w.document \in RecordedObservation /\ w.document.record_id = IdOf(w)
    BY WriteFacts DEF IdOf
  <2>2. /\ DOMAIN y.observations = DOMAIN observations \cup {Len(observations) + 1}
        /\ \A i \in DOMAIN observations : y.observations[i] = observations[i]
        /\ y.observations[Len(observations) + 1] = w.document
    BY <1>1, <1>2, <2>1, AppendFacts
  <2> QED
    BY <2>1, <2>2
<1> HIDE DEF InRecords, InObservations
<1>7. CASE w.kind = "commit"
  BY <1>1, <1>4, <1>7 DEF y
<1>8. CASE w.kind = "commit_recorded"
  BY <1>1, <1>4, <1>5, <1>8 DEF y
<1>9. CASE w.kind = "observe"
  BY <1>1, <1>4, <1>6, <1>9 DEF y
<1> QED
  BY <1>7, <1>8, <1>9, WriteFacts

(* The store a write leaves, when nothing refuses it. *)
WriteDone(st, w) ==
  CASE w.kind = "commit" -> Committed(st, w.document)
    [] w.kind = "commit_recorded" -> Recorded(st, w.document)
    [] w.kind = "observe" -> Observed(st, w.document)

(* A function that differs from another in one place. *)
LEMMA ChangedAt ==
  ASSUME NEW S, NEW f, NEW g, NEW z \in S, NEW v,
         f = [s \in S |-> f[s]], g = [s \in S |-> g[s]],
         \A s \in S : g[s] = IF s = z THEN v ELSE f[s]
  PROVE  g = [f EXCEPT ![z] = v]
  OBVIOUS

(* Two functions are one when they agree. *)
LEMMA SameFunction ==
  ASSUME NEW S, NEW f, NEW g,
         f = [s \in S |-> f[s]], g = [s \in S |-> g[s]], \A s \in S : g[s] = f[s]
  PROVE  g = f
<1>1. g = [s \in S |-> f[s]]
  OBVIOUS
<1> QED
  BY <1>1

(* The stores writes leave, part by part. *)
LEMMA DoneParts ==
  ASSUME NEW st, NEW w,
         st = [instances |-> st.instances, events |-> st.events, records |-> st.records,
               observations |-> st.observations, record_ids |-> st.record_ids]
  PROVE  LET d == w.document
             s == SubjectOf(w)
         IN /\ w.kind = "commit" =>
                 WriteDone(st, w) =
                   [instances |-> [st.instances EXCEPT ![s] = d.instance],
                    events |-> [st.events EXCEPT ![s] = st.events[s] \o d.events],
                    records |-> st.records, observations |-> st.observations,
                    record_ids |-> st.record_ids]
            /\ w.kind = "commit_recorded" =>
                 WriteDone(st, w) =
                   [instances |-> [st.instances EXCEPT ![s] = d.instance],
                    events |-> st.events,
                    records |-> [st.records EXCEPT ![s] = Append(st.records[s], d.envelope)],
                    observations |-> st.observations,
                    record_ids |-> [st.record_ids EXCEPT ![IdOf(w)] = d]]
            /\ w.kind = "observe" =>
                 WriteDone(st, w) =
                   [instances |-> st.instances, events |-> st.events, records |-> st.records,
                    observations |-> [st.observations EXCEPT ![s] =
                                        Append(st.observations[s], d)],
                    record_ids |-> [st.record_ids EXCEPT ![IdOf(w)] = d]]
<1> DEFINE d == w.document
<1>1. CASE w.kind = "commit"
  <2>1. WriteDone(st, w) = Committed(st, d) /\ SubjectOf(w) = d.instance.subject
    BY <1>1 DEF WriteDone, SubjectOf
  <2> QED
    BY <1>1, <2>1 DEF Committed
<1>2. CASE w.kind = "commit_recorded"
  <2>1. /\ WriteDone(st, w) = Recorded(st, d)
        /\ SubjectOf(w) = d.instance.subject /\ IdOf(w) = d.envelope.record_id
    BY <1>2 DEF WriteDone, SubjectOf, IdOf
  <2> QED
    BY ZenonT(60), <1>2, <2>1 DEF Recorded
<1>3. CASE w.kind = "observe"
  <2>1. /\ WriteDone(st, w) = Observed(st, d)
        /\ SubjectOf(w) = d.subject /\ IdOf(w) = d.record_id
    BY <1>3 DEF WriteDone, SubjectOf, IdOf
  <2> QED
    BY <1>3, <2>1 DEF Observed
<1> QED
  BY <1>1, <1>2, <1>3

(* Documents with the one of a write replaced by what the write makes of it *)
(* are the store the contract leaves.                                       *)
LEMMA WrittenIs ==
  ASSUME NEW docs, Sound(docs), NEW w \in Write, Valid(w), Later(w),
         check(Expects(w), held_revision(docs[SubjectOf(w)])),
         w.kind # "commit" => Holding(docs, IdOf(w)) = {}
  PROVE  LET nu == [docs EXCEPT ![SubjectOf(w)] = Written(docs[SubjectOf(w)], w)]
         IN Sound(nu) /\ AsStore(nu) = WriteDone(AsStore(docs), w)
<1> DEFINE z == SubjectOf(w)
           x == docs[z]
           y == Written(x, w)
           nu == [docs EXCEPT ![z] = y]
           old == AsStore(docs)
           new == AsStore(nu)
<1>1. /\ docs \in [Subjects -> StoredSubject \cup {None}] /\ z \in Subjects
      /\ x \in StoredSubject \cup {None}
      /\ w.kind \in {"commit", "commit_recorded", "observe"}
  BY WriteFacts DEF Sound
<1>2. /\ y \in StoredSubject /\ y # None
      /\ w.kind = "observe" => x # None
      /\ y.instance = IF w.kind = "observe" THEN x.instance ELSE w.document.instance
      /\ y.events = (IF x = None THEN << >> ELSE x.events)
                      \o (IF w.kind = "commit" THEN w.document.events ELSE << >>)
      /\ IF w.kind = "commit_recorded"
         THEN y.records = Append(IF x = None THEN << >> ELSE x.records, w.document.envelope)
         ELSE y.records = IF x = None THEN << >> ELSE x.records
      /\ IF w.kind = "observe"
         THEN y.observations = Append(x.observations, w.document)
         ELSE y.observations = IF x = None THEN << >> ELSE x.observations
  BY <1>1, WrittenFacts, StoredFacts
<1>3. PlacedIn(y, z) /\ Continues(x, y)
  BY <1>1, WrittenContinues DEF Sound
<1>4. \A d, r : IsEntry(y, d, r)
          <=> IsEntry(x, d, r) \/ (w.kind # "commit" /\ r = IdOf(w) /\ d = w.document)
  BY <1>1, EntryWritten
<1>5. IdsGlobal(nu)
  BY IdsInstalled DEF Sound
<1> HIDE DEF y
<1>6. /\ nu \in [Subjects -> StoredSubject \cup {None}]
      /\ nu[z] = y /\ \A s \in Subjects : s # z => nu[s] = docs[s]
  BY <1>1, <1>2
<1>7. Sound(nu)
  BY <1>3, <1>5, <1>6 DEF Sound
<1>8. \A s \in Subjects : \A d, r : IsEntry(nu[s], d, r)
          <=> \/ IsEntry(docs[s], d, r)
              \/ s = z /\ w.kind # "commit" /\ r = IdOf(w) /\ d = w.document
  BY <1>4, <1>6
<1>9. w.kind # "commit" => \A s \in Subjects : \A d : ~IsEntry(docs[s], d, IdOf(w))
  BY <1>1, HoldingFacts, HasEntry
<1> HIDE DEF nu
<1>10. ASSUME NEW r \in RecordIds
       PROVE  new.record_ids[r] = IF w.kind # "commit" /\ r = IdOf(w)
                                  THEN w.document ELSE old.record_ids[r]
  <2> DEFINE a == old.record_ids[r]
             b == new.record_ids[r]
  <2>1. /\ a # None => \E s \in Subjects : IsEntry(docs[s], a, r)
        /\ \A s \in Subjects : \A e : IsEntry(docs[s], e, r) => a = e /\ e # None
    BY IndexFacts
  <2>2. /\ b # None => \E s \in Subjects : IsEntry(nu[s], b, r)
        /\ \A s \in Subjects : \A e : IsEntry(nu[s], e, r) => b = e /\ e # None
    BY <1>7, IndexFacts
  <2> HIDE DEF a, b
  <2>3. CASE w.kind # "commit" /\ r = IdOf(w)
    BY <1>1, <1>8, <2>2, <2>3 DEF b
  <2>4. CASE ~(w.kind # "commit" /\ r = IdOf(w))
    <3>1. \A s \in Subjects : \A d : IsEntry(nu[s], d, r) <=> IsEntry(docs[s], d, r)
      BY <1>8, <2>4
    <3>2. a = b
      BY <2>1, <2>2, <3>1
    <3> QED
      BY <2>4, <3>2 DEF a, b
  <2> QED
    BY <2>3, <2>4
<1>11. /\ old.record_ids = [r \in RecordIds |-> old.record_ids[r]]
       /\ new.record_ids = [r \in RecordIds |-> new.record_ids[r]]
  BY DEF AsStore
<1>12. /\ old = [instances |-> old.instances, events |-> old.events,
                 records |-> old.records, observations |-> old.observations,
                 record_ids |-> old.record_ids]
       /\ new = [instances |-> new.instances, events |-> new.events,
                 records |-> new.records, observations |-> new.observations,
                 record_ids |-> new.record_ids]
  BY DEF AsStore
<1>13. \A s \in Subjects :
         /\ old.instances[s] = IF docs[s] = None THEN None ELSE docs[s].instance
         /\ old.events[s] = IF docs[s] = None THEN << >> ELSE docs[s].events
         /\ old.records[s] = IF docs[s] = None THEN << >> ELSE docs[s].records
         /\ old.observations[s] = IF docs[s] = None THEN << >> ELSE docs[s].observations
         /\ new.instances[s] = IF nu[s] = None THEN None ELSE nu[s].instance
         /\ new.events[s] = IF nu[s] = None THEN << >> ELSE nu[s].events
         /\ new.records[s] = IF nu[s] = None THEN << >> ELSE nu[s].records
         /\ new.observations[s] = IF nu[s] = None THEN << >> ELSE nu[s].observations
  BY DEF AsStore
<1>14. \A f \in {old.instances, old.events, old.records, old.observations,
                 new.instances, new.events, new.records, new.observations} :
         f = [s \in Subjects |-> f[s]]
  BY DEF AsStore
<1> HIDE DEF old, new
<1>15. /\ x.events \in Seq(Event) \/ x = None
       /\ \A q \in Seq(Event) : q \o << >> = q
  BY <1>1, StoredFacts
<1>16. /\ w.kind = "observe" => new.instances = old.instances
       /\ w.kind # "observe" =>
            new.instances = [old.instances EXCEPT ![z] = w.document.instance]
  <2>1. ASSUME NEW s \in Subjects
        PROVE  new.instances[s] = IF w.kind # "observe" /\ s = z
                                  THEN w.document.instance ELSE old.instances[s]
    BY <1>1, <1>2, <1>6, <1>13
  <2>2. CASE w.kind = "observe"
    BY <1>14, <2>1, <2>2, SameFunction
  <2>3. CASE w.kind # "observe"
    BY <1>1, <1>14, <2>1, <2>3, ChangedAt
  <2> QED
    BY <2>2, <2>3
<1>17. /\ w.kind # "commit" => new.events = old.events
       /\ w.kind = "commit" =>
            new.events = [old.events EXCEPT ![z] = old.events[z] \o w.document.events]
  <2>1. ASSUME NEW s \in Subjects
        PROVE  new.events[s] = IF w.kind = "commit" /\ s = z
                               THEN old.events[z] \o w.document.events ELSE old.events[s]
    <3>1. CASE s = z
      <4>1. /\ new.events[z] = y.events
            /\ old.events[z] = IF x = None THEN << >> ELSE x.events
        BY <1>1, <1>2, <1>6, <1>13
      <4>2. w.kind # "commit" => y.events = old.events[z]
        <5>1. old.events[z] \in Seq(Event)
          BY <1>15, <4>1
        <5> QED
          BY <1>2, <1>15, <4>1, <5>1
      <4>3. w.kind = "commit" => y.events = old.events[z] \o w.document.events
        BY <1>2, <4>1
      <4> QED
        BY <3>1, <4>1, <4>2, <4>3
    <3>2. CASE s # z
      BY <1>6, <1>13, <3>2
    <3> QED
      BY <3>1, <3>2
  <2>2. CASE w.kind # "commit"
    BY <1>14, <2>1, <2>2, SameFunction
  <2>3. CASE w.kind = "commit"
    BY <1>1, <1>14, <2>1, <2>3, ChangedAt
  <2> QED
    BY <2>2, <2>3
<1>18. /\ w.kind # "commit_recorded" => new.records = old.records
       /\ w.kind = "commit_recorded" =>
            new.records = [old.records EXCEPT ![z] = Append(old.records[z], w.document.envelope)]
  <2>1. ASSUME NEW s \in Subjects
        PROVE  new.records[s] = IF w.kind = "commit_recorded" /\ s = z
                                THEN Append(old.records[z], w.document.envelope)
                                ELSE old.records[s]
    <3>1. CASE s = z
      <4>1. /\ new.records[z] = y.records
            /\ old.records[z] = IF x = None THEN << >> ELSE x.records
        BY <1>1, <1>2, <1>6, <1>13
      <4> QED
        BY <1>2, <3>1, <4>1
    <3>2. CASE s # z
      BY <1>6, <1>13, <3>2
    <3> QED
      BY <3>1, <3>2
  <2>2. CASE w.kind # "commit_recorded"
    BY <1>14, <2>1, <2>2, SameFunction
  <2>3. CASE w.kind = "commit_recorded"
    BY <1>1, <1>14, <2>1, <2>3, ChangedAt
  <2> QED
    BY <2>2, <2>3
<1>19. /\ w.kind # "observe" => new.observations = old.observations
       /\ w.kind = "observe" =>
            new.observations = [old.observations EXCEPT ![z] =
                                  Append(old.observations[z], w.document)]
  <2>1. ASSUME NEW s \in Subjects
        PROVE  new.observations[s] = IF w.kind = "observe" /\ s = z
                                     THEN Append(old.observations[z], w.document)
                                     ELSE old.observations[s]
    <3>1. CASE s = z
      <4>1. /\ new.observations[z] = y.observations
            /\ old.observations[z] = IF x = None THEN << >> ELSE x.observations
        BY <1>1, <1>2, <1>6, <1>13
      <4> QED
        BY <1>2, <3>1, <4>1
    <3>2. CASE s # z
      BY <1>6, <1>13, <3>2
    <3> QED
      BY <3>1, <3>2
  <2>2. CASE w.kind # "observe"
    BY <1>14, <2>1, <2>2, SameFunction
  <2>3. CASE w.kind = "observe"
    BY <1>1, <1>14, <2>1, <2>3, ChangedAt
  <2> QED
    BY <2>2, <2>3
<1>20. /\ w.kind = "commit" => new.record_ids = old.record_ids
       /\ w.kind # "commit" => new.record_ids = [old.record_ids EXCEPT ![IdOf(w)] = w.document]
  <2>1. CASE w.kind = "commit"
    BY <1>10, <1>11, <2>1, SameFunction
  <2>2. CASE w.kind # "commit"
    <3>1. IdOf(w) \in RecordIds
      BY <1>1, <2>2, ValidFacts DEF IdOf
    <3> QED
      BY <1>10, <1>11, <2>2, <3>1, ChangedAt
  <2> QED
    BY <2>1, <2>2
<1>21. new = WriteDone(old, w)
  <2>1. CASE w.kind = "commit"
    <3>1. WriteDone(old, w) =
            [instances |-> [old.instances EXCEPT ![z] = w.document.instance],
             events |-> [old.events EXCEPT ![z] = old.events[z] \o w.document.events],
             records |-> old.records, observations |-> old.observations,
             record_ids |-> old.record_ids]
      BY <1>12, <2>1, DoneParts
    <3>2. new =
            [instances |-> [old.instances EXCEPT ![z] = w.document.instance],
             events |-> [old.events EXCEPT ![z] = old.events[z] \o w.document.events],
             records |-> old.records, observations |-> old.observations,
             record_ids |-> old.record_ids]
      BY <1>12, <1>16, <1>17, <1>18, <1>19, <1>20, <2>1
    <3> QED
      BY <3>1, <3>2
  <2>2. CASE w.kind = "commit_recorded"
    <3>1. WriteDone(old, w) =
            [instances |-> [old.instances EXCEPT ![z] = w.document.instance],
             events |-> old.events,
             records |-> [old.records EXCEPT ![z] =
                            Append(old.records[z], w.document.envelope)],
             observations |-> old.observations,
             record_ids |-> [old.record_ids EXCEPT ![IdOf(w)] = w.document]]
      BY <1>12, <2>2, DoneParts
    <3>2. new =
            [instances |-> [old.instances EXCEPT ![z] = w.document.instance],
             events |-> old.events,
             records |-> [old.records EXCEPT ![z] =
                            Append(old.records[z], w.document.envelope)],
             observations |-> old.observations,
             record_ids |-> [old.record_ids EXCEPT ![IdOf(w)] = w.document]]
      BY <1>12, <1>16, <1>17, <1>18, <1>19, <1>20, <2>2
    <3> QED
      BY <3>1, <3>2
  <2>3. CASE w.kind = "observe"
    <3>1. WriteDone(old, w) =
            [instances |-> old.instances, events |-> old.events, records |-> old.records,
             observations |-> [old.observations EXCEPT ![z] =
                                 Append(old.observations[z], w.document)],
             record_ids |-> [old.record_ids EXCEPT ![IdOf(w)] = w.document]]
      BY <1>12, <2>3, DoneParts
    <3>2. new =
            [instances |-> old.instances, events |-> old.events, records |-> old.records,
             observations |-> [old.observations EXCEPT ![z] =
                                 Append(old.observations[z], w.document)],
             record_ids |-> [old.record_ids EXCEPT ![IdOf(w)] = w.document]]
      BY <1>12, <1>16, <1>17, <1>18, <1>19, <1>20, <2>3
    <3> QED
      BY <3>1, <3>2
  <2> QED
    BY <1>1, <2>1, <2>2, <2>3
<1> QED
  BY <1>7, <1>21 DEF nu, y, old, new

(* The revision of the contract is that of the document. *)
LEMMA RevisionIs ==
  ASSUME NEW docs, Sound(docs), NEW s \in Subjects
  PROVE  revision_of(AsStore(docs), s) = held_revision(docs[s])
<1>1. AsStore(docs).instances[s] = IF docs[s] = None THEN None ELSE docs[s].instance
  BY DEF AsStore
<1>2. docs[s] # None => docs[s].instance # None
  BY StoredFacts, InstanceFacts DEF Sound
<1> QED
  BY <1>1, <1>2 DEF revision_of, held_revision

(* An id no document has is neither remembered nor held. *)
LEMMA UnheldIs ==
  ASSUME NEW docs, Sound(docs), NEW r \in RecordIds, Holding(docs, r) = {},
         NEW s \in Subjects
  PROVE  /\ Remembered(AsStore(docs), r) = None
         /\ HeldRecord(AsStore(docs), s, r) = {}
         /\ HeldObservation(AsStore(docs), s, r) = {}
         /\ docs[s] # None => FindRecord(docs[s], r) = 0 /\ FindObservation(docs[s], r) = 0
<1>1. \A t \in Subjects : ~HasRecord(docs[t], r) /\ ~HasObservation(docs[t], r)
  BY HoldingFacts DEF Sound
<1>2. \A t \in Subjects : \A d : ~IsEntry(docs[t], d, r)
  BY <1>1, HasEntry
<1>3. Remembered(AsStore(docs), r) = None
  <2>1. AsStore(docs).record_ids[r] # None =>
          \E t \in Subjects : IsEntry(docs[t], AsStore(docs).record_ids[r], r)
    BY IndexFacts
  <2> QED
    BY <1>2, <2>1 DEF Remembered
<1>4. /\ AsStore(docs).records[s] = IF docs[s] = None THEN << >> ELSE docs[s].records
      /\ AsStore(docs).observations[s] =
           IF docs[s] = None THEN << >> ELSE docs[s].observations
  BY DEF AsStore
<1>5. HeldRecord(AsStore(docs), s, r) = {} /\ HeldObservation(AsStore(docs), s, r) = {}
  BY <1>1, <1>4 DEF HeldRecord, HeldObservation, HasRecord, HasObservation
<1>6. docs[s] # None => FindRecord(docs[s], r) = 0 /\ FindObservation(docs[s], r) = 0
  BY <1>1, HasFacts DEF Sound
<1> QED
  BY <1>3, <1>5, <1>6

(* A write that is expected, and whose id is new, succeeds. *)
LEMMA PerformDone ==
  ASSUME NEW docs, Sound(docs), NEW w \in Write, Valid(w),
         check(Expects(w), held_revision(docs[SubjectOf(w)])),
         w.kind # "commit" => Holding(docs, IdOf(w)) = {}
  PROVE  Perform(AsStore(docs), w) = Answer(WriteDone(AsStore(docs), w), "ok")
<1> DEFINE z == SubjectOf(w)
           st == AsStore(docs)
<1>1. z \in Subjects
  BY WriteFacts
<1>2. revision_of(st, z) = held_revision(docs[z])
  BY <1>1, RevisionIs
<1>3. w.kind # "commit" => /\ Remembered(st, IdOf(w)) = None
                           /\ HeldRecord(st, z, IdOf(w)) = {}
                           /\ HeldObservation(st, z, IdOf(w)) = {}
  <2> SUFFICES ASSUME w.kind # "commit"
               PROVE  /\ Remembered(st, IdOf(w)) = None
                      /\ HeldRecord(st, z, IdOf(w)) = {}
                      /\ HeldObservation(st, z, IdOf(w)) = {}
    OBVIOUS
  <2>1. IdOf(w) \in RecordIds
    BY WriteFacts, ValidFacts DEF IdOf
  <2> QED
    BY <1>1, <2>1, UnheldIs
<1> HIDE DEF st, z
<1>4. CASE w.kind = "commit"
  <2>1. z = w.document.instance.subject /\ Expects(w) = w.expect
    BY <1>4 DEF z, SubjectOf, Expects
  <2>2. Perform(st, w) = commit(st, w.document, w.expect)
    BY <1>4 DEF Perform
  <2>3. commit(st, w.document, w.expect) = Answer(Committed(st, w.document), "ok")
    BY <1>2, <2>1 DEF commit, Committed, z
  <2> QED
    BY <1>4, <2>2, <2>3 DEF WriteDone, st
<1>5. CASE w.kind = "commit_recorded"
  <2>1. /\ z = w.document.instance.subject /\ Expects(w) = w.expect
        /\ IdOf(w) = w.document.envelope.record_id
    BY <1>5 DEF z, SubjectOf, Expects, IdOf
  <2>2. Perform(st, w) = commit_recorded(st, w.document, w.expect)
    BY <1>5 DEF Perform
  <2>3. CommitValid(w.document)
    BY <1>5, ValidFacts
  <2>4. commit_recorded(st, w.document, w.expect) = Answer(Recorded(st, w.document), "ok")
    BY <1>2, <1>3, <1>5, <2>1, <2>3 DEF commit_recorded, Recorded, z
  <2> QED
    BY <1>5, <2>2, <2>4 DEF WriteDone, st
<1>6. CASE w.kind = "observe"
  <2>1. /\ z = w.document.subject /\ Expects(w) = w.document.revision
        /\ IdOf(w) = w.document.record_id
    BY <1>6 DEF z, SubjectOf, Expects, IdOf
  <2>2. Perform(st, w) = observe(st, w.document)
    BY <1>6 DEF Perform
  <2>3. ObservationValid(w.document)
    BY <1>6, ValidFacts
  <2>4. observe(st, w.document) = Answer(Observed(st, w.document), "ok")
    BY <1>2, <1>3, <1>6, <2>1, <2>3 DEF observe, Observed, z
  <2> QED
    BY <1>6, <2>2, <2>4 DEF WriteDone, st
<1> QED
  BY <1>4, <1>5, <1>6, WriteFacts

(* A write decided through an exact index gets the contract's answer. *)
LEMMA DecideIs ==
  ASSUME BaseInvariant, RecordIdsGlobal, NEW index \in [RecordIds -> Location \cup {None}],
         NEW w \in Write, Valid(w),
         w.kind # "commit" => (marker => ScanMay(subjects, index))
  PROVE  LET v   == Decide(index, w)
             due == Perform(Visible, w)
         IN IF v.outcome = "write" THEN due = Answer(WriteDone(Visible, w), "ok")
            ELSE due.outcome = v.outcome
<1> DEFINE v == Decide(index, w)
           due == Perform(Visible, w)
           z == SubjectOf(w)
           x == subjects[z]
           expect == Expects(w)
<1>1. Sound(subjects) /\ z \in Subjects /\ subjects \in [Subjects -> StoredSubject \cup {None}]
  BY WriteFacts
    DEF Sound, BaseInvariant, TypeOK, DocumentsPlaced, RecordIdsGlobal
<1>2. revision_of(Visible, z) = held_revision(x)
  BY <1>1, RevisionIs DEF Visible
<1>3. w.kind # "commit" =>
        /\ IdOf(w) \in RecordIds
        /\ record_document(index, IdOf(w)) = Remembered(Visible, IdOf(w))
        /\ record_document(index, IdOf(w)) = None =>
             /\ Holding(subjects, IdOf(w)) = {}
             /\ HeldRecord(Visible, z, IdOf(w)) = {}
             /\ HeldObservation(Visible, z, IdOf(w)) = {}
             /\ x # None => FindRecord(x, IdOf(w)) = 0 /\ FindObservation(x, IdOf(w)) = 0
  <2> SUFFICES ASSUME w.kind # "commit"
               PROVE
        /\ IdOf(w) \in RecordIds
        /\ record_document(index, IdOf(w)) = Remembered(Visible, IdOf(w))
        /\ record_document(index, IdOf(w)) = None =>
             /\ Holding(subjects, IdOf(w)) = {}
             /\ HeldRecord(Visible, z, IdOf(w)) = {}
             /\ HeldObservation(Visible, z, IdOf(w)) = {}
             /\ x # None => FindRecord(x, IdOf(w)) = 0 /\ FindObservation(x, IdOf(w)) = 0
    OBVIOUS
  <2>1. IdOf(w) \in RecordIds
    BY WriteFacts, ValidFacts DEF IdOf
  <2>2. record_document(index, IdOf(w)) = Remembered(Visible, IdOf(w))
    BY <2>1, LookupIs DEF Remembered
  <2>3. record_document(index, IdOf(w)) = None => Holding(subjects, IdOf(w)) = {}
    BY <2>1, LookupFacts
  <2> QED
    BY <1>1, <2>1, <2>2, <2>3, UnheldIs DEF Visible
<1>4. CASE v.outcome = "write"
  <2>1. check(Expects(w), held_revision(x))
    BY <1>1, <1>4, DecideFacts DEF BaseInvariant
  <2>2. w.kind # "commit" => Holding(subjects, IdOf(w)) = {}
    <3>1. w.kind # "commit" => record_document(index, IdOf(w)) = None
      BY <1>1, <1>4, DecideFacts DEF BaseInvariant
    <3> QED
      BY <1>3, <3>1
  <2>3. due = Answer(WriteDone(Visible, w), "ok")
    BY <1>1, <2>1, <2>2, PerformDone DEF Visible
  <2> QED
    BY <1>4, <2>3
<1>5. CASE v.outcome # "write"
  <2>1. CASE w.kind = "commit"
    <3>1. /\ v = DecideCommit(x, w.document, w.expect)
          /\ due = commit(Visible, w.document, w.expect)
          /\ z = w.document.instance.subject
      BY <2>1 DEF Decide, Perform, SubjectOf
    <3>2. ~check(w.expect, held_revision(x)) /\ v.outcome = "revision_conflict"
      BY <1>5, <3>1 DEF DecideCommit, Verdict
    <3>3. due = Answer(Visible, "revision_conflict")
      BY <1>2, <3>1, <3>2 DEF commit
    <3> QED
      BY <1>5, <3>2, <3>3 DEF Answer
  <2>2. CASE w.kind = "commit_recorded"
    <3> DEFINE d == w.document
               existing == record_document(index, d.envelope.record_id)
    <3>1. /\ v = DecideRecorded(existing, x, d, w.expect)
          /\ due = commit_recorded(Visible, d, w.expect)
          /\ z = d.instance.subject /\ IdOf(w) = d.envelope.record_id
          /\ CommitValid(d)
      BY <2>2, ValidFacts DEF Decide, Perform, SubjectOf, IdOf
    <3>2. existing = Remembered(Visible, d.envelope.record_id)
      BY <1>3, <2>2, <3>1
    <3>3. CASE existing # None
      <4>1. v = SameOr(existing = d)
        BY <3>1, <3>3 DEF DecideRecorded
      <4>2. due = SameOrConflict(Visible, existing = d)
        BY <3>1, <3>2, <3>3 DEF commit_recorded
      <4> QED
        BY <1>5, <4>1, <4>2 DEF SameOr, SameOrConflict, Verdict, Answer
    <3>4. CASE existing = None
      <4>1. /\ HeldRecord(Visible, z, d.envelope.record_id) = {}
            /\ x # None => /\ FindRecord(x, d.envelope.record_id) = 0
                           /\ FindObservation(x, d.envelope.record_id) = 0
        BY <1>3, <2>2, <3>1, <3>4
      <4>2. ~check(w.expect, held_revision(x)) /\ v.outcome = "revision_conflict"
        <5>1. CASE check(w.expect, held_revision(x))
          <6>1. v = Verdict("write", Written(x, w))
            BY <2>2, <3>1, <3>4, <4>1, <5>1 DEF DecideRecorded, Written
          <6> QED
            BY <1>5, <6>1 DEF Verdict
        <5>2. CASE ~check(w.expect, held_revision(x))
          <6>1. v = Verdict("revision_conflict", None)
            BY <3>1, <3>4, <4>1, <5>2 DEF DecideRecorded
          <6> QED
            BY <5>2, <6>1 DEF Verdict
        <5> QED
          BY <5>1, <5>2
      <4>3. due = Answer(Visible, "revision_conflict")
        BY <1>2, <3>1, <3>2, <3>4, <4>1, <4>2 DEF commit_recorded
      <4> QED
        BY <1>5, <4>2, <4>3 DEF Answer
    <3> QED
      BY <3>3, <3>4
  <2>3. CASE w.kind = "observe"
    <3> DEFINE d == w.document
               existing == record_document(index, d.record_id)
    <3>1. /\ v = DecideObserve(existing, x, d)
          /\ due = observe(Visible, d)
          /\ z = d.subject /\ IdOf(w) = d.record_id
          /\ ObservationValid(d) /\ d.revision \in Nat
      BY <2>3, ValidFacts DEF Decide, Perform, SubjectOf, IdOf
    <3>2. existing = Remembered(Visible, d.record_id)
      BY <1>3, <2>3, <3>1
    <3>3. CASE existing # None
      <4>1. v = SameOr(existing = d)
        BY <3>1, <3>3 DEF DecideObserve
      <4>2. due = SameOrConflict(Visible, existing = d)
        BY <3>1, <3>2, <3>3 DEF observe
      <4> QED
        BY <1>5, <4>1, <4>2 DEF SameOr, SameOrConflict, Verdict, Answer
    <3>4. CASE existing = None
      <4>1. /\ HeldObservation(Visible, z, d.record_id) = {}
            /\ x # None => FindRecord(x, d.record_id) = 0 /\ FindObservation(x, d.record_id) = 0
        BY <1>3, <2>3, <3>1, <3>4
      <4>2. ~check(d.revision, held_revision(x)) /\ v.outcome = "revision_conflict"
        <5>1. CASE x = None
          BY <3>1, <3>4, <5>1, StoreAssumption
             DEF DecideObserve, Verdict, check, held_revision
        <5>2. CASE x # None
          BY <1>5, <3>1, <3>4, <4>1, <5>2 DEF DecideObserve, Verdict
        <5> QED
          BY <5>1, <5>2
      <4>3. due = Answer(Visible, "revision_conflict")
        BY <1>2, <3>1, <3>2, <3>4, <4>1, <4>2 DEF observe
      <4> QED
        BY <1>5, <4>2, <4>3 DEF Answer
    <3> QED
      BY <3>3, <3>4
  <2> QED
    BY <2>1, <2>2, <2>3, WriteFacts
<1> QED
  BY <1>4, <1>5

-----------------------------------------------------------------------------
(* Answers. *)

(* The answer of a call that decides, and the document one installs, are    *)
(* the contract's.                                                          *)
Follows(h) ==
  LET due == Perform(Visible, calls[h].write) IN
  /\ calls[h].pc = "decide" /\ calls'[h].pc = "idle" /\ calls'[h].answer # "none"
       => calls'[h].answer = due.outcome
  /\ calls[h].pc = "install" /\ calls'[h].pc = "sync"
       => due.outcome = "ok" /\ Visible' = due.store

(* The documents of a reachable state are those of one store. *)
LEMMA SoundNow ==
  ASSUME BaseInvariant, RecordIdsGlobal
  PROVE  Sound(subjects)
  BY DEF Sound, BaseInvariant, TypeOK, DocumentsPlaced, RecordIdsGlobal

(* A document goes where it was decided for, with the contract's effect. *)
LEMMA InstallIs ==
  ASSUME BaseInvariant, RecordIdsGlobal, FreshHolds, NEW h \in Handles, Install(h)
  PROVE  \/ subjects' = subjects /\ calls'[h].pc = "idle"
         \/ Perform(Visible, calls[h].write) = Answer(Visible', "ok")
<1> DEFINE w == calls[h].write
           s == SubjectOf(w)
<1>1. calls[h].pc = "install"
  BY DEF Install
<1>2. w \in Write /\ Valid(w) /\ Later(w) /\ Sound(subjects)
  BY <1>1, WriteUnderWay, SoundNow DEF BaseInvariant
<1>3. CASE subjects' = [subjects EXCEPT ![s] = calls[h].stored]
  <2>1. /\ calls[h].stored = Written(subjects[s], w)
        /\ check(Expects(w), held_revision(subjects[s]))
    BY <1>1 DEF BaseInvariant, StagedHolds
  <2>2. w.kind # "commit" => Holding(subjects, IdOf(w)) = {}
    BY <1>1 DEF FreshHolds
  <2>3. AsStore(subjects') = WriteDone(AsStore(subjects), w)
    BY <1>2, <1>3, <2>1, <2>2, WrittenIs
  <2>4. Perform(AsStore(subjects), w) = Answer(WriteDone(AsStore(subjects), w), "ok")
    BY <1>2, <2>1, <2>2, PerformDone
  <2>5. Visible' = AsStore(subjects')
    BY DEF Visible
  <2> QED
    BY <2>3, <2>4, <2>5 DEF Visible
<1>4. CASE Return(h, "backend") /\ UNCHANGED subjects
  <2>1. calls'[h].pc = "idle"
    BY <1>4, ReturnFacts DEF Install, Refusals
  <2> QED
    BY <1>4, <2>1
<1> QED
  BY <1>3, <1>4 DEF Install

(* A write that is decided answers as the contract does. *)
LEMMA DecideFollows ==
  ASSUME BaseInvariant, RecordIdsGlobal, IndexHolds, NEW h \in Handles, DecideWrite(h)
  PROVE  Follows(h)
<1> DEFINE w == calls[h].write
           looks == marker /\ w.kind # "commit"
<1>1. calls[h].pc = "decide" /\ UNCHANGED setup
  BY DEF DecideWrite, disk
<1>2. w \in Write /\ Valid(w)
  BY <1>1, WriteUnderWay DEF BaseInvariant
<1>3. PICK index \in [RecordIds -> Location \cup {None}] :
        /\ IF looks /\ handles[h].index = None THEN ScanMay(subjects, index)
           ELSE index = IF handles[h].index = None
                        THEN [r \in RecordIds |-> None] ELSE handles[h].index
        /\ IF Decide(index, w).outcome = "write"
           THEN calls' = [calls EXCEPT ![h].pc = "stage",
                                       ![h].stored = Decide(index, w).stored]
           ELSE Return(h, Decide(index, w).outcome)
  BY DEF DecideWrite
<1> DEFINE v == Decide(index, w)
           due == Perform(Visible, w)
<1>4. looks => ScanMay(subjects, index)
  <2>1. Knows(h) = handles[h] /\ handles[h].epoch = epoch
    BY <1>1 DEF Knows, BaseInvariant, LockHolds, EpochHolds, Writing
  <2> QED
    BY <1>3, <2>1 DEF IndexHolds
<1>5. v.outcome # "write" => due.outcome = v.outcome
  BY <1>2, <1>4, DecideIs
<1>6. v.outcome \in {"write", "ok"} \cup Refusals
  BY <1>2, DecideFacts DEF BaseInvariant, TypeOK
<1> HIDE DEF v, due
<1>7. CASE v.outcome = "write"
  <2>1. calls' = [calls EXCEPT ![h] = [calls[h] EXCEPT !.pc = "stage", !.stored = v.stored]]
    BY <1>3, <1>7 DEF v
  <2>2. calls'[h].pc = "stage"
    BY <2>1 DEF BaseInvariant, TypeOK, Call
  <2> QED
    BY <1>1, <2>2 DEF Follows
<1>8. CASE v.outcome # "write"
  <2>1. Return(h, v.outcome) /\ v.outcome \in {"ok"} \cup Refusals
    BY <1>3, <1>6, <1>8 DEF v
  <2>2. calls'[h].pc = "idle" /\ calls'[h].answer = v.outcome
    BY <1>1, <2>1, ReturnFacts
  <2> QED
    BY <1>1, <1>5, <1>8, <2>2 DEF Follows, due
<1> QED
  BY <1>7, <1>8

(* A step that does not decide or install for a handle. *)
LEMMA QuietFollows ==
  ASSUME NEW h \in Handles,
         \/ calls[h].pc \notin {"decide", "install"}
         \/ calls'[h] = calls[h]
         \/ calls'[h] = Idle
         \/ calls[h].pc = "install" /\ calls'[h].pc # "sync"
  PROVE  Follows(h)
<1>1. Idle.pc = "idle" /\ Idle.answer = "none"
  BY DEF Idle
<1> QED
  BY <1>1 DEF Follows

(* Every step answers as the contract does. *)
LEMMA StepFollows ==
  ASSUME BaseInvariant, RecordIdsGlobal, IndexHolds, FreshHolds, [Next]_vars,
         NEW h \in Handles
  PROVE  Follows(h)
<1>1. CASE UNCHANGED vars
  BY <1>1, QuietFollows DEF vars
<1>2. CASE PowerCut
  BY <1>2, CutFacts, QuietFollows
<1>3. ASSUME NEW g \in Handles, NEW w \in setup.writes, Begin(g, w)
      PROVE  Follows(h)
  BY <1>3, QuietFollows DEF Begin, BaseInvariant, TypeOK
<1>4. ASSUME NEW g \in Handles,
             Lock(g) \/ DecideWrite(g) \/ Stage(g) \/ Install(g) \/ Sync(g)
      PROVE  Follows(h)
  <2>1. CASE g # h
    BY <1>4, <2>1, WriteCalls, QuietFollows
  <2>2. CASE g = h /\ DecideWrite(h)
    BY <2>2, DecideFollows
  <2>3. CASE g = h /\ Install(h)
    <3>1. CASE calls'[h].pc = "idle"
      BY <2>3, <3>1, QuietFollows DEF Install
    <3>2. CASE Perform(Visible, calls[h].write) = Answer(Visible', "ok")
      BY <2>3, <3>2 DEF Follows, Install, Answer
    <3> QED
      BY <2>3, <3>1, <3>2, InstallIs
  <2>4. CASE g = h /\ (Lock(h) \/ Stage(h) \/ Sync(h))
    BY <2>4, QuietFollows DEF Lock, Stage, Sync
  <2> QED
    BY <1>4, <2>1, <2>2, <2>3, <2>4
<1>5. ASSUME NEW g \in Handles, NEW s \in Subjects, AcquireSubject(g, s)
      PROVE  Follows(h)
  BY <1>5, QuietFollows DEF AcquireSubject, Return, BaseInvariant, TypeOK
<1>6. ASSUME NEW g \in Handles, Acquired(g)
      PROVE  Follows(h)
  BY <1>6, QuietFollows DEF Acquired, Return, BaseInvariant, TypeOK
<1>7. ASSUME NEW g \in Handles, Acquire(g)
      PROVE  Follows(h)
  BY <1>7, QuietFollows DEF Acquire, BaseInvariant, TypeOK
<1>8. ASSUME NEW g \in Handles, NEW f \in Handles, Clone(g, f)
      PROVE  Follows(h)
  BY <1>8, QuietFollows DEF Clone
<1>9. ASSUME NEW g \in Handles, Crash(g)
      PROVE  Follows(h)
  BY <1>9, QuietFollows DEF Crash, BaseInvariant, TypeOK
<1> QED
  BY <1>1, <1>2, <1>3, <1>4, <1>5, <1>6, <1>7, <1>8, <1>9 DEF Next, Step

(* Where directories are synced, every write is refused, recognised as a    *)
(* retry or installed exactly as the contract says for what the directory   *)
(* holds under the lock, whatever index the lookup trusted.                 *)
THEOREM AnswersAsContract == Spec /\ Synced => AnswersFollowContract
<1>1. IdInvariant /\ Synced /\ [Next]_vars =>
        [\A h \in Handles :
           LET due == Perform(Visible, calls[h].write) IN
           /\ calls[h].pc = "decide" /\ calls'[h].pc = "idle" /\ calls'[h].answer # "none"
                => calls'[h].answer = due.outcome
           /\ calls[h].pc = "install" /\ calls'[h].pc = "sync"
                => due.outcome = "ok" /\ Visible' = due.store]_vars
  BY StepFollows DEF IdInvariant, Follows
<1>2. Synced /\ [Next]_vars => Synced'
  BY SetupSame DEF Synced
<1> QED
  BY <1>1, <1>2, IdsInductive, PTL DEF Spec, AnswersFollowContract

-----------------------------------------------------------------------------
(* The contract. *)

(* Some documents of one moment and the others of another. *)
MixedDocs(first, second, S) ==
  [s \in Subjects |-> IF s \in S THEN second[s] ELSE first[s]]

(* What a power cut leaves is a store of the contract. *)
LEMMA MixedSound ==
  ASSUME NEW a, NEW b, Sound(a), Sound(b), NEW S,
         \/ \A s \in Subjects : Continues(a[s], b[s])
         \/ \A s \in Subjects : Continues(b[s], a[s])
  PROVE  Sound(MixedDocs(a, b, S))
<1> DEFINE m == MixedDocs(a, b, S)
<1>1. /\ m \in [Subjects -> StoredSubject \cup {None}]
      /\ \A s \in Subjects : PlacedIn(m[s], s)
      /\ \A s \in Subjects : m[s] = a[s] \/ m[s] = b[s]
  BY DEF MixedDocs, Sound
<1> HIDE DEF m
<1>2. \A s \in Subjects : Continues(a[s], a[s]) /\ Continues(b[s], b[s])
  BY ContinuesReflexive DEF Sound
<1>3. \/ \A s \in Subjects : Continues(m[s], b[s])
      \/ \A s \in Subjects : Continues(m[s], a[s])
  BY <1>1, <1>2
<1>4. IdsGlobal(m)
  BY <1>3, IdsCutBack DEF Sound
<1> QED
  BY <1>1, <1>4 DEF Sound, m

(* As stores, they are the mixture the contract describes. *)
LEMMA MixedIs ==
  ASSUME NEW a, NEW b, Sound(a), Sound(b), NEW S,
         \/ \A s \in Subjects : Continues(a[s], b[s])
         \/ \A s \in Subjects : Continues(b[s], a[s])
  PROVE  AsStore(MixedDocs(a, b, S)) = Contract!Mixed(AsStore(a), AsStore(b), S)
<1> DEFINE m == MixedDocs(a, b, S)
           A == AsStore(a)
           B == AsStore(b)
           M == AsStore(m)
<1>1. Sound(m)
  BY MixedSound
<1>2. \A s \in Subjects : m[s] = IF s \in S THEN b[s] ELSE a[s]
  BY DEF MixedDocs
<1>3. \A s \in Subjects, t \in Subjects : \A d, e, r :
        IsEntry(a[s], d, r) /\ IsEntry(b[t], e, r) => s = t /\ d = e
  BY EntryContinues, EntryUnique
<1>4. ASSUME NEW r \in RecordIds
      PROVE  LET Moves(d) == d # None /\ Contract!Named(d) \in S IN
             M.record_ids[r] = IF Moves(A.record_ids[r]) \/ Moves(B.record_ids[r])
                               THEN B.record_ids[r] ELSE A.record_ids[r]
  <2> DEFINE x == A.record_ids[r]
             y == B.record_ids[r]
             z == M.record_ids[r]
             Moves(d) == d # None /\ Contract!Named(d) \in S
  <2>1. /\ x # None => \E s \in Subjects : IsEntry(a[s], x, r)
        /\ \A s \in Subjects : \A e : IsEntry(a[s], e, r) => x = e /\ e # None
    BY IndexFacts
  <2>2. /\ y # None => \E s \in Subjects : IsEntry(b[s], y, r)
        /\ \A s \in Subjects : \A e : IsEntry(b[s], e, r) => y = e /\ e # None
    BY IndexFacts
  <2>3. /\ z # None => \E s \in Subjects : IsEntry(m[s], z, r)
        /\ \A s \in Subjects : \A e : IsEntry(m[s], e, r) => z = e /\ e # None
    BY <1>1, IndexFacts
  <2>4. /\ \A s \in Subjects : \A e : IsEntry(a[s], e, r) => Contract!Named(e) = s
        /\ \A s \in Subjects : \A e : IsEntry(b[s], e, r) => Contract!Named(e) = s
    BY EntryFacts DEF Sound
  <2> HIDE DEF x, y, z, m
  <2>5. CASE z # None
    <3>1. PICK t \in Subjects : IsEntry(m[t], z, r)
      BY <2>3, <2>5
    <3>2. CASE t \in S
      <4>1. IsEntry(b[t], z, r)
        BY <1>2, <3>1, <3>2
      <4>2. y = z /\ Moves(y)
        BY <2>2, <2>4, <2>5, <3>2, <4>1
      <4> QED
        BY <4>2 DEF x, y, z
    <3>3. CASE t \notin S
      <4>1. IsEntry(a[t], z, r)
        BY <1>2, <3>1, <3>3
      <4>2. x = z /\ ~Moves(x)
        <5>1. x = z
          BY <2>1, <4>1
        <5>2. Contract!Named(z) = t
          BY <2>4, <4>1
        <5> QED
          BY <3>3, <5>1, <5>2
      <4>3. ~Moves(y)
        <5> SUFFICES ASSUME y # None PROVE Contract!Named(y) \notin S
          OBVIOUS
        <5>1. PICK s \in Subjects : IsEntry(b[s], y, r)
          BY <2>2
        <5> QED
          BY <1>3, <2>4, <3>3, <4>1, <5>1
      <4> QED
        BY <4>2, <4>3 DEF x, y, z
    <3> QED
      BY <3>2, <3>3
  <2>6. CASE z = None
    <3>1. x # None => Moves(x)
      <4> SUFFICES ASSUME x # None PROVE Contract!Named(x) \in S
        OBVIOUS
      <4>1. PICK s \in Subjects : IsEntry(a[s], x, r)
        BY <2>1
      <4> QED
        BY <1>2, <2>3, <2>4, <2>6, <4>1
    <3>2. ~Moves(y)
      <4> SUFFICES ASSUME y # None, Contract!Named(y) \in S PROVE FALSE
        OBVIOUS
      <4>1. PICK s \in Subjects : IsEntry(b[s], y, r)
        BY <2>2
      <4> QED
        BY <1>2, <2>3, <2>4, <2>6, <4>1
    <3>3. y # None => x = None
      <4> SUFFICES ASSUME y # None, x # None PROVE FALSE
        OBVIOUS
      <4>1. PICK s \in Subjects : IsEntry(b[s], y, r)
        BY <2>2
      <4>2. PICK t \in Subjects : IsEntry(a[t], x, r)
        BY <2>1
      <4> QED
        BY <1>3, <3>1, <3>2, <4>1, <4>2
    <3> QED
      BY <2>6, <3>1, <3>2, <3>3 DEF x, y, z
  <2> QED
    BY <2>5, <2>6
<1>5. ASSUME NEW s \in Subjects
      PROVE  /\ M.instances[s] = IF s \in S THEN B.instances[s] ELSE A.instances[s]
             /\ M.events[s] = IF s \in S THEN B.events[s] ELSE A.events[s]
             /\ M.records[s] = IF s \in S THEN B.records[s] ELSE A.records[s]
             /\ M.observations[s] = IF s \in S THEN B.observations[s] ELSE A.observations[s]
  BY <1>2 DEF AsStore
<1>6. M = [instances |-> [s \in Subjects |-> M.instances[s]],
           events |-> [s \in Subjects |-> M.events[s]],
           records |-> [s \in Subjects |-> M.records[s]],
           observations |-> [s \in Subjects |-> M.observations[s]],
           record_ids |-> [r \in RecordIds |-> M.record_ids[r]]]
  BY DEF AsStore
<1> HIDE DEF m, A, B, M
<1> QED
  BY <1>4, <1>5, <1>6 DEF Contract!Mixed, m, A, B, M

(* The contract's operations are the store's. *)
LEMMA ContractPerforms ==
  ASSUME NEW st, NEW w \in Write
  PROVE  Contract!Perform(st, w) = Perform(st, w)
<1>1. CASE w.kind = "commit"
  BY <1>1 DEF Contract!Perform, Perform, Contract!commit, commit,
    Contract!check, check,
     Contract!revision_of, revision_of, Contract!Answer, Answer
<1>2. CASE w.kind = "commit_recorded"
  BY <1>2 DEF Contract!Perform, Perform, Contract!commit_recorded,
    commit_recorded,
     Contract!check, check, Contract!revision_of, revision_of, Contract!Answer, Answer,
     Contract!CommitValid, CommitValid, Contract!Remembered, Remembered,
     Contract!HeldRecord, HeldRecord, Contract!SameOrConflict, SameOrConflict
<1>3. CASE w.kind = "observe"
  BY <1>3 DEF Contract!Perform, Perform, Contract!observe, observe,
     Contract!check, check, Contract!revision_of, revision_of, Contract!Answer, Answer,
     Contract!ObservationValid, ObservationValid, Contract!Remembered, Remembered,
     Contract!HeldObservation, HeldObservation, Contract!SameOrConflict, SameOrConflict
<1> QED
  BY <1>1, <1>2, <1>3, WriteFacts

(* A root nobody wrote, or one the migration published, is a store the      *)
(* contract may start from.                                                 *)
LEMMA InitImplements == Init => Contract!Init
<1> SUFFICES ASSUME Init PROVE Contract!Init
  OBVIOUS
<1>1. PICK old \in Legacy : subjects = IF old = None THEN [s \in Subjects |-> None] ELSE old
  BY DEF Init
<1>2. AsStore(durable) = Visible
  BY DEF Init, Visible
<1>3. CASE old = None
  <2>1. \A s \in Subjects : subjects[s] = None
    BY <1>1, <1>3
  <2>2. UNION {Documents(subjects[s]) : s \in Subjects} = {}
    BY <2>1 DEF Documents
  <2>3. Visible = EmptyStore
    BY <2>1, <2>2 DEF Visible, AsStore, EmptyStore
  <2> QED
    BY <1>2, <1>3, <2>3 DEF Contract!Init
<1>4. CASE old # None
  <2>1. Visible = AsStore(old)
    BY <1>1, <1>4 DEF Visible
  <2> QED
    BY <1>2, <1>4, <2>1 DEF Contract!Init
<1> QED
  BY <1>3, <1>4

(* What is durable is sound as well: the documents continue it. *)
LEMMA DurableSound ==
  ASSUME BaseInvariant, RecordIdsGlobal
  PROVE  Sound(durable)
<1>1. IdsGlobal(durable)
  BY IdsCutBack DEF BaseInvariant, DurableHolds, RecordIdsGlobal
<1> QED
  BY <1>1 DEF Sound, BaseInvariant, TypeOK, DocumentsPlaced

(* Directories are synced after renames, and a synced directory is reached  *)
(* again after a power cut.                                                 *)
Reliable == Synced /\ (setup.power_cuts => AncestorsDurable)

(* A rename is a write of the contract. *)
LEMMA InstallImplements ==
  ASSUME BaseInvariant, RecordIdsGlobal, FreshHolds, NEW h \in Handles, Install(h)
  PROVE  [Contract!Next]_<<Visible, AsStore(durable)>>
<1> DEFINE w == calls[h].write
<1>1. calls[h].pc = "install" /\ durable' = durable
  BY DEF Install
<1>2. w \in Write /\ w \in setup.writes /\ setup \in Setups
  BY <1>1, WriteUnderWay DEF BaseInvariant, TypeOK
<1>3. AsStore(durable)' = AsStore(durable)
  BY <1>1
<1>4. CASE subjects' = subjects
  BY <1>3, <1>4 DEF Visible
<1>5. CASE Perform(Visible, w) = Answer(Visible', "ok")
  <2>1. Contract!Perform(Visible, w).store = Visible'
    BY <1>2, <1>5, ContractPerforms DEF Answer
  <2>2. Contract!Apply(w)
    BY <1>3, <2>1 DEF Contract!Apply
  <2>3. w \in UNION {one.writes : one \in Setups}
    BY <1>2
  <2> QED
    BY <1>3, <2>2, <2>3 DEF Contract!Next
<1> QED
  BY <1>4, <1>5, InstallIs

(* A sync moves the durable side alone. *)
LEMMA SyncImplements ==
  ASSUME BaseInvariant, RecordIdsGlobal, NEW h \in Handles, Sync(h)
  PROVE  [Contract!Next]_<<Visible, AsStore(durable)>>
<1> DEFINE S == {s \in Subjects : Entity[s] = Entity[SubjectOf(calls[h].write)]}
<1>1. subjects' = subjects
  BY DEF Sync
<1>2. Sound(subjects) /\ Sound(durable)
  BY SoundNow, DurableSound
<1>3. CASE durable' = durable
  BY <1>1, <1>3 DEF Visible
<1>4. CASE durable' = sync_directory(Entity[SubjectOf(calls[h].write)])
  <2>1. durable' = MixedDocs(durable, subjects, S)
    BY <1>4 DEF sync_directory, MixedDocs
  <2>2. AsStore(durable') = Contract!Mixed(AsStore(durable), AsStore(subjects), S)
    BY <1>2, <2>1, MixedIs DEF BaseInvariant, DurableHolds
  <2>3. Contract!Settle(S)
    BY <1>1, <2>2 DEF Contract!Settle, Visible
  <2>4. S \in SUBSET Subjects
    OBVIOUS
  <2> QED
    BY <1>1, <2>3, <2>4 DEF Contract!Next, Visible
<1> QED
  BY <1>3, <1>4 DEF Sync

(* A power cut is a crash of the contract. *)
LEMMA CutImplements ==
  ASSUME BaseInvariant, RecordIdsGlobal, Reliable, PowerCut
  PROVE  [Contract!Next]_<<Visible, AsStore(durable)>>
<1>1. PICK lost \in SUBSET Subjects, gone \in SUBSET {Entity[s] : s \in Subjects} :
        /\ AncestorsDurable => gone = {}
        /\ subjects' = [s \in Subjects |-> IF Entity[s] \in gone THEN None
                                          ELSE IF s \in lost THEN durable[s]
                                          ELSE subjects[s]]
  BY DEF PowerCut
<1>2. durable' = subjects' /\ setup.power_cuts
  BY DEF PowerCut
<1>3. subjects' = MixedDocs(subjects, durable, lost)
  BY <1>1, <1>2 DEF Reliable, MixedDocs
<1>4. Sound(subjects) /\ Sound(durable)
  BY SoundNow, DurableSound
<1>5. AsStore(subjects') = Contract!Mixed(AsStore(subjects), AsStore(durable), lost)
  BY <1>3, <1>4, MixedIs DEF BaseInvariant, DurableHolds
<1>6. Visible' = AsStore(subjects') /\ AsStore(durable)' = Visible'
  BY <1>2 DEF Visible
<1>7. CASE Visible' # Visible
  <2>1. Contract!PowerCut(lost)
    BY <1>5, <1>6 DEF Contract!PowerCut, Visible
  <2> QED
    BY <1>7, <2>1 DEF Contract!Next
<1>8. CASE Visible' = Visible
  <2>1. MixedDocs(durable, subjects, Subjects) = subjects
    BY <1>4 DEF MixedDocs, Sound
  <2>2. AsStore(subjects) = Contract!Mixed(AsStore(durable), AsStore(subjects), Subjects)
    BY <1>4, <2>1, MixedIs DEF BaseInvariant, DurableHolds
  <2>3. Contract!Settle(Subjects)
    BY <1>6, <1>8, <2>2 DEF Contract!Settle, Visible
  <2> QED
    BY <1>8, <2>3 DEF Contract!Next
<1> QED
  BY <1>7, <1>8

(* Every step is one of the contract or a stutter. *)
LEMMA NextImplements ==
  ASSUME IdInvariant, Reliable, [Next]_vars
  PROVE  [Contract!Next]_<<Visible, AsStore(durable)>>
<1>1. BaseInvariant /\ RecordIdsGlobal /\ FreshHolds
  BY DEF IdInvariant, Reliable
<1>2. CASE subjects' = subjects /\ durable' = durable
  BY <1>2 DEF Visible
<1>3. CASE PowerCut
  BY <1>1, <1>3, CutImplements
<1>4. ASSUME NEW h \in Handles, Install(h)
      PROVE  [Contract!Next]_<<Visible, AsStore(durable)>>
  BY <1>1, <1>4, InstallImplements
<1>5. ASSUME NEW h \in Handles, Sync(h)
      PROVE  [Contract!Next]_<<Visible, AsStore(durable)>>
  BY <1>1, <1>5, SyncImplements
<1>6. \/ subjects' = subjects /\ durable' = durable
      \/ PowerCut
      \/ \E h \in Handles : Install(h) \/ Sync(h)
  BY ZenonT(60) DEF Next, Step, vars, Begin, Lock, DecideWrite, Stage, Acquire,
    AcquireSubject,
         Acquired, Clone, Crash, disk
<1> QED
  BY <1>2, <1>3, <1>4, <1>5, <1>6

(* Handles of several processes over one directory, crashing and caching,   *)
(* are one provider of the contract: each write takes effect in the step    *)
(* that renames its document, and settles when the directory is synced.     *)
THEOREM Implements == Spec /\ Reliable => ImplementsContract
<1>1. Init => Contract!Init
  BY InitImplements
<1>2. IdInvariant /\ Reliable /\ [Next]_vars => [Contract!Next]_<<Visible, AsStore(durable)>>
  BY NextImplements
<1>3. Reliable /\ [Next]_vars => Reliable'
  BY SetupSame DEF Reliable, Synced
<1> QED
  BY <1>1, <1>2, <1>3, IdsInductive, PTL
    DEF Spec, ImplementsContract, Contract!Spec

=============================================================================
