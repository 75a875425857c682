------------------------- MODULE StoreContractProofs -------------------------
(***************************************************************************)
(* Facts about the provider operations of StoreContract, for every store.  *)
(***************************************************************************)
EXTENDS StoreContract, SequenceTheorems, WellFoundedInduction, TLAPS

(* The store commit_recorded leaves when it appends. *)
Recorded(store, recorded) ==
  LET s == recorded.instance.subject
      r == recorded.envelope.record_id
  IN [store EXCEPT !.instances[s] = recorded.instance,
                   !.records[s] = Append(@, recorded.envelope),
                   !.record_ids[r] = recorded]

(* The store observe leaves when it appends. *)
Observed(store, observation) ==
  [store EXCEPT
     !.observations[observation.subject] = Append(@, observation),
     !.record_ids[observation.record_id] = observation]

(* The order of the naturals, as a relation. *)
Below == {pair \in Nat \X Nat : pair[1] < pair[2]}

(* The naturals are well-founded. *)
LEMMA BelowIsWellFounded == IsWellFoundedOn(Below, Nat)
<1>1. OpToRel(<, Nat) = Below
  BY DEF OpToRel, Below
<1> QED
  BY <1>1, NatLessThanWellFounded

(* The first place of a nonempty set of places. *)
LEMMA FirstPlace ==
  ASSUME NEW T, T \subseteq Nat, T # {}
  PROVE  Min(T) \in T
<1>1. PICK x \in T : \A y \in T : ~ (<<y, x>> \in Below)
  BY WFMin, BelowIsWellFounded
<1>2. ASSUME NEW y \in T
      PROVE  x <= y
  <2>1. x \in Nat /\ y \in Nat /\ ~ (<<y, x>> \in Below)
    BY <1>1
  <2>2. <<y, x>> \in Nat \X Nat /\ <<y, x>>[1] = y /\ <<y, x>>[2] = x
    BY <2>1
  <2>3. ~ (y < x)
    BY <2>1, <2>2 DEF Below
  <2> QED
    BY <2>1, <2>3
<1> QED
  BY <1>2 DEF Min

(* The parts of an instance. *)
LEMMA InstanceFacts ==
  ASSUME NEW x \in Instance
  PROVE  x # None /\ x.subject \in Subjects /\ x.revision \in Nat /\ x.revision > 0
<1>1. x # None
  BY KernelAssumption
<1> QED
  BY <1>1, KernelAssumption DEF Instance, Revisions

(* The parts of an envelope. *)
LEMMA EnvelopeFacts ==
  ASSUME NEW e \in Envelope
  PROVE  e.result \in Instance /\ e.record_id \in RecordId /\ e.command \in Commands
  BY DEF Envelope

(* The parts of a store. *)
LEMMA StoreFacts ==
  ASSUME NEW st \in Store, NEW s \in Subjects
  PROVE  /\ st.instances[s] # None => st.instances[s] \in Instance
         /\ st.events[s] \in Seq(Event)
         /\ st.records[s] \in Seq(Envelope)
         /\ st.observations[s] \in Seq(RecordedObservation)
         /\ \A i \in DOMAIN st.records[s] :
              st.records[s][i] \in Envelope /\ st.records[s][i].result \in Instance
<1>1. st.records[s] \in Seq(Envelope)
  BY DEF Store
<1>2. \A i \in DOMAIN st.records[s] : st.records[s][i] \in Envelope
  BY <1>1
<1> QED
  BY <1>1, <1>2, EnvelopeFacts DEF Store

(* The events of a command are events. *)
LEMMA KernelTypes ==
  ASSUME NEW command \in Commands, NEW revision \in Revisions
  PROVE  materialize_events(command, revision) \in Seq(Event)
<1>1. Emits[command] \in Nat
  BY KernelAssumption
<1>2. materialize_events(command, revision) \in [1 .. Emits[command] -> Event]
  BY <1>1 DEF materialize_events, Event
<1> QED
  BY <1>1, <1>2, SeqDef

(* What create decides. *)
LEMMA CreateType ==
  ASSUME NEW s \in Subjects, NEW input \in Creations
  PROVE  /\ create(s, input) \in Decision
         /\ create(s, input).instance.subject = s
         /\ create(s, input).instance.revision = 1
         /\ create(s, input).command = input
<1>1. 1 \in Revisions /\ input \in Commands /\ InitialState[input] \in States
  BY KernelAssumption DEF Revisions, Commands
<1>2. materialize_events(input, 1) \in Seq(Event)
  BY <1>1, KernelTypes
<1> QED
  BY <1>1, <1>2 DEF create, Decision, Instance

(* What execute decides, on an instance that admits it. *)
LEMMA ExecuteType ==
  ASSUME NEW instance \in Instance, NEW op \in Operations, Admits(instance, op)
  PROVE  /\ execute(instance, op) \in Decision
         /\ execute(instance, op).instance.subject = instance.subject
         /\ execute(instance, op).instance.revision = instance.revision + 1
         /\ execute(instance, op).command = op
<1>1. /\ instance.revision + 1 \in Revisions
      /\ op \in Commands
      /\ Lifecycle[op][instance.state] \in States
      /\ instance.subject \in Subjects
  BY KernelAssumption DEF Admits, Revisions, Commands, Instance
<1>2. materialize_events(op, instance.revision + 1) \in Seq(Event)
  BY <1>1, KernelTypes
<1> QED
  BY <1>1, <1>2 DEF execute, Decision, Instance

(* What a sealed decision carries. *)
LEMMA SealType ==
  ASSUME NEW d \in Decision, NEW r \in RecordId
  PROVE  /\ Seal(d, r) \in RecordedCommit
         /\ Seal(d, r).instance = d.instance
         /\ Seal(d, r).envelope.result = d.instance
         /\ Seal(d, r).envelope.record_id = r
         /\ Seal(d, r).envelope.command = d.command
  BY DEF Seal, Decision, RecordedCommit, Envelope

-----------------------------------------------------------------------------

(* Recording a decision leaves a store. *)
LEMMA RecordedType ==
  ASSUME NEW st \in Store, NEW d \in RecordedCommit,
         d.envelope.record_id \in RecordIds
  PROVE  Recorded(st, d) \in Store
<1>1. d.instance \in Instance /\ d.envelope \in Envelope /\ d.instance.subject \in Subjects
  BY DEF RecordedCommit, Instance
<1>2. Append(st.records[d.instance.subject], d.envelope) \in Seq(Envelope)
  BY <1>1 DEF Store
<1>3. d \in Document
  BY DEF Document
<1> QED
  BY <1>1, <1>2, <1>3 DEF Recorded, Store

(* Recording an observation leaves a store. *)
LEMMA ObservedType ==
  ASSUME NEW st \in Store, NEW o \in RecordedObservation, o.record_id \in RecordIds
  PROVE  Observed(st, o) \in Store
<1>1. o.subject \in Subjects /\ o \in Document
  BY DEF RecordedObservation, Document
<1>2. Append(st.observations[o.subject], o) \in Seq(RecordedObservation)
  BY <1>1 DEF Store
<1> QED
  BY <1>1, <1>2 DEF Observed, Store

(* A decision's document is never an observation's. *)
LEMMA DocumentsDisjoint ==
  ASSUME NEW d \in RecordedCommit, NEW o \in RecordedObservation
  PROVE  d # o
<1>1. DOMAIN d = {"instance", "envelope"}
  BY DEF RecordedCommit
<1>2. DOMAIN o = {"subject", "revision", "record_id", "note"}
  BY DEF RecordedObservation
<1> QED
  BY <1>1, <1>2

(* commit_recorded refuses and leaves the store alone, or finds the very    *)
(* document it was given, or appends what is valid, new, and expected.      *)
LEMMA CommitRecordedCases ==
  ASSUME NEW st, NEW d, NEW expect
  PROVE  LET res == commit_recorded(st, d, expect)
             s   == d.instance.subject
             r   == d.envelope.record_id
         IN \/ res.store = st /\ res.outcome \in Refusals
            \/ /\ res.store = st /\ res.outcome = "ok" /\ CommitValid(d)
               /\ \/ st.record_ids[r] = d
                  \/ st.record_ids[r] = None /\ HeldRecord(st, s, r) # {}
            \/ /\ res.store = Recorded(st, d) /\ res.outcome = "ok"
               /\ CommitValid(d)
               /\ st.record_ids[r] = None
               /\ HeldRecord(st, s, r) = {}
               /\ check(expect, revision_of(st, s))
<1> DEFINE s == d.instance.subject
           r == d.envelope.record_id
           held == HeldRecord(st, s, r)
<1>1. CASE ~CommitValid(d)
  BY <1>1 DEF commit_recorded, Answer, Refusals
<1>2. CASE CommitValid(d) /\ st.record_ids[r] # None
  BY <1>2 DEF commit_recorded, Answer, Refusals, SameOrConflict, Remembered
<1>3. CASE CommitValid(d) /\ st.record_ids[r] = None /\ held # {}
  BY <1>3 DEF commit_recorded, Answer, Refusals, SameOrConflict, Remembered
<1>4. CASE /\ CommitValid(d) /\ st.record_ids[r] = None /\ held = {}
           /\ ~check(expect, revision_of(st, s))
  BY <1>4 DEF commit_recorded, Answer, Refusals, Remembered
<1>5. CASE /\ CommitValid(d) /\ st.record_ids[r] = None /\ held = {}
           /\ check(expect, revision_of(st, s))
  BY <1>5 DEF commit_recorded, Answer, Refusals, Remembered, Recorded
<1> QED
  BY <1>1, <1>2, <1>3, <1>4, <1>5

(* The same for observe. *)
LEMMA ObserveCases ==
  ASSUME NEW st, NEW o
  PROVE  LET res == observe(st, o)
             s   == o.subject
             r   == o.record_id
         IN \/ res.store = st /\ res.outcome \in Refusals
            \/ /\ res.store = st /\ res.outcome = "ok" /\ ObservationValid(o)
               /\ \/ st.record_ids[r] = o
                  \/ st.record_ids[r] = None /\ HeldObservation(st, s, r) # {}
            \/ /\ res.store = Observed(st, o) /\ res.outcome = "ok"
               /\ ObservationValid(o)
               /\ st.record_ids[r] = None
               /\ HeldObservation(st, s, r) = {}
               /\ check(o.revision, revision_of(st, s))
<1> DEFINE s == o.subject
           r == o.record_id
           held == HeldObservation(st, s, r)
<1>1. CASE ~ObservationValid(o)
  BY <1>1 DEF observe, Answer, Refusals
<1>2. CASE ObservationValid(o) /\ st.record_ids[r] # None
  BY <1>2 DEF observe, Answer, Refusals, SameOrConflict, Remembered
<1>3. CASE ObservationValid(o) /\ st.record_ids[r] = None /\ held # {}
  BY <1>3 DEF observe, Answer, Refusals, SameOrConflict, Remembered
<1>4. CASE /\ ObservationValid(o) /\ st.record_ids[r] = None /\ held = {}
           /\ ~check(o.revision, revision_of(st, s))
  BY <1>4 DEF observe, Answer, Refusals, Remembered
<1>5. CASE /\ ObservationValid(o) /\ st.record_ids[r] = None /\ held = {}
           /\ check(o.revision, revision_of(st, s))
  BY <1>5 DEF observe, Answer, Refusals, Remembered, Observed
<1> QED
  BY <1>1, <1>2, <1>3, <1>4, <1>5

-----------------------------------------------------------------------------

(* What appending one entry does to a history, place by place. *)
LEMMA AppendFacts ==
  ASSUME NEW S, NEW a \in Seq(S), NEW e \in S, NEW b, b = Append(a, e)
  PROVE  /\ Len(a) \in Nat
         /\ DOMAIN a = 1 .. Len(a)
         /\ DOMAIN b = 1 .. Len(a) + 1
         /\ DOMAIN b = DOMAIN a \cup {Len(a) + 1}
         /\ \A i \in DOMAIN a : b[i] = a[i]
         /\ b[Len(a) + 1] = e
         /\ Len(a) + 1 \notin DOMAIN a
  OBVIOUS

(* When the index is exact, an id it does not name is in no history. *)
LEMMA UnnamedIsUnused ==
  ASSUME NEW st \in Store, IndexIsExact(st), NEW r \in RecordIds, st.record_ids[r] = None
  PROVE  /\ \A s \in Subjects : HeldRecord(st, s, r) = {}
         /\ \A s \in Subjects : HeldObservation(st, s, r) = {}
<1>1. ASSUME NEW s \in Subjects, NEW i \in DOMAIN st.records[s],
             st.records[s][i].record_id = r
      PROVE  FALSE
  <2> DEFINE e == st.records[s][i]
             d == [instance |-> e.result, envelope |-> e]
  <2>1. e \in Envelope
    BY DEF Store
  <2>2. d \in Document
    BY <2>1 DEF RecordedCommit, Document, Envelope
  <2>3. RecordIndexed(st, s, i)
    BY DEF IndexIsExact
  <2>4. st.record_ids[r] = d
    BY <1>1, <2>3 DEF RecordIndexed
  <2> QED
    BY <2>2, <2>4, StoreAssumption
<1>2. ASSUME NEW s \in Subjects, NEW i \in DOMAIN st.observations[s],
             st.observations[s][i].record_id = r
      PROVE  FALSE
  <2>1. st.observations[s][i] \in Document
    BY DEF Store, Document
  <2>2. ObservationIndexed(st, s, i)
    BY DEF IndexIsExact
  <2> QED
    BY <1>2, <2>1, <2>2, StoreAssumption DEF ObservationIndexed
<1> QED
  BY <1>1, <1>2 DEF HeldRecord, HeldObservation

(* An exact index stays exact when a decision is appended. *)
LEMMA RecordedKeepsIndex ==
  ASSUME NEW st \in Store, IndexIsExact(st), NEW d \in RecordedCommit, CommitValid(d),
         st.record_ids[d.envelope.record_id] = None
  PROVE  IndexIsExact(Recorded(st, d))
<1> DEFINE z == d.instance.subject
           q == d.envelope.record_id
           nu == Recorded(st, d)
<1>1. /\ z \in Subjects /\ q \in RecordIds
      /\ d.instance \in Instance /\ d.envelope \in Envelope
      /\ d.envelope.result = d.instance
      /\ d = [instance |-> d.envelope.result, envelope |-> d.envelope]
  BY DEF RecordedCommit, Envelope, Instance, CommitValid, RecordId
<1>2. /\ \A s \in Subjects : HeldRecord(st, s, q) = {}
      /\ \A s \in Subjects : HeldObservation(st, s, q) = {}
  BY <1>1, UnnamedIsUnused
<1>3. /\ nu.observations = st.observations
      /\ \A s \in Subjects : s # z => nu.records[s] = st.records[s]
      /\ nu.records[z] = Append(st.records[z], d.envelope)
      /\ nu.record_ids[q] = d
      /\ \A r \in RecordIds : r # q => nu.record_ids[r] = st.record_ids[r]
  BY <1>1 DEF Recorded, Store
<1>4. /\ st.records[z] \in Seq(Envelope)
      /\ DOMAIN nu.records[z] = DOMAIN st.records[z] \cup {Len(st.records[z]) + 1}
      /\ \A i \in DOMAIN st.records[z] : nu.records[z][i] = st.records[z][i]
      /\ nu.records[z][Len(st.records[z]) + 1] = d.envelope
      /\ Len(st.records[z]) + 1 \notin DOMAIN st.records[z]
  <2>1. st.records[z] \in Seq(Envelope)
    BY <1>1 DEF Store
  <2> DEFINE a == st.records[z]
             b == nu.records[z]
  <2>2. a \in Seq(Envelope) /\ b = Append(a, d.envelope)
    BY <2>1, <1>3
  <2> HIDE DEF a, b, nu
  <2>3. /\ DOMAIN b = DOMAIN a \cup {Len(a) + 1}
        /\ \A i \in DOMAIN a : b[i] = a[i]
        /\ b[Len(a) + 1] = d.envelope
        /\ Len(a) + 1 \notin DOMAIN a
    BY <2>2, <1>1, AppendFacts
  <2> QED
    BY <2>1, <2>3 DEF a, b
<1> HIDE DEF nu
<1>5. ASSUME NEW s \in Subjects, NEW i \in DOMAIN nu.records[s]
      PROVE  RecordIndexed(nu, s, i)
  <2>1. \A k \in DOMAIN st.records[s] : st.records[s][k].record_id # q
    BY <1>2 DEF HeldRecord
  <2>2. ASSUME i \in DOMAIN st.records[s]
        PROVE  RecordIndexed(st, s, i)
    BY <2>2 DEF IndexIsExact
  <2>3. CASE s # z
    BY ZenonT(30), <2>1, <2>2, <2>3, <1>3 DEF RecordIndexed
  <2>4. CASE s = z /\ i \in DOMAIN st.records[z]
    <3> DEFINE e == st.records[s][i]
    <3>1. /\ nu.records[s][i] = e
          /\ e.record_id \in RecordIds /\ e.record_id # q
          /\ nu.record_ids[e.record_id] = st.record_ids[e.record_id]
      BY <2>1, <2>2, <2>4, <1>3, <1>4 DEF RecordIndexed
    <3>2. ASSUME NEW j \in DOMAIN nu.records[s], nu.records[s][j].record_id = e.record_id
          PROVE  i = j
      <4>1. j \in DOMAIN st.records[s] /\ nu.records[s][j] = st.records[s][j]
        BY <3>1, <3>2, <2>4, <1>4
      <4> QED
        BY <4>1, <3>2, <2>2, <2>4 DEF RecordIndexed
    <3> QED
      BY <3>1, <3>2, <2>2, <2>4 DEF RecordIndexed
  <2>5. CASE s = z /\ i = Len(st.records[z]) + 1
    BY <2>1, <2>5, <1>1, <1>3, <1>4 DEF RecordIndexed
  <2> QED
    BY <2>3, <2>4, <2>5, <1>4
<1>6. ASSUME NEW s \in Subjects, NEW i \in DOMAIN nu.observations[s]
      PROVE  ObservationIndexed(nu, s, i)
  <2>1. st.observations[s][i].record_id # q
    BY <1>2, <1>3 DEF HeldObservation
  <2>2. ObservationIndexed(st, s, i)
    BY <1>3 DEF IndexIsExact
  <2> QED
    BY <2>1, <2>2, <1>3 DEF ObservationIndexed
<1>7. ASSUME NEW r \in RecordIds
      PROVE  NameHeld(nu, r)
  <2>1. CASE r = q
    BY <2>1, <1>1, <1>3, <1>4, DocumentsDisjoint DEF NameHeld
  <2>2. CASE r # q
    <3> DEFINE g == st.record_ids[r]
    <3>1. nu.record_ids[r] = g /\ NameHeld(st, r)
      BY <2>2, <1>3 DEF IndexIsExact
    <3>2. ASSUME g \in RecordedCommit
          PROVE  \E i \in DOMAIN nu.records[g.instance.subject] :
                      nu.records[g.instance.subject][i] = g.envelope
      <4>1. g.instance.subject \in Subjects
        BY <3>2 DEF RecordedCommit, Instance
      <4>2. PICK i \in DOMAIN st.records[g.instance.subject] :
                 st.records[g.instance.subject][i] = g.envelope
        BY <3>1, <3>2 DEF NameHeld
      <4> QED
        BY <4>1, <4>2, <1>3, <1>4
    <3> QED
      BY <3>1, <3>2, <1>3 DEF NameHeld
  <2> QED
    BY <2>1, <2>2
<1> QED
  BY <1>5, <1>6, <1>7 DEF IndexIsExact, nu

(* An exact index stays exact when an observation is appended. *)
LEMMA ObservedKeepsIndex ==
  ASSUME NEW st \in Store, IndexIsExact(st), NEW o \in RecordedObservation,
         ObservationValid(o), st.record_ids[o.record_id] = None
  PROVE  IndexIsExact(Observed(st, o))
<1> DEFINE z == o.subject
           q == o.record_id
           nu == Observed(st, o)
<1>1. z \in Subjects /\ q \in RecordIds
  BY DEF RecordedObservation, ObservationValid, RecordId
<1>2. /\ \A s \in Subjects : HeldRecord(st, s, q) = {}
      /\ \A s \in Subjects : HeldObservation(st, s, q) = {}
  BY <1>1, UnnamedIsUnused
<1>3. /\ nu.records = st.records
      /\ \A s \in Subjects : s # z => nu.observations[s] = st.observations[s]
      /\ nu.observations[z] = Append(st.observations[z], o)
      /\ nu.record_ids[q] = o
      /\ \A r \in RecordIds : r # q => nu.record_ids[r] = st.record_ids[r]
  BY <1>1 DEF Observed, Store
<1>4. /\ st.observations[z] \in Seq(RecordedObservation)
      /\ DOMAIN nu.observations[z] =
           DOMAIN st.observations[z] \cup {Len(st.observations[z]) + 1}
      /\ \A i \in DOMAIN st.observations[z] :
           nu.observations[z][i] = st.observations[z][i]
      /\ nu.observations[z][Len(st.observations[z]) + 1] = o
      /\ Len(st.observations[z]) + 1 \notin DOMAIN st.observations[z]
  <2>1. st.observations[z] \in Seq(RecordedObservation)
    BY <1>1 DEF Store
  <2> DEFINE a == st.observations[z]
             b == nu.observations[z]
  <2>2. a \in Seq(RecordedObservation) /\ b = Append(a, o)
    BY <2>1, <1>3
  <2> HIDE DEF a, b, nu
  <2>3. /\ DOMAIN b = DOMAIN a \cup {Len(a) + 1}
        /\ \A i \in DOMAIN a : b[i] = a[i]
        /\ b[Len(a) + 1] = o
        /\ Len(a) + 1 \notin DOMAIN a
    BY <2>2, <1>1, AppendFacts
  <2> QED
    BY <2>1, <2>3 DEF a, b
<1> HIDE DEF nu
<1>5. ASSUME NEW s \in Subjects, NEW i \in DOMAIN nu.records[s]
      PROVE  RecordIndexed(nu, s, i)
  <2>1. st.records[s][i].record_id # q
    BY <1>2, <1>3 DEF HeldRecord
  <2>2. RecordIndexed(st, s, i)
    BY <1>3 DEF IndexIsExact
  <2> QED
    BY <2>1, <2>2, <1>3 DEF RecordIndexed
<1>6. ASSUME NEW s \in Subjects, NEW i \in DOMAIN nu.observations[s]
      PROVE  ObservationIndexed(nu, s, i)
  <2>1. \A k \in DOMAIN st.observations[s] : st.observations[s][k].record_id # q
    BY <1>2 DEF HeldObservation
  <2>2. ASSUME i \in DOMAIN st.observations[s]
        PROVE  ObservationIndexed(st, s, i)
    BY <2>2 DEF IndexIsExact
  <2>3. CASE s # z
    BY <2>1, <2>2, <2>3, <1>3 DEF ObservationIndexed
  <2>4. CASE s = z /\ i \in DOMAIN st.observations[z]
    <3> DEFINE e == st.observations[s][i]
    <3>1. /\ nu.observations[s][i] = e
          /\ e.record_id \in RecordIds /\ e.record_id # q
          /\ nu.record_ids[e.record_id] = st.record_ids[e.record_id]
      BY <2>1, <2>2, <2>4, <1>3, <1>4 DEF ObservationIndexed
    <3>2. ASSUME NEW j \in DOMAIN nu.observations[s],
                 nu.observations[s][j].record_id = e.record_id
          PROVE  i = j
      <4>1. /\ j \in DOMAIN st.observations[s]
            /\ nu.observations[s][j] = st.observations[s][j]
        BY <3>1, <3>2, <2>4, <1>4
      <4> QED
        BY <4>1, <3>2, <2>2, <2>4 DEF ObservationIndexed
    <3> QED
      BY <3>1, <3>2, <2>2, <2>4 DEF ObservationIndexed
  <2>5. CASE s = z /\ i = Len(st.observations[z]) + 1
    BY <2>1, <2>5, <1>1, <1>3, <1>4 DEF ObservationIndexed
  <2> QED
    BY <2>3, <2>4, <2>5, <1>4
<1>7. ASSUME NEW r \in RecordIds
      PROVE  NameHeld(nu, r)
  <2>1. CASE r = q
    BY <2>1, <1>1, <1>3, <1>4, DocumentsDisjoint DEF NameHeld
  <2>2. CASE r # q
    <3> DEFINE g == st.record_ids[r]
    <3>1. nu.record_ids[r] = g /\ NameHeld(st, r)
      BY <2>2, <1>3 DEF IndexIsExact
    <3>2. ASSUME g \in RecordedObservation
          PROVE  \E i \in DOMAIN nu.observations[g.subject] :
                      nu.observations[g.subject][i] = g
      <4>1. g.subject \in Subjects
        BY <3>2 DEF RecordedObservation
      <4>2. PICK i \in DOMAIN st.observations[g.subject] :
                 st.observations[g.subject][i] = g
        BY <3>1, <3>2 DEF NameHeld
      <4> QED
        BY ZenonT(30), <4>1, <4>2, <1>3, <1>4
    <3> QED
      BY <3>1, <3>2, <1>3 DEF NameHeld
  <2> QED
    BY <2>1, <2>2
<1> QED
  BY <1>5, <1>6, <1>7 DEF IndexIsExact, nu

-----------------------------------------------------------------------------

(* The store commit leaves when it writes. *)
Committed(store, decision) ==
  LET s == decision.instance.subject
  IN [store EXCEPT !.instances[s] = decision.instance,
                   !.events[s] = @ \o decision.events]

(* commit refuses and leaves the store alone, or writes what was expected. *)
LEMMA CommitCases ==
  ASSUME NEW st, NEW d, NEW expect
  PROVE  LET res == commit(st, d, expect)
         IN \/ res.store = st /\ res.outcome = "revision_conflict"
            \/ /\ res.store = Committed(st, d) /\ res.outcome = "ok"
               /\ check(expect, revision_of(st, d.instance.subject))
  BY DEF commit, Committed, Answer

(* Committing a decision leaves a store, and touches no record. *)
LEMMA CommittedType ==
  ASSUME NEW st \in Store, NEW d \in Decision
  PROVE  /\ Committed(st, d) \in Store
         /\ Committed(st, d).records = st.records
         /\ Committed(st, d).observations = st.observations
         /\ Committed(st, d).record_ids = st.record_ids
<1>1. d.instance \in Instance /\ d.instance.subject \in Subjects /\ d.events \in Seq(Event)
  BY DEF Decision, Instance
<1>2. st.events[d.instance.subject] \o d.events \in Seq(Event)
  BY <1>1 DEF Store
<1> QED
  BY <1>1, <1>2 DEF Committed, Store

(* A store extends itself. *)
LEMMA ExtendsReflexive ==
  ASSUME NEW st \in Store
  PROVE  Extends(st, st) /\ Advances(st, st)
<1>1. ASSUME NEW s \in Subjects, st.instances[s] # None
      PROVE  st.instances[s].revision \in Int
  BY <1>1 DEF Store, Instance, Revisions
<1> QED
  BY <1>1 DEF Extends, Advances, Keeps

(* Appending to a sequence keeps what it has. *)
LEMMA AppendKeeps ==
  ASSUME NEW S, NEW q \in Seq(S), NEW e
  PROVE  Keeps(q, Append(q, e))
  BY DEF Keeps

(* Appending to a sequence adds the element. *)
LEMMA AppendLast ==
  ASSUME NEW S, NEW q \in Seq(S), NEW e \in S
  PROVE  \E i \in DOMAIN Append(q, e) : Append(q, e)[i] = e
<1>1. Len(q) + 1 \in DOMAIN Append(q, e) /\ Append(q, e)[Len(q) + 1] = e
  OBVIOUS
<1> QED
  BY <1>1

(* Joining a sequence to another keeps what that one has. *)
LEMMA ConcatKeeps ==
  ASSUME NEW S, NEW q \in Seq(S), NEW e \in Seq(S)
  PROVE  Keeps(q, q \o e)
  BY DEF Keeps

(* A sequence keeps itself. *)
LEMMA KeepsReflexive ==
  ASSUME NEW q PROVE Keeps(q, q)
  BY DEF Keeps

(* Recording a decision only adds to a store. *)
LEMMA RecordedExtends ==
  ASSUME NEW st \in Store, NEW d \in RecordedCommit, CommitValid(d),
         st.record_ids[d.envelope.record_id] = None
  PROVE  Extends(st, Recorded(st, d))
<1> DEFINE z == d.instance.subject
           q == d.envelope.record_id
           nu == Recorded(st, d)
<1>1. z \in Subjects /\ q \in RecordIds /\ d.envelope \in Envelope
  BY DEF RecordedCommit, Envelope, Instance, CommitValid, RecordId
<1>2. /\ nu.observations = st.observations /\ nu.events = st.events
      /\ \A s \in Subjects : s # z => nu.records[s] = st.records[s]
      /\ nu.records[z] = Append(st.records[z], d.envelope)
      /\ \A r \in RecordIds : r # q => nu.record_ids[r] = st.record_ids[r]
      /\ st.records[z] \in Seq(Envelope)
  BY <1>1 DEF Recorded, Store
<1>3. Keeps(st.records[z], nu.records[z])
  BY <1>2, AppendKeeps
<1> HIDE DEF nu
<1>4. \A s \in Subjects : Keeps(st.records[s], nu.records[s])
  BY <1>2, <1>3, KeepsReflexive
<1> QED
  BY <1>2, <1>4, KeepsReflexive DEF Extends, nu

(* Recording an observation only adds to a store. *)
LEMMA ObservedExtends ==
  ASSUME NEW st \in Store, NEW o \in RecordedObservation, ObservationValid(o),
         st.record_ids[o.record_id] = None
  PROVE  Extends(st, Observed(st, o))
<1> DEFINE z == o.subject
           q == o.record_id
           nu == Observed(st, o)
<1>1. z \in Subjects /\ q \in RecordIds
  BY DEF RecordedObservation, ObservationValid, RecordId
<1>2. /\ nu.records = st.records /\ nu.events = st.events
      /\ \A s \in Subjects : s # z => nu.observations[s] = st.observations[s]
      /\ nu.observations[z] = Append(st.observations[z], o)
      /\ \A r \in RecordIds : r # q => nu.record_ids[r] = st.record_ids[r]
      /\ st.observations[z] \in Seq(RecordedObservation)
  BY <1>1 DEF Observed, Store
<1>3. Keeps(st.observations[z], nu.observations[z])
  BY <1>2, AppendKeeps
<1> HIDE DEF nu
<1>4. \A s \in Subjects : Keeps(st.observations[s], nu.observations[s])
  BY <1>2, <1>3, KeepsReflexive
<1> QED
  BY <1>2, <1>4, KeepsReflexive DEF Extends, nu

(* Committing a decision only adds to a store. *)
LEMMA CommittedExtends ==
  ASSUME NEW st \in Store, NEW d \in Decision
  PROVE  Extends(st, Committed(st, d))
<1> DEFINE z == d.instance.subject
           nu == Committed(st, d)
<1>1. z \in Subjects /\ d.events \in Seq(Event)
  BY DEF Decision, Instance
<1>2. /\ nu.records = st.records /\ nu.observations = st.observations
      /\ nu.record_ids = st.record_ids
      /\ \A s \in Subjects : s # z => nu.events[s] = st.events[s]
      /\ nu.events[z] = st.events[z] \o d.events
      /\ st.events[z] \in Seq(Event)
  BY <1>1 DEF Committed, Store
<1>3. Keeps(st.events[z], nu.events[z])
  BY <1>1, <1>2, ConcatKeeps
<1> HIDE DEF nu
<1>4. \A s \in Subjects : Keeps(st.events[s], nu.events[s])
  BY <1>2, <1>3, KeepsReflexive
<1> QED
  BY <1>2, <1>4, KeepsReflexive DEF Extends, nu

-----------------------------------------------------------------------------

(* A write that expects nothing, or the revision before its own, advances. *)
LEMMA WriteAdvances ==
  ASSUME NEW st \in Store, NEW nu \in Store, NEW inst \in Instance,
         nu.instances = [st.instances EXCEPT ![inst.subject] = inst],
         \/ st.instances[inst.subject] = None
         \/ inst.revision = st.instances[inst.subject].revision + 1
  PROVE  Advances(st, nu)
<1> SUFFICES ASSUME NEW s \in Subjects, st.instances[s] # None
             PROVE  /\ nu.instances[s] # None
                    /\ st.instances[s].revision <= nu.instances[s].revision
                    /\ st.instances[s].revision = nu.instances[s].revision =>
                         st.instances[s] = nu.instances[s]
  BY DEF Advances
<1>1. /\ st.instances[s] \in Instance /\ st.instances[s].revision \in Int
      /\ inst.subject \in Subjects /\ inst # None /\ inst.revision \in Int
  BY InstanceFacts, StoreFacts
<1>2. CASE s = inst.subject
  BY <1>1, <1>2 DEF Store
<1>3. CASE s # inst.subject
  BY <1>1, <1>3 DEF Store
<1> QED
  BY <1>2, <1>3

(* An unrecorded write that expects nothing, or the revision before its    *)
(* own, leaves every recorded history a path of the kernel.                *)
LEMMA CommittedKeepsPath ==
  ASSUME NEW st \in Store, IsKernelPath(st), NEW d \in Decision,
         \/ st.instances[d.instance.subject] = None
         \/ d.instance.revision = st.instances[d.instance.subject].revision + 1
  PROVE  IsKernelPath(Committed(st, d))
<1> DEFINE z == d.instance.subject
           nu == Committed(st, d)
<1>0. Placed(nu)
  BY InstanceFacts DEF Placed, IsKernelPath, Committed, Store, Decision
<1> SUFFICES ASSUME NEW s \in Subjects, NEW i \in DOMAIN nu.records[s]
             PROVE  OnKernelPath(nu, s, i)
  BY <1>0 DEF IsKernelPath
<1>1. /\ d.instance \in Instance /\ z \in Subjects
      /\ d.instance # None /\ d.instance.revision \in Int
  BY InstanceFacts DEF Decision
<1>2. /\ nu.records = st.records
      /\ nu.instances = [st.instances EXCEPT ![z] = d.instance]
  BY <1>1 DEF Committed, Store
<1>3. OnKernelPath(st, s, i)
  BY <1>2 DEF IsKernelPath
<1>4. /\ st.instances[s] \in Instance /\ st.instances[s].revision \in Int
      /\ st.records[s][i].result.revision \in Int
  BY <1>2, <1>3, InstanceFacts, StoreFacts DEF OnKernelPath, NotPast
<1> HIDE DEF nu
<1>5. CASE s # z
  <2>1. nu.instances[s] = st.instances[s]
    BY <1>2, <1>5 DEF Store
  <2> QED
    BY <1>2, <1>3, <2>1 DEF OnKernelPath
<1>6. CASE s = z
  <2>1. nu.instances[s] = d.instance
    BY <1>2, <1>6 DEF Store
  <2>2. NotPast(st.records[s][i].result, st.instances[s])
    BY <1>3 DEF OnKernelPath
  <2>3. NotPast(st.records[s][i].result, d.instance)
    BY <1>1, <1>4, <1>6, <2>2 DEF NotPast
  <2> QED
    BY <1>2, <1>3, <2>1, <2>3 DEF OnKernelPath
<1> QED
  BY <1>5, <1>6

(* A recorded decision that the kernel took on the very instance held, or  *)
(* on nothing, extends the path.                                           *)
LEMMA RecordedKeepsPath ==
  ASSUME NEW st \in Store, IsKernelPath(st), NEW d \in RecordedCommit, CommitValid(d),
         LET held == st.instances[d.instance.subject]
             op   == d.envelope.command
         IN held # None => /\ op \in Operations /\ Admits(held, op)
                           /\ d.instance = execute(held, op).instance
  PROVE  IsKernelPath(Recorded(st, d))
<1> DEFINE z == d.instance.subject
           held == st.instances[z]
           op == d.envelope.command
           n == Len(st.records[z])
           nu == Recorded(st, d)
<1>0. Placed(nu)
  BY InstanceFacts DEF Placed, IsKernelPath, Recorded, Store, RecordedCommit
<1> SUFFICES ASSUME NEW s \in Subjects, NEW i \in DOMAIN nu.records[s]
             PROVE  OnKernelPath(nu, s, i)
  BY <1>0 DEF IsKernelPath
<1>1. /\ d.instance \in Instance /\ z \in Subjects /\ d.envelope.record_id \in RecordIds
      /\ d.envelope \in Envelope /\ d.envelope.result = d.instance
      /\ d.instance # None /\ d.instance.revision \in Int
  BY InstanceFacts, EnvelopeFacts DEF RecordedCommit, CommitValid, RecordId
<1>2. /\ \A t \in Subjects : t # z => nu.records[t] = st.records[t]
      /\ nu.records[z] = Append(st.records[z], d.envelope)
      /\ \A t \in Subjects : t # z => nu.instances[t] = st.instances[t]
      /\ nu.instances[z] = d.instance
  BY <1>1 DEF Recorded, Store
<1>3. /\ st.records[z] \in Seq(Envelope) /\ n \in Nat
      /\ DOMAIN st.records[z] = 1 .. n
      /\ DOMAIN nu.records[z] = 1 .. n + 1
      /\ \A k \in 1 .. n : nu.records[z][k] = st.records[z][k]
      /\ nu.records[z][n + 1] = d.envelope
  <2>1. st.records[z] \in Seq(Envelope)
    BY <1>1 DEF Store
  <2> DEFINE a == st.records[z]
             b == nu.records[z]
  <2>2. a \in Seq(Envelope) /\ b = Append(a, d.envelope)
    BY <2>1, <1>2
  <2> HIDE DEF a, b, nu
  <2>3. /\ Len(a) \in Nat /\ DOMAIN a = 1 .. Len(a) /\ DOMAIN b = 1 .. Len(a) + 1
        /\ \A k \in 1 .. Len(a) : b[k] = a[k]
        /\ b[Len(a) + 1] = d.envelope
    BY <2>2, <1>1, AppendFacts
  <2> QED
    BY <2>1, <2>3 DEF a, b
<1>4. held # None => held \in Instance /\ held.revision \in Int
                     /\ d.instance.revision = held.revision + 1
  BY <1>1, ExecuteType, StoreFacts, InstanceFacts
<1> HIDE DEF nu, n
<1>5. CASE s # z
  <2>1. nu.records[s] = st.records[s] /\ nu.instances[s] = st.instances[s]
    BY <1>2, <1>5
  <2>2. OnKernelPath(st, s, i)
    BY <2>1 DEF IsKernelPath
  <2> QED
    BY <2>1, <2>2 DEF OnKernelPath
<1>6. CASE s = z /\ i = n + 1
  <2>1. nu.records[s][i].result = nu.instances[s]
    BY <1>1, <1>2, <1>3, <1>6
  <2>2. i + 1 \notin DOMAIN nu.records[s]
    BY <1>3, <1>6
  <2>3. nu.instances[s] = d.instance
    BY <1>2, <1>6
  <2>4. NotPast(d.instance, d.instance)
    BY <1>1 DEF NotPast
  <2> QED
    BY <2>1, <2>2, <2>3, <2>4 DEF OnKernelPath
<1>7. CASE s = z /\ i \in 1 .. n
  <2> DEFINE here == st.records[z][i].result
  <2>1. OnKernelPath(st, z, i)
    BY <1>1, <1>3, <1>7 DEF IsKernelPath
  <2>2. /\ nu.records[s][i].result = here /\ here.revision \in Int
        /\ nu.instances[s] = d.instance
    <3>1. nu.records[s][i] = st.records[z][i]
      BY <1>3, <1>7
    <3>2. here.revision \in Int
      BY <1>1, <1>3, <1>7, StoreFacts, InstanceFacts
    <3> QED
      BY <1>2, <1>7, <3>1, <3>2
  <2>3. NotPast(here, held)
    BY <2>1 DEF OnKernelPath
  <2> HIDE DEF here
  <2>4. NotPast(here, d.instance)
    BY <1>1, <1>4, <2>2, <2>3 DEF NotPast
  <2>5. CASE i = n
    <3>1. nu.records[s][i + 1] = d.envelope
      BY <2>5, <1>3, <1>7
    <3>2. LeadsTo(here, d.envelope)
      <4>1. held # None /\ here.revision <= held.revision
        BY <2>3 DEF NotPast
      <4>2. here.revision < d.instance.revision
        BY <4>1, <2>2, <1>1, <1>4
      <4>3. d.instance.revision = here.revision + 1 => here = held
        BY <4>1, <2>2, <2>3, <1>4 DEF NotPast
      <4>4. Admits(held, op) /\ d.instance = execute(held, op).instance
        BY <4>1
      <4> QED
        BY <1>1, <4>2, <4>3, <4>4 DEF LeadsTo
    <3> QED
      BY <3>1, <3>2, <2>2, <2>4 DEF OnKernelPath
  <2>6. CASE i # n
    <3>0. n \in Nat /\ i \in 1 .. n /\ i # n
      BY <2>6, <1>3, <1>7
    <3>1. i + 1 \in 1 .. n
      BY <3>0
    <3>2. nu.records[s][i + 1] = st.records[z][i + 1]
      BY <3>1, <1>3, <1>7
    <3>3. LeadsTo(here, st.records[z][i + 1])
      BY <3>1, <2>1, <1>3 DEF OnKernelPath, here
    <3> QED
      BY <3>2, <3>3, <2>2, <2>4 DEF OnKernelPath
  <2> QED
    BY <2>5, <2>6
<1> QED
  BY <1>3, <1>5, <1>6, <1>7

=============================================================================
