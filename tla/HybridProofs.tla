---------------------------- MODULE HybridProofs ----------------------------
(***************************************************************************)
(* What Hybrid keeps for every policy, every set of writes, other clients  *)
(* and failures.                                                           *)
(***************************************************************************)
EXTENDS Hybrid, StoreContractProofs

(* A store without its unrecorded events, which no property below tells    *)
(* apart.                                                                  *)
Bare(st) ==
  [instances    |-> st.instances,
   events       |-> [s \in Subjects |-> << >>],
   records      |-> st.records,
   observations |-> st.observations,
   record_ids   |-> st.record_ids]

Shaped(st) == DOMAIN st = DOMAIN EmptyStore /\ Bare(st) \in Store

(* What one write to a store leaves of it.                                 *)
Continues(old, new) ==
  /\ \A s \in Subjects : Keeps(old.records[s], new.records[s])
  /\ \A s \in Subjects : Keeps(old.observations[s], new.observations[s])
  /\ \A r \in RecordIds :
       old.record_ids[r] # None => new.record_ids[r] = old.record_ids[r]

Sound(st) == Shaped(st) /\ IndexIsExact(st) /\ Covered(st) /\ Placed(st)

Good(old, new) == Sound(new) /\ Continues(old, new) /\ Advances(old, new)

(* The facts of a shaped store. *)
LEMMA ShapedFacts ==
  ASSUME NEW st, Shaped(st), NEW s \in Subjects
  PROVE  /\ st.instances[s] # None => st.instances[s] \in Instance
         /\ st.records[s] \in Seq(Envelope)
         /\ st.observations[s] \in Seq(RecordedObservation)
         /\ \A i \in DOMAIN st.records[s] :
              st.records[s][i] \in Envelope /\ st.records[s][i].result \in Instance
<1>1. /\ Bare(st) \in Store /\ Bare(st).instances = st.instances
      /\ Bare(st).records = st.records /\ Bare(st).observations = st.observations
  BY DEF Shaped, Bare
<1> QED
  BY <1>1, StoreFacts

(* The index of a store is exact whatever its unrecorded events are. *)
LEMMA BareIndex ==
  ASSUME NEW st
  PROVE  IndexIsExact(Bare(st)) <=> IndexIsExact(st)
<1>1. /\ Bare(st).records = st.records /\ Bare(st).observations = st.observations
      /\ Bare(st).record_ids = st.record_ids
  BY DEF Bare
<1> QED
  BY <1>1 DEF IndexIsExact, RecordIndexed, ObservationIndexed, NameHeld

(* A shaped store, field by field. *)
LEMMA ShapedFields ==
  ASSUME NEW st, DOMAIN st = DOMAIN EmptyStore
  PROVE  Shaped(st) <=>
           /\ st.instances \in [Subjects -> Instance \cup {None}]
           /\ st.records \in [Subjects -> Seq(Envelope)]
           /\ st.observations \in [Subjects -> Seq(RecordedObservation)]
           /\ st.record_ids \in [RecordIds -> Document \cup {None}]
<1>1. << >> \in Seq(Event)
  OBVIOUS
<1>2. [s \in Subjects |-> << >>] \in [Subjects -> Seq(Event)]
  BY <1>1
<1> QED
  BY <1>2 DEF Shaped, Bare, Store

(* What each write leaves, field by field, of a store and of a bare one. *)
LEMMA RecordedFields ==
  ASSUME NEW st, DOMAIN st = DOMAIN EmptyStore, NEW d
  PROVE  LET s  == d.instance.subject
             nu == Recorded(st, d)
         IN /\ nu.instances = [st.instances EXCEPT ![s] = d.instance]
            /\ nu.records = [st.records EXCEPT ![s] = Append(@, d.envelope)]
            /\ nu.observations = st.observations
            /\ nu.record_ids = [st.record_ids EXCEPT ![d.envelope.record_id] = d]
            /\ DOMAIN nu = DOMAIN EmptyStore
  BY DEF Recorded, EmptyStore

(* The same of an observation. *)
LEMMA ObservedFields ==
  ASSUME NEW st, DOMAIN st = DOMAIN EmptyStore, NEW o
  PROVE  LET s  == o.subject
             nu == Observed(st, o)
         IN /\ nu.instances = st.instances
            /\ nu.records = st.records
            /\ nu.observations = [st.observations EXCEPT ![s] = Append(@, o)]
            /\ nu.record_ids = [st.record_ids EXCEPT ![o.record_id] = o]
            /\ DOMAIN nu = DOMAIN EmptyStore
  BY DEF Observed, EmptyStore

(* The same of a decision without an envelope. *)
LEMMA CommittedFields ==
  ASSUME NEW st, DOMAIN st = DOMAIN EmptyStore, NEW d
  PROVE  LET s  == d.instance.subject
             nu == Committed(st, d)
         IN /\ nu.instances = [st.instances EXCEPT ![s] = d.instance]
            /\ nu.records = st.records
            /\ nu.observations = st.observations
            /\ nu.record_ids = st.record_ids
            /\ DOMAIN nu = DOMAIN EmptyStore
  BY DEF Committed, EmptyStore

(* A bare store has the fields of a store. *)
LEMMA BareDomain == ASSUME NEW st PROVE DOMAIN Bare(st) = DOMAIN EmptyStore
  BY DEF Bare, EmptyStore

(* A decision appended to a shaped store with an exact index. *)
LEMMA RecordedShaped ==
  ASSUME NEW st, Shaped(st), IndexIsExact(st), NEW d \in RecordedCommit, CommitValid(d),
         st.record_ids[d.envelope.record_id] = None
  PROVE  Shaped(Recorded(st, d)) /\ IndexIsExact(Recorded(st, d))
<1> DEFINE nu == Recorded(st, d)
           bare == Recorded(Bare(st), d)
<1>1. Bare(st) \in Store /\ IndexIsExact(Bare(st))
  BY BareIndex DEF Shaped
<1>2. Bare(st).record_ids = st.record_ids
  BY DEF Bare
<1>3. d.envelope.record_id \in RecordIds
  BY DEF CommitValid, RecordedCommit, Envelope, RecordId
<1>4. bare \in Store /\ IndexIsExact(bare)
  BY <1>1, <1>2, <1>3, RecordedType, RecordedKeepsIndex
<1>5. /\ nu.instances = bare.instances /\ nu.records = bare.records
      /\ nu.observations = bare.observations /\ nu.record_ids = bare.record_ids
      /\ DOMAIN nu = DOMAIN EmptyStore
  <2> DEFINE Is(x) ==
    /\ x.instances = [st.instances EXCEPT ![d.instance.subject] = d.instance]
    /\ x.records = [st.records EXCEPT ![d.instance.subject] = Append(@, d.envelope)]
    /\ x.observations = st.observations
    /\ x.record_ids = [st.record_ids EXCEPT ![d.envelope.record_id] = d]
    /\ DOMAIN x = DOMAIN EmptyStore
  <2>1. Is(nu)
    BY RecordedFields DEF Shaped
  <2>2. /\ Bare(st).instances = st.instances /\ Bare(st).records = st.records
        /\ Bare(st).observations = st.observations /\ DOMAIN Bare(st) = DOMAIN EmptyStore
    BY BareDomain DEF Bare
  <2>3. LET st0 == Bare(st) IN
        /\ bare.instances = [st0.instances EXCEPT ![d.instance.subject] = d.instance]
        /\ bare.records = [st0.records EXCEPT ![d.instance.subject] = Append(@, d.envelope)]
        /\ bare.observations = st0.observations
        /\ bare.record_ids = [st0.record_ids EXCEPT ![d.envelope.record_id] = d]
        /\ DOMAIN bare = DOMAIN EmptyStore
    BY <2>2, RecordedFields
  <2>4. Is(bare)
    BY <1>2, <2>2, <2>3
  <2> QED
    BY <2>1, <2>4
<1> HIDE DEF nu, bare
<1>6. Bare(nu) = Bare(bare)
  BY <1>5 DEF Bare
<1>7. Shaped(nu)
  BY <1>4, <1>5, ShapedFields DEF Store
<1>8. IndexIsExact(nu)
  BY <1>4, <1>6, BareIndex
<1> QED
  BY <1>7, <1>8 DEF nu

(* An observation appended to a shaped store with an exact index. *)
LEMMA ObservedShaped ==
  ASSUME NEW st, Shaped(st), IndexIsExact(st), NEW o \in RecordedObservation,
         ObservationValid(o), st.record_ids[o.record_id] = None
  PROVE  Shaped(Observed(st, o)) /\ IndexIsExact(Observed(st, o))
<1> DEFINE nu == Observed(st, o)
           bare == Observed(Bare(st), o)
<1>1. Bare(st) \in Store /\ IndexIsExact(Bare(st))
  BY BareIndex DEF Shaped
<1>2. Bare(st).record_ids = st.record_ids
  BY DEF Bare
<1>3. o.record_id \in RecordIds
  BY DEF ObservationValid, RecordedObservation, RecordId
<1>4. bare \in Store /\ IndexIsExact(bare)
  BY <1>1, <1>2, <1>3, ObservedType, ObservedKeepsIndex
<1>5. /\ nu.instances = bare.instances /\ nu.records = bare.records
      /\ nu.observations = bare.observations /\ nu.record_ids = bare.record_ids
      /\ DOMAIN nu = DOMAIN EmptyStore
  <2> DEFINE Is(x) ==
    /\ x.instances = st.instances
    /\ x.records = st.records
    /\ x.observations = [st.observations EXCEPT ![o.subject] = Append(@, o)]
    /\ x.record_ids = [st.record_ids EXCEPT ![o.record_id] = o]
    /\ DOMAIN x = DOMAIN EmptyStore
  <2>1. Is(nu)
    BY ObservedFields DEF Shaped
  <2>2. /\ Bare(st).instances = st.instances /\ Bare(st).records = st.records
        /\ Bare(st).observations = st.observations /\ DOMAIN Bare(st) = DOMAIN EmptyStore
    BY BareDomain DEF Bare
  <2>3. LET st0 == Bare(st) IN
        /\ bare.instances = st0.instances
        /\ bare.records = st0.records
        /\ bare.observations = [st0.observations EXCEPT ![o.subject] = Append(@, o)]
        /\ bare.record_ids = [st0.record_ids EXCEPT ![o.record_id] = o]
        /\ DOMAIN bare = DOMAIN EmptyStore
    BY <2>2, ObservedFields
  <2>4. Is(bare)
    BY <1>2, <2>2, <2>3
  <2> QED
    BY <2>1, <2>4
<1> HIDE DEF nu, bare
<1>6. Bare(nu) = Bare(bare)
  BY <1>5 DEF Bare
<1>7. Shaped(nu)
  BY <1>4, <1>5, ShapedFields DEF Store
<1>8. IndexIsExact(nu)
  BY <1>4, <1>6, BareIndex
<1> QED
  BY <1>7, <1>8 DEF nu

(* A decision without an envelope, written to a shaped store. *)
LEMMA CommittedShaped ==
  ASSUME NEW st, Shaped(st), IndexIsExact(st), NEW d, d.instance \in Instance
  PROVE  Shaped(Committed(st, d)) /\ IndexIsExact(Committed(st, d))
<1> DEFINE nu == Committed(st, d)
           s == d.instance.subject
<1>1. /\ nu.instances = [st.instances EXCEPT ![s] = d.instance]
      /\ nu.records = st.records /\ nu.observations = st.observations
      /\ nu.record_ids = st.record_ids /\ DOMAIN nu = DOMAIN EmptyStore
  BY CommittedFields DEF Shaped
<1> HIDE DEF nu
<1>2. Shaped(nu)
  <2>1. /\ st.instances \in [Subjects -> Instance \cup {None}]
        /\ st.records \in [Subjects -> Seq(Envelope)]
        /\ st.observations \in [Subjects -> Seq(RecordedObservation)]
        /\ st.record_ids \in [RecordIds -> Document \cup {None}]
    BY ShapedFields DEF Shaped
  <2>2. nu.instances \in [Subjects -> Instance \cup {None}]
    BY <1>1, <2>1
  <2> QED
    BY <1>1, <2>1, <2>2, ShapedFields
<1>3. IndexIsExact(nu)
  <2>1. \A z \in Subjects : \A i \in DOMAIN nu.records[z] : RecordIndexed(nu, z, i)
    BY SMTT(40), <1>1 DEF IndexIsExact, RecordIndexed
  <2>2. \A z \in Subjects : \A i \in DOMAIN nu.observations[z] :
          ObservationIndexed(nu, z, i)
    BY SMTT(40), <1>1 DEF IndexIsExact, ObservationIndexed
  <2>3. \A r \in RecordIds : NameHeld(nu, r)
    BY SMTT(40), <1>1 DEF IndexIsExact, NameHeld
  <2> QED
    BY <2>1, <2>2, <2>3 DEF IndexIsExact
<1> QED
  BY <1>2, <1>3 DEF nu

-----------------------------------------------------------------------------
(* What one write leaves of a sound store. *)

Later(st, inst) ==
  LET held == st.instances[inst.subject] IN held = None \/ held.revision < inst.revision

(* A sound store that does not move. *)
LEMMA SameIsGood == ASSUME NEW st, Sound(st) PROVE Good(st, st)
<1>1. ASSUME NEW s \in Subjects, st.instances[s] # None
      PROVE  st.instances[s].revision \in Nat
  BY <1>1, ShapedFacts, InstanceFacts DEF Sound
<1> QED
  BY <1>1 DEF Good, Continues, Advances, Keeps

(* A write of an instance later than the one held advances. *)
LEMMA LaterAdvances ==
  ASSUME NEW st, Shaped(st), NEW nu, NEW inst \in Instance, Later(st, inst),
         nu.instances[inst.subject] = inst,
         \A s \in Subjects : s # inst.subject => nu.instances[s] = st.instances[s]
  PROVE  Advances(st, nu)
<1>1. inst.subject \in Subjects /\ inst # None /\ inst.revision \in Nat
  BY InstanceFacts
<1>2. \A s \in Subjects : st.instances[s] # None => st.instances[s].revision \in Nat
  BY ShapedFacts, InstanceFacts
<1> QED
  BY <1>1, <1>2 DEF Advances, Later

(* What was not past the instance held is not past a later one. *)
LEMMA StillNotPast ==
  ASSUME NEW here \in Instance, NEW held, NEW now, NotPast(here, held),
         held \in Instance, now # None, now.revision \in Nat,
         held.revision <= now.revision, held.revision = now.revision => held = now
  PROVE  NotPast(here, now)
<1>1. here.revision \in Nat /\ held.revision \in Nat
  BY InstanceFacts
<1> QED
  BY <1>1 DEF NotPast

(* A store whose histories do not grow stays covered as it advances. *)
LEMMA AdvanceCovers ==
  ASSUME NEW st, Shaped(st), Covered(st), NEW nu, Shaped(nu), Advances(st, nu),
         nu.records = st.records
  PROVE  Covered(nu)
<1> SUFFICES ASSUME NEW s \in Subjects, NEW i \in DOMAIN nu.records[s]
             PROVE  NotPast(nu.records[s][i].result, nu.instances[s])
  BY DEF Covered
<1>1. NotPast(st.records[s][i].result, st.instances[s]) /\ st.records[s][i].result \in Instance
  BY ShapedFacts DEF Covered
<1>2. st.instances[s] \in Instance
  BY <1>1, ShapedFacts DEF NotPast
<1>3. nu.instances[s] # None /\ nu.instances[s].revision \in Nat
  BY <1>1, ShapedFacts, InstanceFacts DEF Advances, NotPast
<1>4. /\ st.instances[s].revision <= nu.instances[s].revision
      /\ st.instances[s].revision = nu.instances[s].revision =>
           st.instances[s] = nu.instances[s]
  BY <1>1 DEF Advances, NotPast
<1> QED
  BY <1>1, <1>2, <1>3, <1>4, StillNotPast

(* A decision without an envelope leaves a sound store. *)
LEMMA CommittedGood ==
  ASSUME NEW st, Sound(st), NEW d, d.instance \in Instance, Later(st, d.instance)
  PROVE  /\ Good(st, Committed(st, d))
         /\ Committed(st, d).instances[d.instance.subject] = d.instance
         /\ Committed(st, d).records = st.records
         /\ Committed(st, d).observations = st.observations
         /\ Committed(st, d).record_ids = st.record_ids
<1> DEFINE nu == Committed(st, d)
           s == d.instance.subject
<1>1. /\ nu.instances = [st.instances EXCEPT ![s] = d.instance]
      /\ nu.records = st.records /\ nu.observations = st.observations
      /\ nu.record_ids = st.record_ids
  BY CommittedFields DEF Sound, Shaped
<1>2. Shaped(nu) /\ IndexIsExact(nu)
  BY CommittedShaped DEF Sound
<1> HIDE DEF nu
<1>3. Advances(st, nu) /\ nu.instances[s] = d.instance /\ Placed(nu)
  <2>1. s \in Subjects /\ st.instances \in [Subjects -> Instance \cup {None}]
    BY InstanceFacts, ShapedFields DEF Sound, Shaped
  <2>2. /\ nu.instances[s] = d.instance
        /\ \A x \in Subjects : x # s => nu.instances[x] = st.instances[x]
    BY <1>1, <2>1
  <2>3. Advances(st, nu)
    BY <2>2, LaterAdvances DEF Sound
  <2>4. Placed(nu)
    BY <2>2, Zenon DEF Sound, Placed
  <2> QED
    BY <2>2, <2>3, <2>4
<1>4. Covered(nu)
  BY <1>1, <1>2, <1>3, AdvanceCovers DEF Sound
<1>5. Continues(st, nu)
  BY <1>1 DEF Continues, Keeps
<1>6. Good(st, nu)
  BY <1>2, <1>3, <1>4, <1>5 DEF Good, Sound
<1> QED
  BY <1>1, <1>3, <1>6 DEF nu

(* An observation leaves a sound store. *)
LEMMA ObservedGood ==
  ASSUME NEW st, Sound(st), NEW o \in RecordedObservation, ObservationValid(o),
         st.record_ids[o.record_id] = None
  PROVE  /\ Good(st, Observed(st, o))
         /\ Observed(st, o).instances = st.instances
         /\ Observed(st, o).records = st.records
         /\ Observed(st, o).record_ids[o.record_id] = o
         /\ \A s \in Subjects : s # o.subject =>
              Observed(st, o).observations[s] = st.observations[s]
         /\ Observed(st, o).observations[o.subject] = Append(st.observations[o.subject], o)
<1> DEFINE nu == Observed(st, o)
           z == o.subject
<1>1. /\ nu.instances = st.instances
      /\ nu.records = st.records
      /\ nu.observations = [st.observations EXCEPT ![z] = Append(@, o)]
      /\ nu.record_ids = [st.record_ids EXCEPT ![o.record_id] = o]
  BY ObservedFields DEF Sound, Shaped
<1>2. Shaped(nu) /\ IndexIsExact(nu)
  BY ObservedShaped DEF Sound
<1> HIDE DEF nu
<1>3. z \in Subjects /\ o.record_id \in RecordIds
  BY DEF ObservationValid, RecordedObservation, RecordId
<1>4. /\ st.observations \in [Subjects -> Seq(RecordedObservation)]
      /\ st.record_ids \in [RecordIds -> Document \cup {None}]
  BY ShapedFields DEF Sound, Shaped
<1>5. /\ \A s \in Subjects : s # z => nu.observations[s] = st.observations[s]
      /\ nu.observations[z] = Append(st.observations[z], o)
      /\ nu.record_ids[o.record_id] = o
      /\ \A r \in RecordIds : r # o.record_id => nu.record_ids[r] = st.record_ids[r]
  BY <1>1, <1>3, <1>4
<1>6. Advances(st, nu) /\ Placed(nu)
  BY <1>1, ShapedFacts, InstanceFacts DEF Advances, Sound, Placed
<1>7. Covered(nu)
  BY <1>1, <1>2, <1>6, AdvanceCovers DEF Sound
<1>8. Continues(st, nu)
  <2>1. Keeps(st.observations[z], nu.observations[z])
    BY <1>3, <1>4, <1>5, AppendKeeps
  <2> QED
    BY <1>1, <1>5, <2>1, KeepsReflexive DEF Continues
<1>9. Good(st, nu)
  BY <1>2, <1>6, <1>7, <1>8 DEF Good, Sound
<1> QED
  BY <1>1, <1>5, <1>9 DEF nu

(* A recorded decision leaves a sound store. *)
LEMMA RecordedGood ==
  ASSUME NEW st, Sound(st), NEW d \in RecordedCommit, CommitValid(d),
         st.record_ids[d.envelope.record_id] = None, Later(st, d.instance)
  PROVE  /\ Good(st, Recorded(st, d))
         /\ Recorded(st, d).instances[d.instance.subject] = d.instance
         /\ Recorded(st, d).observations = st.observations
         /\ Recorded(st, d).record_ids[d.envelope.record_id] = d
         /\ Holds(Recorded(st, d), d.instance.subject, d.envelope)
         /\ \A s \in Subjects : s # d.instance.subject =>
              Recorded(st, d).records[s] = st.records[s]
         /\ Recorded(st, d).records[d.instance.subject]
              = Append(st.records[d.instance.subject], d.envelope)
<1> DEFINE nu == Recorded(st, d)
           z == d.instance.subject
           q == d.envelope.record_id
<1>1. DOMAIN st = DOMAIN EmptyStore
  BY DEF Sound, Shaped
<1>2. /\ nu.instances = [st.instances EXCEPT ![z] = d.instance]
      /\ nu.records = [st.records EXCEPT ![z] = Append(@, d.envelope)]
      /\ nu.observations = st.observations
      /\ nu.record_ids = [st.record_ids EXCEPT ![q] = d]
  BY <1>1, RecordedFields
<1>3. Shaped(nu) /\ IndexIsExact(nu)
  BY RecordedShaped DEF Sound
<1> HIDE DEF nu
<1>4. /\ z \in Subjects /\ q \in RecordIds
      /\ d.instance \in Instance /\ d.envelope \in Envelope
      /\ d.envelope.result = d.instance
  BY DEF CommitValid, RecordedCommit, Envelope, RecordId, Instance
<1>5. /\ st.instances \in [Subjects -> Instance \cup {None}]
      /\ st.records \in [Subjects -> Seq(Envelope)]
      /\ st.records[z] \in Seq(Envelope)
      /\ st.record_ids \in [RecordIds -> Document \cup {None}]
  BY <1>1, <1>4, ShapedFields DEF Sound
<1>6. /\ \A s \in Subjects : s # z => nu.records[s] = st.records[s]
      /\ nu.records[z] = Append(st.records[z], d.envelope)
      /\ nu.record_ids[q] = d
      /\ \A r \in RecordIds : r # q => nu.record_ids[r] = st.record_ids[r]
  BY <1>2, <1>4, <1>5
<1>7. /\ Advances(st, nu) /\ nu.instances[z] = d.instance
      /\ \A s \in Subjects : s # z => nu.instances[s] = st.instances[s]
      /\ Placed(nu)
  <2>1. /\ nu.instances[z] = d.instance
        /\ \A s \in Subjects : s # z => nu.instances[s] = st.instances[s]
    BY <1>2, <1>4, <1>5
  <2>2. Placed(nu)
    BY <2>1, Zenon DEF Sound, Placed
  <2> QED
    BY <1>4, <2>1, <2>2, LaterAdvances DEF Sound
<1>8. Covered(nu)
  <2> SUFFICES ASSUME NEW s \in Subjects, NEW i \in DOMAIN nu.records[s]
               PROVE  NotPast(nu.records[s][i].result, nu.instances[s])
    BY DEF Covered
  <2>1. CASE s # z
    BY <1>6, <1>7, <2>1 DEF Sound, Covered
  <2>2. CASE s = z
    <3>1. /\ DOMAIN nu.records[z] = DOMAIN st.records[z] \cup {Len(st.records[z]) + 1}
          /\ \A j \in DOMAIN st.records[z] : nu.records[z][j] = st.records[z][j]
          /\ nu.records[z][Len(st.records[z]) + 1] = d.envelope
      <4>1. /\ nu.records[z] = Append(st.records[z], d.envelope)
            /\ st.records[z] \in Seq(Envelope) /\ d.envelope \in Envelope
        BY <1>4, <1>5, <1>6
      <4> HIDE DEF z
      <4> QED
        BY <4>1, AppendFacts
    <3>2. CASE i = Len(st.records[z]) + 1
      <4>1. d.instance # None /\ d.instance.revision \in Nat
        BY <1>4, InstanceFacts
      <4>2. NotPast(d.instance, d.instance)
        BY <4>1 DEF NotPast
      <4> QED
        BY <1>4, <1>7, <2>2, <3>1, <3>2, <4>2
    <3>3. CASE i \in DOMAIN st.records[z]
      <4>1. NotPast(st.records[z][i].result, st.instances[z]) /\ st.records[z][i].result \in Instance
        BY <1>4, <3>3, ShapedFacts DEF Sound, Covered
      <4>2. st.instances[z] \in Instance
        BY <1>4, <4>1, ShapedFacts DEF NotPast, Sound
      <4>3. /\ d.instance # None /\ d.instance.revision \in Nat
            /\ st.instances[z].revision < d.instance.revision
            /\ st.instances[z].revision \in Nat
        BY <1>4, <4>1, <4>2, InstanceFacts DEF Later, NotPast
      <4>4. NotPast(st.records[z][i].result, d.instance)
        BY <4>1, <4>2, <4>3, StillNotPast
      <4> QED
        BY <1>7, <2>2, <3>1, <3>3, <4>4
    <3> QED
      BY <2>2, <3>1, <3>2, <3>3
  <2> QED
    BY <2>1, <2>2
<1>9. Continues(st, nu)
  <2>1. Keeps(st.records[z], nu.records[z])
    BY <1>4, <1>5, <1>6, AppendKeeps
  <2>2. \A r \in RecordIds : st.record_ids[r] # None => nu.record_ids[r] = st.record_ids[r]
    BY <1>6
  <2>3. \A s \in Subjects : Keeps(st.records[s], nu.records[s])
    BY <1>6, <2>1, KeepsReflexive
  <2>4. \A s \in Subjects : Keeps(st.observations[s], nu.observations[s])
    BY <1>2, KeepsReflexive
  <2> QED
    BY <2>2, <2>3, <2>4 DEF Continues
<1>10. Good(st, nu)
  BY <1>3, <1>7, <1>8, <1>9 DEF Good, Sound
<1>11. Holds(nu, z, d.envelope)
  <2>1. /\ nu.records[z] = Append(st.records[z], d.envelope)
        /\ st.records[z] \in Seq(Envelope) /\ d.envelope \in Envelope
    BY <1>4, <1>5, <1>6
  <2> HIDE DEF z
  <2>2. \E i \in DOMAIN nu.records[z] : nu.records[z][i] = d.envelope
    BY SMTT(40), <2>1, AppendLast
  <2> QED
    BY <2>2 DEF Holds
<1> QED
  BY <1>2, <1>6, <1>7, <1>10, <1>11 DEF nu

-----------------------------------------------------------------------------
(* The operations of a side. *)

(* A write that finds what it expects, and is past it, is later. *)
LEMMA CheckLater ==
  ASSUME NEW st, Sound(st), NEW inst \in Instance, NEW expect,
         check(expect, revision_of(st, inst.subject)),
         expect \in Nat => expect < inst.revision
  PROVE  Later(st, inst)
<1>1. inst.subject \in Subjects
  BY InstanceFacts
<1>2. st.instances[inst.subject] # None => st.instances[inst.subject].revision \in Nat
  BY <1>1, ShapedFacts, InstanceFacts DEF Sound
<1>3. Absent \notin Nat /\ None \notin Nat
  BY StoreAssumption
<1> QED
  BY <1>2, <1>3 DEF check, revision_of, Later

(* StateProvider::commit on a sound store. *)
LEMMA CommitGood ==
  ASSUME NEW st, Sound(st), NEW d, d.instance \in Instance, NEW expect,
         expect \in Nat => expect < d.instance.revision
  PROVE  LET res == commit(st, d, expect)
             s   == d.instance.subject
         IN /\ Good(st, res.store)
            /\ res.store.records = st.records
            /\ res.store.observations = st.observations
            /\ res.store.record_ids = st.record_ids
            /\ res.store # st => check(expect, revision_of(st, s))
            /\ res.outcome = "ok" => res.store.instances[s] = d.instance
<1> DEFINE res == commit(st, d, expect)
           s == d.instance.subject
<1>1. CASE res.store = st /\ res.outcome = "revision_conflict"
  BY <1>1, SameIsGood
<1>2. CASE /\ res.store = Committed(st, d) /\ res.outcome = "ok"
           /\ check(expect, revision_of(st, s))
  <2>1. Later(st, d.instance)
    BY <1>2, CheckLater
  <2> QED
    BY <1>2, <2>1, CommittedGood
<1> QED
  BY <1>1, <1>2, CommitCases

(* A name that is held is an entry of its subject, and not past it. *)
LEMMA NamedDecision ==
  ASSUME NEW st, Sound(st), NEW d \in RecordedCommit, CommitValid(d),
         st.record_ids[d.envelope.record_id] = d
  PROVE  /\ Holds(st, d.instance.subject, d.envelope)
         /\ NotPast(d.instance, st.instances[d.instance.subject])
<1>1. d.envelope.record_id \in RecordIds /\ d.instance.subject \in Subjects
  BY DEF CommitValid, RecordedCommit, Envelope, RecordId, Instance
<1>2. NameHeld(st, d.envelope.record_id)
  BY <1>1 DEF Sound, IndexIsExact
<1>3. PICK i \in DOMAIN st.records[d.instance.subject] :
        st.records[d.instance.subject][i] = d.envelope
  BY <1>2 DEF NameHeld
<1>4. NotPast(st.records[d.instance.subject][i].result, st.instances[d.instance.subject])
  BY <1>1, <1>3 DEF Sound, Covered
<1> QED
  BY <1>3, <1>4 DEF Holds, CommitValid

(* What a recorded decision to a store may leave of it, and answer. *)
Written(st, d, expect, res) ==
  LET s == d.instance.subject IN
  /\ Good(st, res.store)
  /\ res.store.observations = st.observations
  /\ \A z \in Subjects : z # s => res.store.records[z] = st.records[z]
  /\ res.store # st =>
       /\ check(expect, revision_of(st, s))
       /\ res.store.instances[s] = d.instance
       /\ res.store.records[s] = Append(st.records[s], d.envelope)
  /\ res.outcome = "ok" =>
       /\ CommitValid(d)
       /\ res.store.record_ids[d.envelope.record_id] = d
       /\ Holds(res.store, s, d.envelope)
       /\ NotPast(d.instance, res.store.instances[s])

(* Store::commit_recorded, by any client, of a decision past what it expects. *)
LEMMA CommitRecordedGood ==
  ASSUME NEW st, Sound(st), NEW d \in RecordedCommit, NEW expect,
         expect \in Nat => expect < d.instance.revision
  PROVE  Written(st, d, expect, commit_recorded(st, d, expect))
<1> DEFINE res == commit_recorded(st, d, expect)
           s == d.instance.subject
           r == d.envelope.record_id
<1>1. s \in Subjects /\ d.instance \in Instance
  BY DEF RecordedCommit, Instance
<1>2. CASE res.store = st /\ res.outcome \in Refusals
  <2>1. res.outcome # "ok"
    BY <1>2 DEF Refusals
  <2> QED
    BY <1>2, <2>1, SameIsGood DEF Written
<1>3. CASE /\ res.store = st /\ res.outcome = "ok" /\ CommitValid(d)
           /\ \/ st.record_ids[r] = d
              \/ st.record_ids[r] = None /\ HeldRecord(st, s, r) # {}
  <2>1. r \in RecordIds
    BY <1>3 DEF CommitValid, RecordedCommit, Envelope, RecordId
  <2>2. st.record_ids[r] = d
    <3>1. Bare(st) \in Store /\ IndexIsExact(Bare(st))
      BY BareIndex DEF Sound, Shaped
    <3>2. st.record_ids[r] = None => HeldRecord(Bare(st), s, r) = {}
      BY <1>1, <2>1, <3>1, UnnamedIsUnused DEF Bare
    <3>3. HeldRecord(Bare(st), s, r) = HeldRecord(st, s, r)
      BY DEF HeldRecord, Bare
    <3> QED
      BY <1>3, <3>2, <3>3
  <2> QED
    BY <1>3, <2>2, NamedDecision, SameIsGood DEF Written
<1>4. CASE /\ res.store = Recorded(st, d) /\ res.outcome = "ok" /\ CommitValid(d)
           /\ st.record_ids[r] = None
           /\ check(expect, revision_of(st, s))
  <2>1. Later(st, d.instance)
    BY <1>1, <1>4, CheckLater
  <2>2. d.instance # None /\ d.instance.revision \in Nat
    BY <1>1, InstanceFacts
  <2>3. NotPast(d.instance, d.instance)
    BY <2>2 DEF NotPast
  <2> QED
    BY <1>4, <2>1, <2>3, RecordedGood DEF Written
<1> QED
  BY <1>2, <1>3, <1>4, CommitRecordedCases

(* An observation the index names is in the history. *)
LEMMA NamedObservation ==
  ASSUME NEW st, Sound(st), NEW o \in RecordedObservation, ObservationValid(o),
         st.record_ids[o.record_id] = o
  PROVE  \E i \in DOMAIN st.observations[o.subject] : st.observations[o.subject][i] = o
<1>1. o.record_id \in RecordIds /\ o.subject \in Subjects
  BY DEF ObservationValid, RecordedObservation, RecordId
<1> QED
  BY <1>1 DEF Sound, IndexIsExact, NameHeld

(* EventProvider::observe on a sound store. *)
LEMMA ObserveGood ==
  ASSUME NEW st, Sound(st), NEW o \in RecordedObservation
  PROVE  LET res == observe(st, o)
             s   == o.subject
         IN /\ Good(st, res.store)
            /\ res.store.instances = st.instances
            /\ res.store.records = st.records
            /\ \A z \in Subjects : z # s => res.store.observations[z] = st.observations[z]
            /\ res.store # st => res.store.observations[s] = Append(st.observations[s], o)
            /\ res.outcome = "ok" =>
                 ObservationValid(o) /\ res.store.record_ids[o.record_id] = o
<1> DEFINE res == observe(st, o)
           s == o.subject
           r == o.record_id
<1>1. s \in Subjects
  BY DEF RecordedObservation
<1>2. CASE res.store = st /\ res.outcome \in Refusals
  <2>1. res.outcome # "ok"
    BY <1>2 DEF Refusals
  <2> QED
    BY <1>2, <2>1, SameIsGood
<1>3. CASE /\ res.store = st /\ res.outcome = "ok" /\ ObservationValid(o)
           /\ \/ st.record_ids[r] = o
              \/ st.record_ids[r] = None /\ HeldObservation(st, s, r) # {}
  <2>1. r \in RecordIds
    BY <1>3 DEF ObservationValid, RecordedObservation, RecordId
  <2>2. st.record_ids[r] = o
    <3>1. Bare(st) \in Store /\ IndexIsExact(Bare(st))
      BY BareIndex DEF Sound, Shaped
    <3>2. st.record_ids[r] = None => HeldObservation(Bare(st), s, r) = {}
      BY <1>1, <2>1, <3>1, UnnamedIsUnused DEF Bare
    <3>3. HeldObservation(Bare(st), s, r) = HeldObservation(st, s, r)
      BY DEF HeldObservation, Bare
    <3> QED
      BY <1>3, <3>2, <3>3
  <2> QED
    BY <1>3, <2>2, SameIsGood
<1>4. CASE /\ res.store = Observed(st, o) /\ res.outcome = "ok" /\ ObservationValid(o)
           /\ st.record_ids[r] = None
  BY <1>4, ObservedGood
<1> QED
  BY <1>2, <1>3, <1>4, ObserveCases

(* Every write of the setup leaves a sound store sound. *)
LEMMA PerformGood ==
  ASSUME NEW st, Sound(st), NEW w \in Write, Forward(w)
  PROVE  Good(st, Perform(st, w).store)
<1>1. Absent \notin Nat
  BY StoreAssumption
<1>2. CASE w.kind = "commit"
  <2>1. w.document \in Decision /\ (w.expect \in Nat => w.expect < w.document.instance.revision)
    BY <1>1, <1>2 DEF Write, Forward
  <2>2. w.document.instance \in Instance
    BY <2>1 DEF Decision
  <2> QED
    BY <1>2, <2>1, <2>2, CommitGood DEF Perform
<1>3. CASE w.kind = "commit_recorded"
  <2>1. /\ w.document \in RecordedCommit
        /\ w.expect \in Nat => w.expect < w.document.instance.revision
    BY <1>1, <1>3 DEF Write, Forward
  <2> QED
    BY <1>3, <2>1, CommitRecordedGood DEF Perform, Written
<1>4. CASE w.kind = "observe"
  <2>1. w.document \in RecordedObservation
    BY <1>4 DEF Write
  <2> QED
    BY <1>4, <2>1, ObserveGood DEF Perform
<1> QED
  BY <1>2, <1>3, <1>4 DEF Write

(* What a call to a side may come to: nothing, or what it comes to when    *)
(* served, and "ok" only in the second case.                               *)
LEMMA AttemptFacts ==
  ASSUME NEW side, NEW served, NEW result \in Attempts(side, served)
  PROVE  /\ result.store = sides[side] \/ result.store = served.store
         /\ result.outcome = "ok" => result = served
  BY DEF Attempts, Answer

-----------------------------------------------------------------------------
(* The shape of the state: its types, but for the unrecorded events, which *)
(* the prover cannot follow through the sorting of a log.                  *)

Fields ==
  {"pc", "taken", "todo", "still", "records", "observations", "existing", "revision",
   "at", "next", "upto", "after", "instance", "events"}

ReplayShaped ==
  /\ DOMAIN replay = Fields
  /\ replay.taken \in Seq(Divergence)
  /\ replay.todo \in Seq(Divergence)
  /\ replay.still \in Seq(Divergence)
  /\ replay.records \in Seq(Envelope)
  /\ replay.observations \in Seq(RecordedObservation)
  /\ replay.existing \in Seq(Envelope)
  /\ replay.revision \in Nat \cup {None}
  /\ replay.at \in Nat \ {0}
  /\ replay.next \in Nat \ {0}
  /\ replay.upto \in Nat \cup {None}
  /\ replay.instance \in Instance \cup {None}

Shape ==
  /\ setup \in Setups
  /\ policy \in Policies
  /\ sides = [x \in Side |-> sides[x]]
  /\ \A x \in Side : Shaped(sides[x])
  /\ serving \in [Side -> BOOLEAN]
  /\ divergences \in Seq(Divergence)
  /\ DOMAIN call = {"pc", "write", "answer"}
  /\ ReplayShaped

(* The policy is one of the policies, and what is written is a write. *)
LEMMA SetupFacts ==
  ASSUME setup \in Setups, policy \in Policies
  PROVE  /\ policy \in Policy
         /\ WriteOrder \in {<<"local", "remote">>, <<"remote", "local">>}
         /\ \A w \in setup.writes \cup setup.rivals : w \in Write /\ Forward(w)
  BY HybridAssumption DEF WriteOrder

-----------------------------------------------------------------------------
(* Reads. *)

(* Whatever was served, whatever is on the two sides, and whatever the     *)
(* policy, a read is honest (Hybrid::load_read, Hybrid::read_via_remote,   *)
(* StateProvider::load, StateProvider::ids, EventProvider::events).        *)
LEMMA Honest ==
  ASSUME policy \in Policies
  PROVE  ReadsAreHonest
<1> SUFFICES ASSUME NEW p \in ReadPolicies
             PROVE  /\ \A s \in Subjects :
                         /\ ~load_read(p, s).was_stale =>
                              load_read(p, s).value = Authority.instances[s]
                         /\ load(p, s) = None => Authority.instances[s] = None
                    /\ p.authority = "remote" /\ ~MayListStale(p) =>
                         /\ ids_read(p) = {} => ids(Authority) = {}
                         /\ \A s \in Subjects :
                              events_read(p, s) = << >> => EventsOf(Authority, s) = << >>
  BY DEF ReadsAreHonest
<1>1. /\ p \in Policy /\ p.authority = policy.authority
  <2>1. PICK path \in {"local_first", "remote_first", "remote_only"},
             answer \in {"refuse", "serve_stale"} :
          p = [policy EXCEPT !.read_path = path, !.when_unreachable = answer]
    BY DEF ReadPolicies
  <2>2. policy \in Policy
    BY HybridAssumption
  <2> QED
    BY <2>1, <2>2 DEF Policy
<1>2. /\ p.authority \in {"local", "remote"}
      /\ p.read_path \in {"local_first", "remote_first", "remote_only"}
      /\ p.when_unreachable \in {"refuse", "serve_stale"}
  BY <1>1 DEF Policy
<1>3. None # "unreachable" /\ None # {} /\ None # << >>
  BY HybridAssumption
<1>4. ASSUME NEW s \in Subjects
      PROVE  /\ ~load_read(p, s).was_stale =>
                  load_read(p, s).value = Authority.instances[s]
             /\ load(p, s) = None => Authority.instances[s] = None
  <2> DEFINE r == load_read(p, s)
  <2>1. \/ r = Unreachable
        \/ r = ReadFrom(p, "local", sides["local"].instances[s])
        \/ r = ReadFrom(p, "remote", sides["remote"].instances[s])
    BY <1>2 DEF load_read, read_via_remote, LocalCopy
  <2> HIDE DEF r
  <2>2. ASSUME NEW side \in Side, r = ReadFrom(p, side, sides[side].instances[s])
        PROVE  \/ r.was_stale = TRUE
               \/ r.was_stale = FALSE /\ r.value = Authority.instances[s]
    <3>1. CASE side = p.authority
      BY <1>1, <2>2, <3>1 DEF ReadFrom, Authority
    <3>2. CASE side # p.authority
      BY <2>2, <3>2 DEF ReadFrom
    <3> QED
      BY <3>1, <3>2
  <2>3. \/ r.was_stale = TRUE
        \/ r.was_stale = FALSE /\ r.value = Authority.instances[s]
    <3>1. "local" \in Side /\ "remote" \in Side
      BY DEF Side
    <3>2. r = Unreachable => r.was_stale = TRUE
      BY DEF Unreachable
    <3> QED
      BY <2>1, <2>2, <3>1, <3>2
  <2>4. r.was_stale = TRUE => load(p, s) # None
    <3>1. load(p, s) = IF r.was_stale /\ r.value = None THEN "unreachable" ELSE r.value
      BY DEF load, r
    <3>2. CASE r.was_stale = TRUE /\ r.value = None
      BY <1>3, <3>1, <3>2
    <3>3. CASE r.was_stale = TRUE /\ r.value # None
      BY <3>1, <3>3
    <3> QED
      BY <3>2, <3>3
  <2>5. r.was_stale = FALSE => load(p, s) = r.value
    BY DEF load, r
  <2> QED
    BY <2>3, <2>4, <2>5, Zenon DEF r
<1>5. ASSUME p.authority = "remote", ~MayListStale(p), NEW here, NEW there, NEW nothing,
             nothing # None, ByReadPath(p, here, there, nothing) = nothing
      PROVE  there = nothing
  BY <1>2, <1>5 DEF ByReadPath, MayListStale
<1>6. ASSUME p.authority = "remote", ~MayListStale(p)
      PROVE  /\ ids_read(p) = {} => ids(Authority) = {}
             /\ \A s \in Subjects :
                  events_read(p, s) = << >> => EventsOf(Authority, s) = << >>
  BY <1>1, <1>3, <1>5, <1>6 DEF ids_read, events_read, Authority
<1> QED
  BY <1>4, <1>6

-----------------------------------------------------------------------------
(* The inductive invariant, and what every step of it shares. *)

ReplayHolds ==
  /\ HistoryRead /\ WayOn /\ Believed /\ OneStepOn /\ Ahead
  /\ Arrived /\ AllReplayed /\ Loaded /\ LocalStays

Base == Shape /\ SidesSound /\ OneAtATime /\ OneWay

HybridInvariant == Base /\ ReplayHolds /\ NeverAhead

(* A side that is moved by one write, and the other that is not. *)
LEMMA TookGood ==
  ASSUME Shape, SidesSound, NEW side \in Side, NEW result,
         Good(sides[side], result.store), Took(side, result)
  PROVE  /\ \A x \in Side : Good(sides[x], sides'[x])
         /\ sides' = [x \in Side |-> sides'[x]]
         /\ sides'[side] = result.store
         /\ \A x \in Side : x # side => sides'[x] = sides[x]
<1>1. \A x \in Side : Good(sides[x], sides[x])
  BY SameIsGood DEF Shape, SidesSound, Sound
<1>2. /\ sides'[side] = result.store
      /\ \A x \in Side : x # side => sides'[x] = sides[x]
      /\ sides' = [x \in Side |-> sides'[x]]
  BY DEF Took, Shape
<1> QED
  BY <1>1, <1>2

(* Sides that do not move are good. *)
LEMMA SidesUnmoved ==
  ASSUME Shape, SidesSound, sides' = sides
  PROVE  /\ \A x \in Side : Good(sides[x], sides'[x])
         /\ sides' = [x \in Side |-> sides'[x]]
  BY SameIsGood DEF Shape, SidesSound, Sound

(* Sides that moved well are sound. *)
LEMMA SidesSoundNext ==
  ASSUME \A x \in Side : Good(sides[x], sides'[x])
  PROVE  SidesSound' /\ \A x \in Side : Shaped(sides'[x])
  BY DEF Good, Sound, SidesSound

(* The divergence in hand. *)
LEMMA CurrentFacts ==
  ASSUME Shape, replay.todo # << >>
  PROVE  /\ Current \in Divergence /\ Current.subject \in Subjects
         /\ Source \in Side /\ Destination \in Side /\ Source # Destination
         /\ Source = "local" <=> Destination = "remote"
<1>1. replay.todo \in Seq(Divergence)
  BY DEF Shape, ReplayShaped
<1>2. Current \in Divergence
  BY <1>1 DEF Current
<1> QED
  BY <1>2 DEF Divergence, Source, Destination, Side, Other

(* A catch-up that has read nothing yet. *)
Unread(x) ==
  /\ DOMAIN x = Fields
  /\ x.records = << >> /\ x.observations = << >> /\ x.existing = << >>
  /\ x.revision = None /\ x.upto = None /\ x.instance = None
  /\ x.at = 1 /\ x.next = 1

(* Its shape. *)
LEMMA UnreadShaped ==
  ASSUME Unread(replay'), replay'.taken \in Seq(Divergence),
         replay'.todo \in Seq(Divergence), replay'.still \in Seq(Divergence)
  PROVE  ReplayShaped' /\ replay'.at = 1
<1>1. << >> \in Seq(Envelope) /\ << >> \in Seq(RecordedObservation)
  OBVIOUS
<1>2. /\ replay'.records \in Seq(Envelope) /\ replay'.existing \in Seq(Envelope)
      /\ replay'.observations \in Seq(RecordedObservation)
      /\ replay'.revision \in Nat \cup {None} /\ replay'.upto \in Nat \cup {None}
      /\ replay'.instance \in Instance \cup {None}
  BY <1>1, Zenon DEF Unread
<1>3. replay'.at \in Nat \ {0} /\ replay'.next \in Nat \ {0}
  BY DEF Unread
<1>4. DOMAIN replay' = Fields /\ replay'.at = 1
  BY DEF Unread
<1> QED
  BY <1>2, <1>3, <1>4, Zenon DEF ReplayShaped

(* The same when nothing is caught up. *)
LEMMA RestShaped ==
  ASSUME replay' = NoReplay
  PROVE  /\ ReplayShaped'
         /\ replay'.pc = "idle" /\ replay'.taken = << >>
         /\ replay'.todo = << >> /\ replay'.still = << >>
<1>1. /\ Unread(replay')
      /\ replay'.pc = "idle" /\ replay'.taken = << >>
      /\ replay'.todo = << >> /\ replay'.still = << >>
  BY DEF NoReplay, Fields, Unread
<1>2. << >> \in Seq(Divergence)
  OBVIOUS
<1> QED
  BY <1>1, <1>2, UnreadShaped

(* A divergence is put away, and the replay is between two of them. *)
LEMMA PutAway ==
  ASSUME Shape, OneWay, replay.todo # << >>, Keep \/ Cleared
  PROVE  /\ ReplayShaped' /\ replay'.pc = "next" /\ replay'.at = 1
         /\ replay'.taken = replay.taken /\ replay'.todo = Tail(replay.todo)
         /\ policy' = policy => AllFrom(replay.todo)' /\ AllFrom(replay.still)'
<1>1. /\ replay.todo \in Seq(Divergence) /\ replay.still \in Seq(Divergence)
      /\ replay.taken \in Seq(Divergence)
  BY DEF Shape, ReplayShaped
<1>2. /\ Current \in Divergence /\ Current = replay.todo[1]
      /\ Tail(replay.todo) \in Seq(Divergence)
      /\ \A i \in DOMAIN Tail(replay.todo) :
           i + 1 \in DOMAIN replay.todo /\ Tail(replay.todo)[i] = replay.todo[i + 1]
  BY <1>1 DEF Current
<1>3. /\ Append(replay.still, Current) \in Seq(Divergence)
      /\ \A i \in DOMAIN Append(replay.still, Current) :
           \/ i \in DOMAIN replay.still /\ Append(replay.still, Current)[i] = replay.still[i]
           \/ Append(replay.still, Current)[i] = replay.todo[1]
      /\ 1 \in DOMAIN replay.todo
  BY <1>1, <1>2
<1>4. << >> \in Seq(Envelope) /\ << >> \in Seq(RecordedObservation)
  OBVIOUS
<1>5. PICK still \in {replay.still, Append(replay.still, Current)} :
        replay' = [NoReplay EXCEPT !.pc = "next", !.taken = replay.taken,
                     !.todo = Tail(replay.todo), !.still = still]
  BY DEF Keep, Cleared
<1>6. /\ Unread(replay')
      /\ replay'.pc = "next" /\ replay'.taken = replay.taken
      /\ replay'.todo = Tail(replay.todo) /\ replay'.still = still
  BY <1>5 DEF NoReplay, Fields, Unread
<1>7. still \in Seq(Divergence) /\ ReplayShaped' /\ replay'.at = 1
  <2>1. still \in Seq(Divergence)
    BY <1>1, <1>3
  <2> QED
    BY <1>1, <1>2, <1>6, <2>1, UnreadShaped
<1>8. ASSUME policy' = policy PROVE AllFrom(replay.todo)' /\ AllFrom(replay.still)'
  <2>1. WriteOrder' = WriteOrder
    BY <1>8 DEF WriteOrder
  <2>2. AllFrom(Tail(replay.todo))
    BY SMTT(40), <1>2 DEF OneWay, AllFrom
  <2>3. AllFrom(Append(replay.still, Current))
    BY <1>3, Zenon DEF OneWay, AllFrom
  <2>4. AllFrom(still)
    BY <1>5, <2>3, Zenon DEF OneWay
  <2> QED
    BY <1>6, <2>1, <2>2, <2>4, Zenon DEF AllFrom
<1> QED
  BY <1>6, <1>7, <1>8

(* Between two divergences nothing is known of any. *)
LEMMA NothingKnown ==
  ASSUME replay'.pc \in {"idle", "remember", "next"}, replay'.pc = "next" => replay'.at = 1
  PROVE  ReplayHolds'
<1>1. ~Working' /\ ~Replaying' /\ ~Committing'
  BY DEF Working, Replaying, Committing
<1>2. HistoryRead'
  BY <1>1, Zenon DEF HistoryRead
<1>3. WayOn'
  BY <1>1 DEF WayOn
<1>4. Believed' /\ OneStepOn' /\ Ahead'
  BY <1>1 DEF Believed, OneStepOn, Ahead
<1>5. Arrived' /\ AllReplayed'
  BY <1>1, Zenon DEF Arrived, AllReplayed
<1>6. Loaded' /\ LocalStays'
  BY <1>1 DEF Loaded, LocalStays
<1> QED
  BY <1>2, <1>3, <1>4, <1>5, <1>6 DEF ReplayHolds

(* While a divergence is worked on, its sides are those of the write order. *)
LEMMA WorkingFacts ==
  ASSUME Shape, OneAtATime, OneWay, Working
  PROVE  /\ replay.todo # << >> /\ call.pc = "idle"
         /\ Source = WriteOrder[1]
         /\ Current.subject \in Subjects /\ Source \in Side /\ Destination \in Side
         /\ \/ Source = "local" /\ Destination = "remote"
            \/ Source = "remote" /\ Destination = "local"
<1>1. replay.todo # << >> /\ call.pc = "idle"
  BY DEF Working, OneAtATime
<1>2. 1 \in DOMAIN replay.todo /\ Current = replay.todo[1]
  BY <1>1 DEF Shape, ReplayShaped, Current
<1>3. Source = WriteOrder[1]
  BY <1>2 DEF OneWay, AllFrom, Source
<1>4. /\ Current.subject \in Subjects /\ Source \in Side /\ Destination \in Side
      /\ Source # Destination
  BY <1>1, CurrentFacts
<1>5. \/ Source = "local" /\ Destination = "remote"
      \/ Source = "remote" /\ Destination = "local"
  BY <1>4, Zenon DEF Side
<1> QED
  BY <1>1, <1>3, <1>4, <1>5, Zenon

(* The same divergence is in hand after a step that leaves those to do. *)
LEMMA SameHand ==
  ASSUME replay'.todo = replay.todo
  PROVE  Current' = Current /\ Source' = Source /\ Destination' = Destination
  BY DEF Current, Source, Destination

(* What a side has moved to holds all it held. *)
LEMMA GoodKeeps ==
  ASSUME \A x \in Side : Good(sides[x], sides'[x]), NEW x \in Side, NEW s \in Subjects
  PROVE  /\ \A q : Keeps(q, sides[x].records[s]) => Keeps(q, sides'[x].records[s])
         /\ \A q : Keeps(q, sides[x].observations[s]) => Keeps(q, sides'[x].observations[s])
         /\ \A e : Holds(sides[x], s, e) => Holds(sides'[x], s, e)
<1>1. /\ Keeps(sides[x].records[s], sides'[x].records[s])
      /\ Keeps(sides[x].observations[s], sides'[x].observations[s])
  BY DEF Good, Continues
<1> QED
  BY <1>1 DEF Keeps, Holds

(* What was read goes on being a part of the histories. *)
LEMMA HistoryKept ==
  ASSUME Shape, OneAtATime, OneWay, HistoryRead, Working,
         replay'.todo = replay.todo, replay'.records = replay.records,
         replay'.observations = replay.observations, replay'.existing = replay.existing,
         replay'.pc # "observations" => replay.pc # "observations",
         replay'.pc \notin {"observations", "held", "existing"} =>
           replay.pc \notin {"observations", "held", "existing"},
         \A x \in Side : Good(sides[x], sides'[x]),
         Source = "local" => sides'["local"] = sides["local"]
  PROVE  HistoryRead'
<1>1. /\ Current' = Current /\ Source' = Source /\ Destination' = Destination
      /\ Replaying' => Replaying
  BY SameHand DEF Replaying
<1>2. /\ Current.subject \in Subjects /\ Source \in Side /\ Destination \in Side
  BY WorkingFacts
<1>3. /\ Keeps(replay.records, sides'[Source].records[Current.subject])
      /\ Source = "local" => replay.records = sides'[Source].records[Current.subject]
  BY <1>2, GoodKeeps DEF HistoryRead
<1>4. replay'.pc # "observations" =>
        /\ Keeps(replay.observations, sides'[Source].observations[Current.subject])
        /\ Source = "local" =>
             replay.observations = sides'[Source].observations[Current.subject]
  BY <1>2, GoodKeeps DEF HistoryRead
<1>5. Replaying' /\ replay'.pc \notin {"observations", "held", "existing"} =>
        Keeps(replay.existing, sides'[Destination].records[Current.subject])
  BY <1>1, <1>2, GoodKeeps DEF HistoryRead
<1> QED
  BY <1>1, <1>3, <1>4, <1>5, Zenon DEF HistoryRead

(* The destination is still where it was believed, or past it. *)
LEMMA BelievedKept ==
  ASSUME Shape, OneAtATime, OneWay, Believed, Working,
         replay'.todo = replay.todo, replay'.records = replay.records,
         replay'.revision = replay.revision,
         replay'.pc \notin {"observations", "held", "mirror"} =>
           replay.pc \notin {"observations", "held", "mirror"},
         \A x \in Side : Good(sides[x], sides'[x])
  PROVE  Believed'
<1>1. /\ Current' = Current /\ Source' = Source /\ Destination' = Destination
      /\ Replaying' => Replaying
  BY SameHand DEF Replaying
<1>2. /\ Current.subject \in Subjects /\ Destination \in Side
  BY WorkingFacts
<1> DEFINE held == sides[Destination].instances[Current.subject]
           now  == sides'[Destination].instances[Current.subject]
<1> SUFFICES ASSUME Replaying', replay'.pc \notin {"observations", "held", "mirror"},
                    replay.revision # None
             PROVE  /\ now # None /\ replay.revision <= now.revision
                    /\ \E i \in DOMAIN replay.records :
                         /\ replay.records[i].result.revision = replay.revision
                         /\ replay.revision = now.revision => now = replay.records[i].result
  BY <1>1, Zenon DEF Believed
<1>3. /\ held # None /\ replay.revision <= held.revision
      /\ \E i \in DOMAIN replay.records :
           /\ replay.records[i].result.revision = replay.revision
           /\ replay.revision = held.revision => held = replay.records[i].result
  BY <1>1 DEF Believed
<1>4. /\ now # None /\ held.revision <= now.revision
      /\ held.revision = now.revision => held = now
  BY <1>2, <1>3 DEF Good, Advances
<1>5. held.revision \in Nat /\ now.revision \in Nat /\ replay.revision \in Nat
  <2>1. held \in Instance
    BY <1>2, <1>3, ShapedFacts DEF Shape
  <2>2. now \in Instance
    BY <1>2, <1>4, ShapedFacts DEF Good, Sound
  <2> QED
    BY <2>1, <2>2, InstanceFacts DEF Shape, ReplayShaped
<1> HIDE DEF held, now
<1> QED
  BY <1>3, <1>4, <1>5

(* What has arrived is there after any step. *)
LEMMA ArrivedKept ==
  ASSUME Shape, OneAtATime, OneWay, Arrived, Working,
         replay'.todo = replay.todo, replay'.records = replay.records,
         replay'.at = replay.at,
         replay'.pc \notin {"observations", "held", "existing"} =>
           replay.pc \notin {"observations", "held", "existing"},
         \A x \in Side : Good(sides[x], sides'[x])
  PROVE  Arrived'
<1>1. /\ Current' = Current /\ Destination' = Destination
      /\ Replaying' => Replaying
  BY SameHand DEF Replaying
<1>2. /\ Current.subject \in Subjects /\ Destination \in Side
  BY WorkingFacts
<1>3. \A e : Holds(sides[Destination], Current.subject, e) =>
              Holds(sides'[Destination], Current.subject, e)
  BY <1>2, GoodKeeps
<1> QED
  BY <1>1, <1>3 DEF Arrived, Holds

(* A local destination whose instance of the subject is not moved. *)
LEMMA LocalKept ==
  ASSUME Shape, OneAtATime, OneWay, LocalStays, Working,
         replay'.todo = replay.todo, replay'.records = replay.records,
         replay'.pc \notin {"observations", "held"} =>
           replay.pc \notin {"observations", "held"},
         sides'["local"].instances[Current.subject] = sides["local"].instances[Current.subject]
  PROVE  LocalStays'
<1>1. /\ Current' = Current /\ Source' = Source
      /\ Replaying' => Replaying
  BY SameHand DEF Replaying
<1> QED
  BY <1>1, Zenon DEF LocalStays

(* Another client moves the remote while a divergence is worked on. *)
LEMMA Stable ==
  ASSUME Shape, OneAtATime, OneWay, ReplayHolds, Working, replay' = replay,
         \A x \in Side : Good(sides[x], sides'[x]), sides'["local"] = sides["local"]
  PROVE  ReplayHolds'
<1>1. /\ Current' = Current /\ Source' = Source /\ Working' = Working
      /\ Replaying' = Replaying /\ Committing' = Committing /\ Reached' = Reached
  BY SameHand DEF Working, Replaying, Committing, Reached
<1>2. HistoryRead' /\ Believed' /\ Arrived' /\ LocalStays'
  BY HistoryKept, BelievedKept, ArrivedKept, LocalKept DEF ReplayHolds
<1>3. WayOn'
  BY <1>1 DEF ReplayHolds, WayOn
<1>4. OneStepOn' /\ Ahead' /\ AllReplayed'
  BY <1>1 DEF ReplayHolds, OneStepOn, Ahead, AllReplayed
<1>5. Loaded'
  BY <1>1 DEF ReplayHolds, Loaded
<1> QED
  BY <1>2, <1>3, <1>4, <1>5 DEF ReplayHolds

-----------------------------------------------------------------------------
(* The steps of the catch-up that only read. *)

(* What every step with a divergence in hand leaves of the base. *)
LEMMA OnwardBase ==
  ASSUME Base, replay.todo # << >>, replay.pc # "idle",
         replay'.todo = replay.todo, replay'.taken = replay.taken,
         replay'.still = replay.still, ReplayShaped', Unmoved,
         \A x \in Side : Good(sides[x], sides'[x]),
         sides' = [x \in Side |-> sides'[x]]
  PROVE  Base'
<1>1. SidesSound' /\ \A x \in Side : Shaped(sides'[x])
  BY SidesSoundNext
<1>2. Shape'
  BY <1>1, Zenon DEF Base, Shape, Unmoved
<1>3. OneAtATime'
  BY Zenon DEF Base, OneAtATime, Unmoved, Valid
<1>4. OneWay'
  <2>1. WriteOrder' = WriteOrder
    BY DEF WriteOrder, Unmoved
  <2> QED
    BY <2>1 DEF Base, OneWay, AllFrom, Unmoved
<1> QED
  BY <1>1, <1>2, <1>3, <1>4 DEF Base

(* The same for a divergence that is put away. *)
LEMMA PutAwayHolds ==
  ASSUME Base, replay.todo # << >>, replay.pc # "idle", Keep \/ Cleared, Unmoved,
         \A x \in Side : Good(sides[x], sides'[x]),
         sides' = [x \in Side |-> sides'[x]]
  PROVE  Base' /\ ReplayHolds'
<1>1. SidesSound' /\ \A x \in Side : Shaped(sides'[x])
  BY SidesSoundNext
<1>2. /\ ReplayShaped' /\ replay'.pc = "next" /\ replay'.at = 1
      /\ replay'.taken = replay.taken
      /\ AllFrom(replay.todo)' /\ AllFrom(replay.still)'
  BY PutAway DEF Base, Unmoved
<1>3. Shape'
  BY <1>1, <1>2, Zenon DEF Base, Shape, Unmoved
<1>4. OneAtATime'
  BY <1>2 DEF Base, OneAtATime, Unmoved, Valid
<1>5. OneWay'
  <2>1. WriteOrder' = WriteOrder
    BY DEF WriteOrder, Unmoved
  <2>2. AllFrom(divergences)' /\ AllFrom(replay.taken)'
    BY <1>2, <2>1 DEF Base, OneWay, AllFrom, Unmoved
  <2> QED
    BY <1>2, <2>2 DEF OneWay
<1>6. ReplayHolds'
  BY <1>2, NothingKnown
<1> QED
  BY <1>1, <1>3, <1>4, <1>5, <1>6 DEF Base

(* A step that moves no side leaves every side as good as it was. *)
LEMMA BaseUnmoved ==
  ASSUME Base, sides' = sides
  PROVE  /\ \A x \in Side : Good(sides[x], sides'[x])
         /\ sides' = [x \in Side |-> sides'[x]]
  BY SidesUnmoved DEF Base

(* The records of the source are read. *)
LEMMA ReadRecordsHolds ==
  ASSUME Base, ReplayHolds, ReadRecords
  PROVE  Base' /\ ReplayHolds'
<1>1. /\ replay.pc = "next" /\ replay.todo # << >> /\ sides' = sides /\ Unmoved
      /\ \A x \in Side : Good(sides[x], sides'[x])
      /\ sides' = [x \in Side |-> sides'[x]]
  BY BaseUnmoved DEF ReadRecords, At
<1>2. CASE Keep
  BY <1>1, <1>2, PutAwayHolds
<1>3. CASE replay' = [replay EXCEPT !.pc = "observations",
                        !.records = sides[Source].records[Current.subject]]
  <2>1. /\ DOMAIN replay' = Fields /\ replay'.pc = "observations"
        /\ replay'.records = sides[Source].records[Current.subject]
        /\ replay'.todo = replay.todo /\ replay'.taken = replay.taken
        /\ replay'.still = replay.still /\ replay'.observations = replay.observations
        /\ replay'.existing = replay.existing /\ replay'.revision = replay.revision
        /\ replay'.at = replay.at /\ replay'.next = replay.next
        /\ replay'.upto = replay.upto /\ replay'.instance = replay.instance
    BY <1>3 DEF Base, Shape, ReplayShaped, Fields
  <2>2. Current.subject \in Subjects /\ Source \in Side
    BY <1>1, CurrentFacts DEF Base
  <2>3. replay'.records \in Seq(Envelope)
    BY <2>1, <2>2, ShapedFacts DEF Base, Shape
  <2>4. ReplayShaped'
    BY <2>1, <2>3, Zenon DEF Base, Shape, ReplayShaped
  <2>5. Base'
    BY <1>1, <2>1, <2>4, OnwardBase
  <2>6. Current' = Current /\ Source' = Source
    BY <2>1, SameHand
  <2>7. HistoryRead'
    BY <1>1, <2>1, <2>6 DEF HistoryRead, Keeps
  <2>8. WayOn' /\ Ahead' /\ Believed' /\ OneStepOn'
    BY <1>1, <2>1 DEF ReplayHolds, WayOn, Ahead, Believed, OneStepOn, Committing
  <2>9. Arrived' /\ AllReplayed' /\ Loaded' /\ LocalStays'
    BY <2>1 DEF Arrived, AllReplayed, Loaded, LocalStays
  <2> QED
    BY <2>5, <2>7, <2>8, <2>9 DEF ReplayHolds
<1> QED
  BY <1>2, <1>3 DEF ReadRecords

(* The observations of the source are read, and the way on is chosen. *)
LEMMA ReadObservationsHolds ==
  ASSUME Base, ReplayHolds, ReadObservations
  PROVE  Base' /\ ReplayHolds'
<1>1. /\ replay.pc = "observations" /\ sides' = sides /\ Unmoved
      /\ \A x \in Side : Good(sides[x], sides'[x])
      /\ sides' = [x \in Side |-> sides'[x]]
  BY BaseUnmoved DEF ReadObservations, At
<1>2. /\ Working /\ replay.todo # << >>
      /\ Current.subject \in Subjects /\ Source \in Side
  BY <1>1, WorkingFacts DEF Working, Base
<1>3. CASE Keep
  BY <1>1, <1>2, <1>3, PutAwayHolds
<1>4. CASE replay' = [replay EXCEPT
                        !.observations = sides[Source].observations[Current.subject],
                        !.pc = IF replay.records = << >> THEN "load" ELSE "held",
                        !.after = IF /\ replay.records = << >>
                                     /\ sides[Source].observations[Current.subject] = << >>
                                  THEN "cleared" ELSE "none"]
  <2>1. /\ DOMAIN replay' = Fields
        /\ replay'.observations = sides[Source].observations[Current.subject]
        /\ replay'.taken = replay.taken
        /\ replay'.todo = replay.todo /\ replay'.still = replay.still
        /\ replay'.records = replay.records /\ replay'.existing = replay.existing
        /\ replay'.revision = replay.revision /\ replay'.at = replay.at
        /\ replay'.next = replay.next /\ replay'.upto = replay.upto
        /\ replay'.instance = replay.instance
    BY <1>4 DEF Base, Shape, ReplayShaped, Fields
  <2>2. /\ replay'.pc \in {"load", "held"}
        /\ replay.records # << >> => replay'.after = "none" /\ replay'.pc = "held"
        /\ replay'.pc = "held" => replay.records # << >>
    BY <1>4 DEF Base, Shape, ReplayShaped, Fields
  <2>3. replay'.observations \in Seq(RecordedObservation)
    BY <1>2, <2>1, ShapedFacts DEF Base, Shape
  <2>4. ReplayShaped'
    BY <2>1, <2>3, Zenon DEF Base, Shape, ReplayShaped
  <2>5. Base'
    BY <1>1, <1>2, <2>1, <2>4, OnwardBase
  <2>6. Current' = Current /\ Source' = Source
    BY <2>1, SameHand
  <2>7. HistoryRead'
    BY <1>1, <1>2, <2>1, <2>2, <2>6
      DEF ReplayHolds, HistoryRead, Keeps, Replaying
  <2>8. WayOn' /\ Ahead' /\ Believed' /\ OneStepOn'
    BY <1>1, <2>1, <2>2
      DEF ReplayHolds, WayOn, Ahead, Believed, OneStepOn, Committing, Replaying
  <2>9. Arrived' /\ AllReplayed' /\ Loaded' /\ LocalStays'
    BY <2>1, <2>2 DEF Arrived, AllReplayed, Loaded, LocalStays, Replaying
  <2> QED
    BY <2>5, <2>7, <2>8, <2>9 DEF ReplayHolds
<1> QED
  BY <1>3, <1>4, Zenon DEF ReadObservations

(* The destination holds nothing, or what a record of the source produced. *)
LEMMA ReadHeldHolds ==
  ASSUME Base, ReplayHolds, ReadHeld
  PROVE  Base' /\ ReplayHolds'
<1>1. /\ replay.pc = "held" /\ sides' = sides /\ Unmoved
      /\ \A x \in Side : Good(sides[x], sides'[x])
      /\ sides' = [x \in Side |-> sides'[x]]
  BY BaseUnmoved DEF ReadHeld, At
<1>2. /\ Working /\ replay.todo # << >>
      /\ Current.subject \in Subjects /\ Source \in Side /\ Destination \in Side
      /\ Source = "remote" => Destination = "local"
  BY <1>1, WorkingFacts DEF Working, Base
<1> DEFINE held == sides[Destination].instances[Current.subject]
<1>3. CASE Keep
  BY <1>1, <1>2, <1>3, PutAwayHolds
<1>4. CASE /\ IsPrefixOf(replay.records, held)
           /\ replay' = [replay EXCEPT !.pc = "existing",
                            !.revision = revision_of(sides[Destination], Current.subject)]
  <2>1. /\ DOMAIN replay' = Fields /\ replay'.pc = "existing"
        /\ replay'.revision = revision_of(sides[Destination], Current.subject)
        /\ replay'.taken = replay.taken /\ replay'.todo = replay.todo
        /\ replay'.still = replay.still /\ replay'.records = replay.records
        /\ replay'.observations = replay.observations
        /\ replay'.existing = replay.existing /\ replay'.at = replay.at
        /\ replay'.next = replay.next /\ replay'.upto = replay.upto
        /\ replay'.after = replay.after /\ replay'.instance = replay.instance
    BY <1>4 DEF Base, Shape, ReplayShaped, Fields
  <2>2. held # None => held \in Instance /\ held.revision \in Nat
    BY <1>2, ShapedFacts, InstanceFacts DEF Base, Shape
  <2>3. /\ replay'.revision \in Nat \cup {None}
        /\ replay'.revision # None => held # None /\ replay'.revision = held.revision
    BY <2>1, <2>2 DEF revision_of
  <2>4. ReplayShaped'
    BY <2>1, <2>3, Zenon DEF Base, Shape, ReplayShaped
  <2>5. Base'
    BY <1>1, <1>2, <2>1, <2>4, OnwardBase
  <2>6. Current' = Current /\ Source' = Source /\ Destination' = Destination
    BY <2>1, SameHand
  <2>7. HistoryRead'
    BY <1>1, <1>2, <2>1, HistoryKept DEF ReplayHolds, Base
  <2>8. WayOn' /\ Ahead' /\ OneStepOn'
    BY <1>1, <2>1
      DEF ReplayHolds, WayOn, Ahead, OneStepOn, Committing, Replaying
  <2>9. ASSUME held # None
        PROVE  \E i \in DOMAIN replay.records : replay.records[i].result = held
    BY <1>4, <2>9 DEF IsPrefixOf
  <2>10. Believed'
    <3> SUFFICES ASSUME replay'.revision # None
                 PROVE  /\ held # None /\ replay'.revision <= held.revision
                        /\ \E i \in DOMAIN replay.records :
                             /\ replay.records[i].result.revision = replay'.revision
                             /\ replay'.revision = held.revision =>
                                  held = replay.records[i].result
      BY <1>1, <2>1, <2>6, Zenon DEF Believed
    <3> HIDE DEF held
    <3> QED
      BY <2>2, <2>3, <2>9
  <2>11. LocalStays'
    BY <1>1, <1>2, <2>1, <2>6, <2>9, Zenon DEF LocalStays
  <2>12. Arrived' /\ AllReplayed' /\ Loaded'
    BY <1>1, <2>1
      DEF Arrived, AllReplayed, Loaded, Replaying, ReplayHolds, Working
  <2> QED
    BY <2>5, <2>7, <2>8, <2>10, <2>11, <2>12 DEF ReplayHolds
<1> QED
  BY <1>3, <1>4, Zenon DEF ReadHeld

(* The records of the destination are read, and the replay starts. *)
LEMMA ReadExistingHolds ==
  ASSUME Base, ReplayHolds, ReadExisting
  PROVE  Base' /\ ReplayHolds'
<1>1. /\ replay.pc = "existing" /\ sides' = sides /\ Unmoved
      /\ \A x \in Side : Good(sides[x], sides'[x])
      /\ sides' = [x \in Side |-> sides'[x]]
  BY BaseUnmoved DEF ReadExisting, At
<1>2. /\ Working /\ replay.todo # << >>
      /\ Current.subject \in Subjects /\ Source \in Side /\ Destination \in Side
  BY <1>1, WorkingFacts DEF Working, Base
<1>3. CASE Keep
  BY <1>1, <1>2, <1>3, PutAwayHolds
<1>4. CASE replay' = [replay EXCEPT !.pc = "replay",
                        !.existing = sides[Destination].records[Current.subject]]
  <2>1. /\ DOMAIN replay' = Fields /\ replay'.pc = "replay"
        /\ replay'.existing = sides[Destination].records[Current.subject]
        /\ replay'.taken = replay.taken /\ replay'.todo = replay.todo
        /\ replay'.still = replay.still /\ replay'.records = replay.records
        /\ replay'.observations = replay.observations
        /\ replay'.revision = replay.revision /\ replay'.at = replay.at
        /\ replay'.next = replay.next /\ replay'.upto = replay.upto
        /\ replay'.after = replay.after /\ replay'.instance = replay.instance
    BY <1>4 DEF Base, Shape, ReplayShaped, Fields
  <2>2. replay'.existing \in Seq(Envelope)
    BY <1>2, <2>1, ShapedFacts DEF Base, Shape
  <2>4. ReplayShaped'
    BY <2>1, <2>2, Zenon DEF Base, Shape, ReplayShaped
  <2>5. Base'
    BY <1>1, <1>2, <2>1, <2>4, OnwardBase
  <2>6. Current' = Current /\ Source' = Source /\ Destination' = Destination
    BY <2>1, SameHand
  <2>7. HistoryRead'
    BY <1>1, <1>2, <2>1, <2>6 DEF ReplayHolds, HistoryRead, Keeps, Replaying
  <2>8. WayOn' /\ Ahead' /\ OneStepOn'
    BY <1>1, <2>1
      DEF ReplayHolds, WayOn, Ahead, OneStepOn, Committing, Replaying
  <2>9. Believed' /\ LocalStays'
    BY <1>1, <1>2, <2>1, BelievedKept, LocalKept DEF ReplayHolds, Base
  <2>10. replay'.at = 1
    BY <1>1, <2>1 DEF ReplayHolds, WayOn
  <2>11. Arrived'
    <3>1. \A j \in DOMAIN replay'.records : ~(j < 1)
      BY <2>4 DEF ReplayShaped
    <3> QED
      BY <2>10, <3>1, Zenon DEF Arrived
  <2>12. AllReplayed' /\ Loaded'
    BY <1>1, <1>2, <2>1 DEF AllReplayed, Loaded, Replaying, ReplayHolds, Working
  <2> QED
    BY <2>5, <2>7, <2>8, <2>9, <2>11, <2>12 DEF ReplayHolds
<1> QED
  BY <1>3, <1>4, Zenon DEF ReadExisting

(* One record of the source: already there, or the next to give. *)
LEMMA ReplayRecordHolds ==
  ASSUME Base, ReplayHolds, ReplayRecord
  PROVE  Base' /\ ReplayHolds'
<1>1. /\ replay.pc = "replay" /\ sides' = sides /\ Unmoved
      /\ \A x \in Side : Good(sides[x], sides'[x])
      /\ sides' = [x \in Side |-> sides'[x]]
  BY BaseUnmoved DEF ReplayRecord, At
<1>2. /\ Working /\ replay.todo # << >>
      /\ Current.subject \in Subjects /\ Source \in Side /\ Destination \in Side
  BY <1>1, WorkingFacts DEF Working, Base
<1>3. CASE Keep
  BY <1>1, <1>2, <1>3, PutAwayHolds
<1>4. replay.records # << >> /\ replay.at \in Nat \ {0} /\ replay.records \in Seq(Envelope)
  BY <1>1 DEF Base, Shape, ReplayShaped, ReplayHolds, WayOn
<1>5. CASE replay.at > Len(replay.records) /\ Restore(replay.revision, "load")
  <2>1. /\ DOMAIN replay' = Fields /\ replay'.pc = "restore" /\ replay'.next = 1
        /\ replay'.upto = replay.revision /\ replay'.after = "load"
        /\ replay'.taken = replay.taken /\ replay'.todo = replay.todo
        /\ replay'.still = replay.still /\ replay'.records = replay.records
        /\ replay'.observations = replay.observations
        /\ replay'.existing = replay.existing /\ replay'.revision = replay.revision
        /\ replay'.at = replay.at /\ replay'.instance = replay.instance
    BY <1>5 DEF Base, Shape, ReplayShaped, Fields, Restore
  <2>2. ReplayShaped'
    BY <2>1 DEF Base, Shape, ReplayShaped
  <2>3. Base'
    BY <1>1, <1>2, <2>1, <2>2, OnwardBase
  <2>4. HistoryRead' /\ Believed' /\ Arrived' /\ LocalStays'
    BY <1>1, <1>2, <2>1, HistoryKept, BelievedKept, ArrivedKept, LocalKept
       DEF ReplayHolds, Base
  <2>5. WayOn' /\ Ahead' /\ OneStepOn' /\ AllReplayed' /\ Loaded'
    BY <1>4, <1>5, <2>1
      DEF WayOn, Ahead, OneStepOn, Committing, AllReplayed, Loaded
  <2> QED
    BY <2>3, <2>4, <2>5 DEF ReplayHolds
<1>6. CASE /\ replay.at <= Len(replay.records)
           /\ \E i \in Under(replay.existing, replay.records[replay.at].record_id) :
                replay.existing[i] = replay.records[replay.at]
           /\ replay' = [replay EXCEPT !.at = @ + 1]
  <2>1. /\ DOMAIN replay' = Fields /\ replay'.at = replay.at + 1
        /\ replay'.pc = replay.pc /\ replay'.taken = replay.taken
        /\ replay'.todo = replay.todo /\ replay'.still = replay.still
        /\ replay'.records = replay.records
        /\ replay'.observations = replay.observations
        /\ replay'.existing = replay.existing /\ replay'.revision = replay.revision
        /\ replay'.next = replay.next /\ replay'.upto = replay.upto
        /\ replay'.after = replay.after /\ replay'.instance = replay.instance
    BY <1>6 DEF Base, Shape, ReplayShaped, Fields
  <2>2. ReplayShaped'
    BY <1>4, <2>1 DEF Base, Shape, ReplayShaped
  <2>3. Base'
    BY <1>1, <1>2, <2>1, <2>2, OnwardBase
  <2>4. HistoryRead' /\ Believed' /\ LocalStays'
    BY <1>1, <1>2, <2>1, HistoryKept, BelievedKept, LocalKept
      DEF ReplayHolds, Base
  <2>5. WayOn' /\ Ahead' /\ OneStepOn' /\ Loaded'
    BY <1>1, <1>4, <2>1 DEF WayOn, Ahead, OneStepOn, Committing, Loaded
  <2>6. AllReplayed'
    BY <1>1, <1>2, <1>4, <1>6, <2>1 DEF ReplayHolds, AllReplayed, Replaying
  <2>7. Current' = Current /\ Destination' = Destination /\ Replaying
    BY <1>1, <1>2, <1>4, <2>1, SameHand DEF Replaying
  <2>8. Holds(sides[Destination], Current.subject, replay.records[replay.at])
    <3>1. Keeps(replay.existing, sides[Destination].records[Current.subject])
      BY <1>1, <2>7 DEF ReplayHolds, HistoryRead
    <3> QED
      BY <1>6, <3>1 DEF Keeps, Holds, Under
  <2>9. ASSUME NEW j \in DOMAIN replay.records, j < replay.at + 1
        PROVE  Holds(sides[Destination], Current.subject, replay.records[j])
    <3>1. CASE j = replay.at
      BY <2>8, <3>1
    <3>2. CASE j < replay.at
      BY <1>1, <2>7, <3>2 DEF ReplayHolds, Arrived
    <3> QED
      BY <1>4, <2>9, <3>1, <3>2
  <2>10. Arrived'
    BY <1>1, <2>1, <2>7, <2>9 DEF Arrived, Holds
  <2> QED
    BY <2>3, <2>4, <2>5, <2>6, <2>10 DEF ReplayHolds
<1>7. CASE /\ replay.at <= Len(replay.records)
           /\ replay.records[replay.at].result.revision = Reached + 1
           /\ Restore(replay.revision, "commit")
  <2>1. /\ DOMAIN replay' = Fields /\ replay'.pc = "restore" /\ replay'.next = 1
        /\ replay'.upto = replay.revision /\ replay'.after = "commit"
        /\ replay'.taken = replay.taken /\ replay'.todo = replay.todo
        /\ replay'.still = replay.still /\ replay'.records = replay.records
        /\ replay'.observations = replay.observations
        /\ replay'.existing = replay.existing /\ replay'.revision = replay.revision
        /\ replay'.at = replay.at /\ replay'.instance = replay.instance
    BY <1>7 DEF Base, Shape, ReplayShaped, Fields, Restore
  <2>2. ReplayShaped'
    BY <2>1 DEF Base, Shape, ReplayShaped
  <2>3. Base'
    BY <1>1, <1>2, <2>1, <2>2, OnwardBase
  <2>4. HistoryRead' /\ Believed' /\ Arrived' /\ LocalStays'
    BY <1>1, <1>2, <2>1, HistoryKept, BelievedKept, ArrivedKept, LocalKept
       DEF ReplayHolds, Base
  <2>5. WayOn' /\ Ahead' /\ AllReplayed' /\ Loaded'
    BY <1>4, <2>1 DEF WayOn, Ahead, AllReplayed, Loaded
  <2>6. OneStepOn'
    BY <1>7, <2>1 DEF OneStepOn, Reached
  <2> QED
    BY <2>3, <2>4, <2>5, <2>6 DEF ReplayHolds
<1> QED
  <2>1. CASE replay.at > Len(replay.records)
    BY <1>5, <2>1 DEF ReplayRecord
  <2>2. CASE replay.at <= Len(replay.records)
    BY <1>3, <1>4, <1>6, <1>7, <2>2 DEF ReplayRecord
  <2> QED
    BY <1>4, <2>1, <2>2

(* One observation of the source: left out, already there, or due. *)
LEMMA CompareObservationHolds ==
  ASSUME Base, ReplayHolds, CompareObservation
  PROVE  Base' /\ ReplayHolds'
<1>1. /\ replay.pc = "restore" /\ sides' = sides /\ Unmoved
      /\ \A x \in Side : Good(sides[x], sides'[x])
      /\ sides' = [x \in Side |-> sides'[x]]
  BY BaseUnmoved DEF CompareObservation, At
<1>2. /\ Working /\ replay.todo # << >>
      /\ Current.subject \in Subjects /\ Source \in Side /\ Destination \in Side
  BY <1>1, WorkingFacts DEF Working, Base
<1>3. CASE Keep
  BY <1>1, <1>2, <1>3, PutAwayHolds
<1>4. /\ replay.next \in Nat \ {0} /\ replay.next <= Len(replay.observations)
      /\ replay.observations \in Seq(RecordedObservation)
  BY DEF CompareObservation, Base, Shape, ReplayShaped
<1>5. ASSUME NEW pc \in {"restore", "observe"}, NEW next \in {replay.next, replay.next + 1},
             pc = "observe" => next = replay.next,
             replay' = [replay EXCEPT !.pc = pc, !.next = next]
      PROVE  Base' /\ ReplayHolds'
  <2>1. /\ DOMAIN replay' = Fields /\ replay'.pc = pc /\ replay'.next = next
        /\ replay'.taken = replay.taken /\ replay'.todo = replay.todo
        /\ replay'.still = replay.still /\ replay'.records = replay.records
        /\ replay'.observations = replay.observations
        /\ replay'.existing = replay.existing /\ replay'.revision = replay.revision
        /\ replay'.at = replay.at /\ replay'.upto = replay.upto
        /\ replay'.after = replay.after /\ replay'.instance = replay.instance
    BY <1>5 DEF Base, Shape, ReplayShaped, Fields
  <2>2. next \in Nat \ {0}
    BY <1>4
  <2>3. ReplayShaped'
    BY <2>1, <2>2 DEF Base, Shape, ReplayShaped
  <2>4. Base'
    BY <1>1, <1>2, <2>1, <2>3, OnwardBase
  <2>5. HistoryRead' /\ Believed' /\ Arrived' /\ LocalStays'
    BY <1>1, <1>2, <2>1, HistoryKept, BelievedKept, ArrivedKept, LocalKept
       DEF ReplayHolds, Base
  <2>6. WayOn'
    BY <1>1, <1>4, <1>5, <2>1 DEF ReplayHolds, WayOn, Replaying
  <2>7. OneStepOn' /\ AllReplayed'
    BY <1>1, <1>2, <2>1
       DEF ReplayHolds, OneStepOn, Committing, AllReplayed, Replaying, Reached
  <2>8. Ahead' /\ Loaded'
    BY <2>1 DEF Ahead, Loaded
  <2> QED
    BY <2>4, <2>5, <2>6, <2>7, <2>8 DEF ReplayHolds
<1>6. CASE replay' = [replay EXCEPT !.next = @ + 1]
  <2>1. replay' = [replay EXCEPT !.pc = "restore", !.next = replay.next + 1]
    BY <1>1, <1>6 DEF Base, Shape, ReplayShaped, Fields
  <2> QED
    BY <1>5, <2>1
<1>7. CASE replay' = [replay EXCEPT !.pc = "observe"]
  <2>1. replay' = [replay EXCEPT !.pc = "observe", !.next = replay.next]
    BY <1>7 DEF Base, Shape, ReplayShaped, Fields
  <2> QED
    BY <1>5, <2>1
<1> QED
  BY <1>3, <1>6, <1>7, Zenon DEF CompareObservation

(* The observations are restored: a commit, the instance, or the end. *)
LEMMA RestoredHolds ==
  ASSUME Base, ReplayHolds, Restored
  PROVE  Base' /\ ReplayHolds'
<1>1. /\ replay.pc = "restore" /\ sides' = sides /\ Unmoved
      /\ \A x \in Side : Good(sides[x], sides'[x])
      /\ sides' = [x \in Side |-> sides'[x]]
  BY BaseUnmoved DEF Restored, At
<1>2. /\ Working /\ replay.todo # << >>
      /\ Current.subject \in Subjects /\ Source \in Side /\ Destination \in Side
  BY <1>1, WorkingFacts DEF Working, Base
<1>3. CASE Keep
  BY <1>1, <1>2, <1>3, PutAwayHolds
<1>4. CASE replay.after = "cleared" /\ Cleared
  BY <1>1, <1>2, <1>4, PutAwayHolds
<1>5. CASE /\ replay.after # "cleared"
           /\ replay' = [replay EXCEPT !.pc = replay.after,
                            !.after = IF @ = "load" THEN "cleared" ELSE "none"]
  <2>1. /\ DOMAIN replay' = Fields /\ replay'.pc = replay.after
        /\ replay'.taken = replay.taken /\ replay'.todo = replay.todo
        /\ replay'.still = replay.still /\ replay'.records = replay.records
        /\ replay'.observations = replay.observations
        /\ replay'.existing = replay.existing /\ replay'.revision = replay.revision
        /\ replay'.at = replay.at /\ replay'.next = replay.next
        /\ replay'.upto = replay.upto
        /\ replay'.instance = replay.instance
        /\ replay'.after = IF replay.after = "load" THEN "cleared" ELSE "none"
    BY <1>5 DEF Base, Shape, ReplayShaped, Fields
  <2>2. replay.records # << >> /\ replay.after \in {"commit", "load"} /\ Replaying
    BY <1>1, <1>2, <1>5 DEF ReplayHolds, WayOn, Replaying
  <2>3. ReplayShaped'
    BY <2>1 DEF Base, Shape, ReplayShaped
  <2>4. Base'
    BY <1>1, <1>2, <2>1, <2>3, OnwardBase
  <2>5. HistoryRead' /\ Believed' /\ Arrived' /\ LocalStays'
    BY <1>1, <1>2, <2>1, HistoryKept, BelievedKept, ArrivedKept, LocalKept
       DEF ReplayHolds, Base
  <2>6. WayOn' /\ Ahead' /\ Loaded'
    BY <2>1, <2>2 DEF WayOn, Ahead, Loaded
  <2>7. AllReplayed'
    BY <1>1, <2>1, <2>2 DEF ReplayHolds, AllReplayed
  <2>8. OneStepOn'
    BY <1>1, <2>1, <2>2 DEF ReplayHolds, OneStepOn, Committing, Reached
  <2> QED
    BY <2>4, <2>5, <2>6, <2>7, <2>8 DEF ReplayHolds
<1> QED
  BY <1>4, <1>5, Zenon DEF Restored

(* The instance of the source is read. *)
LEMMA LoadSourceHolds ==
  ASSUME Base, ReplayHolds, LoadSource
  PROVE  Base' /\ ReplayHolds'
<1>1. /\ replay.pc = "load" /\ sides' = sides /\ Unmoved
      /\ \A x \in Side : Good(sides[x], sides'[x])
      /\ sides' = [x \in Side |-> sides'[x]]
  BY BaseUnmoved DEF LoadSource, At
<1>2. /\ Working /\ replay.todo # << >>
      /\ Current.subject \in Subjects /\ Source \in Side /\ Destination \in Side
  BY <1>1, WorkingFacts DEF Working, Base
<1>3. CASE Keep
  BY <1>1, <1>2, <1>3, PutAwayHolds
<1> DEFINE held == sides[Source].instances[Current.subject]
<1>4. CASE held # None /\ replay' = [replay EXCEPT !.pc = "events", !.instance = held]
  <2>1. /\ DOMAIN replay' = Fields /\ replay'.pc = "events"
        /\ replay'.instance = held /\ replay'.taken = replay.taken
        /\ replay'.todo = replay.todo /\ replay'.still = replay.still
        /\ replay'.records = replay.records
        /\ replay'.observations = replay.observations
        /\ replay'.existing = replay.existing /\ replay'.revision = replay.revision
        /\ replay'.at = replay.at /\ replay'.next = replay.next
        /\ replay'.upto = replay.upto /\ replay'.after = replay.after
    BY <1>4 DEF Base, Shape, ReplayShaped, Fields
  <2>2. held \in Instance /\ held.subject = Current.subject
    BY <1>2, <1>4, ShapedFacts DEF Base, Shape, SidesSound, Placed
  <2> HIDE DEF held
  <2>3. ReplayShaped'
    BY <2>1, <2>2 DEF Base, Shape, ReplayShaped
  <2>4. Base'
    BY <1>1, <1>2, <2>1, <2>3, OnwardBase
  <2>5. HistoryRead' /\ Believed' /\ Arrived' /\ LocalStays'
    BY <1>1, <1>2, <2>1, HistoryKept, BelievedKept, ArrivedKept, LocalKept
       DEF ReplayHolds, Base
  <2>6. Current' = Current /\ Source' = Source
    BY <2>1, SameHand
  <2>7. Loaded'
    BY <1>1, <1>4, <2>1, <2>2, <2>6 DEF Loaded, held
  <2>8. WayOn' /\ AllReplayed' /\ OneStepOn' /\ Ahead'
    BY <1>1, <1>2, <2>1
       DEF ReplayHolds, WayOn, AllReplayed, OneStepOn, Ahead, Replaying, Committing
  <2> QED
    BY <2>4, <2>5, <2>7, <2>8 DEF ReplayHolds
<1> QED
  BY <1>3, <1>4, Zenon DEF LoadSource

(* The events of the source are read. *)
LEMMA ReadEventsHolds ==
  ASSUME Base, ReplayHolds, ReadEvents
  PROVE  Base' /\ ReplayHolds'
<1>1. /\ replay.pc = "events" /\ sides' = sides /\ Unmoved
      /\ \A x \in Side : Good(sides[x], sides'[x])
      /\ sides' = [x \in Side |-> sides'[x]]
  BY BaseUnmoved DEF ReadEvents, At
<1>2. /\ Working /\ replay.todo # << >>
      /\ Current.subject \in Subjects /\ Source \in Side /\ Destination \in Side
  BY <1>1, WorkingFacts DEF Working, Base
<1>3. CASE Keep
  BY <1>1, <1>2, <1>3, PutAwayHolds
<1>4. CASE replay' = [replay EXCEPT !.pc = "compare",
                        !.events = EventsOf(sides[Source], Current.subject)]
  <2>1. /\ DOMAIN replay' = Fields /\ replay'.pc = "compare"
        /\ replay'.taken = replay.taken /\ replay'.todo = replay.todo
        /\ replay'.still = replay.still /\ replay'.records = replay.records
        /\ replay'.observations = replay.observations
        /\ replay'.existing = replay.existing /\ replay'.revision = replay.revision
        /\ replay'.at = replay.at /\ replay'.next = replay.next
        /\ replay'.upto = replay.upto /\ replay'.after = replay.after
        /\ replay'.instance = replay.instance
    BY <1>4 DEF Base, Shape, ReplayShaped, Fields
  <2>3. ReplayShaped'
    BY <2>1 DEF Base, Shape, ReplayShaped
  <2>4. Base'
    BY <1>1, <1>2, <2>1, <2>3, OnwardBase
  <2>5. HistoryRead' /\ Believed' /\ Arrived' /\ LocalStays'
    BY <1>1, <1>2, <2>1, HistoryKept, BelievedKept, ArrivedKept, LocalKept
       DEF ReplayHolds, Base
  <2>6. Current' = Current /\ Source' = Source
    BY <2>1, SameHand
  <2>7. Loaded'
    BY <1>1, <2>1, <2>6 DEF ReplayHolds, Loaded
  <2>8. WayOn' /\ AllReplayed' /\ OneStepOn' /\ Ahead'
    BY <1>1, <1>2, <2>1
       DEF ReplayHolds, WayOn, AllReplayed, OneStepOn, Ahead, Replaying, Committing
  <2> QED
    BY <2>4, <2>5, <2>7, <2>8 DEF ReplayHolds
<1> QED
  BY <1>3, <1>4, Zenon DEF ReadEvents

(* A side that holds the instance of the source is done with, or waits for *)
(* the observations that no decision brought.                              *)
LEMMA ReconciledHolds ==
  ASSUME Base, ReplayHolds, Reconciled, replay.pc \in {"compare", "mirror"}, Unmoved,
         \A x \in Side : Good(sides[x], sides'[x]),
         sides' = [x \in Side |-> sides'[x]],
         Source = "local" => sides'["local"] = sides["local"]
  PROVE  Base' /\ ReplayHolds'
<1>1. /\ Working /\ replay.todo # << >> /\ replay.pc # "idle"
  BY WorkingFacts DEF Working, Base
<1>2. CASE Cleared
  BY <1>1, <1>2, PutAwayHolds
<1>3. CASE replay.after # "cleared" /\ replay' = [replay EXCEPT !.pc = "late"]
  <2>1. /\ DOMAIN replay' = Fields /\ replay'.pc = "late"
        /\ replay'.taken = replay.taken /\ replay'.todo = replay.todo
        /\ replay'.still = replay.still /\ replay'.records = replay.records
        /\ replay'.observations = replay.observations
        /\ replay'.existing = replay.existing /\ replay'.revision = replay.revision
        /\ replay'.at = replay.at /\ replay'.next = replay.next
        /\ replay'.upto = replay.upto /\ replay'.after = replay.after
        /\ replay'.instance = replay.instance
    BY <1>3 DEF Base, Shape, ReplayShaped, Fields
  <2>2. replay.records = << >>
    BY <1>1, <1>3 DEF ReplayHolds, WayOn, Replaying
  <2>3. ReplayShaped'
    BY <2>1 DEF Base, Shape, ReplayShaped
  <2>4. Base'
    BY <1>1, <2>1, <2>3, OnwardBase
  <2>5. HistoryRead'
    BY <1>1, <2>1, HistoryKept DEF ReplayHolds, Base
  <2>6. ~Replaying'
    BY <2>1, <2>2 DEF Replaying
  <2>7. WayOn' /\ Loaded' /\ Ahead'
    BY <2>1, <2>2 DEF WayOn, Loaded, Ahead, Replaying
  <2>8. Believed' /\ OneStepOn' /\ Arrived' /\ AllReplayed' /\ LocalStays'
    BY <2>6, Zenon DEF Believed, OneStepOn, Arrived, AllReplayed, LocalStays
  <2> QED
    BY <2>4, <2>5, <2>7, <2>8 DEF ReplayHolds
<1> QED
  BY <1>2, <1>3, Zenon DEF Reconciled

(* The destination is compared with what was read. *)
LEMMA CompareHolds ==
  ASSUME Base, ReplayHolds, Compare
  PROVE  Base' /\ ReplayHolds'
<1>1. /\ replay.pc = "compare" /\ sides' = sides /\ Unmoved
      /\ \A x \in Side : Good(sides[x], sides'[x])
      /\ sides' = [x \in Side |-> sides'[x]]
  BY BaseUnmoved DEF Compare, At
<1>2. /\ Working /\ replay.todo # << >>
      /\ Current.subject \in Subjects /\ Source \in Side /\ Destination \in Side
  BY <1>1, WorkingFacts DEF Working, Base
<1>3. CASE Keep
  BY <1>1, <1>2, <1>3, PutAwayHolds
<1> DEFINE held == sides[Destination].instances[Current.subject]
           found == revision_of(sides[Destination], Current.subject)
<1>4. CASE Reconciled
  BY <1>1, <1>2, <1>4, ReconciledHolds
<1>5. CASE /\ (IF held = None THEN 0 ELSE held.revision) < replay.instance.revision
           /\ replay' = [replay EXCEPT !.pc = "mirror", !.revision = found]
  <2>1. /\ DOMAIN replay' = Fields /\ replay'.pc = "mirror"
        /\ replay'.revision = found /\ replay'.taken = replay.taken
        /\ replay'.todo = replay.todo /\ replay'.still = replay.still
        /\ replay'.records = replay.records
        /\ replay'.observations = replay.observations
        /\ replay'.existing = replay.existing /\ replay'.at = replay.at
        /\ replay'.next = replay.next /\ replay'.upto = replay.upto
        /\ replay'.after = replay.after /\ replay'.instance = replay.instance
    BY <1>5 DEF Base, Shape, ReplayShaped, Fields
  <2>2. /\ found \in Nat \cup {None}
        /\ found # None => found < replay.instance.revision
    BY <1>2, <1>5, ShapedFacts, InstanceFacts DEF Base, Shape, revision_of
  <2> HIDE DEF held, found
  <2>3. ReplayShaped'
    BY <2>1, <2>2 DEF Base, Shape, ReplayShaped
  <2>4. Base'
    BY <1>1, <1>2, <2>1, <2>3, OnwardBase
  <2>5. HistoryRead' /\ Arrived' /\ LocalStays'
    BY <1>1, <1>2, <2>1, HistoryKept, ArrivedKept, LocalKept
      DEF ReplayHolds, Base
  <2>6. Current' = Current /\ Source' = Source
    BY <2>1, SameHand
  <2>7. Loaded' /\ Ahead'
    BY <1>1, <2>1, <2>2, <2>6 DEF ReplayHolds, Loaded, Ahead
  <2>8. WayOn' /\ AllReplayed' /\ OneStepOn' /\ Believed'
    BY <1>1, <1>2, <2>1
       DEF ReplayHolds, WayOn, AllReplayed, OneStepOn, Believed, Replaying, Committing
  <2> QED
    BY <2>4, <2>5, <2>7, <2>8 DEF ReplayHolds
<1> QED
  BY <1>3, <1>4, <1>5, Zenon DEF Compare

(* The observations that no decision brought are to be restored. *)
LEMMA LateHolds ==
  ASSUME Base, ReplayHolds, Late
  PROVE  Base' /\ ReplayHolds'
<1>1. /\ replay.pc = "late" /\ sides' = sides /\ Unmoved
      /\ \A x \in Side : Good(sides[x], sides'[x])
      /\ sides' = [x \in Side |-> sides'[x]]
  BY BaseUnmoved DEF Late, At
<1>2. /\ Working /\ replay.todo # << >>
      /\ Current.subject \in Subjects /\ Source \in Side /\ Destination \in Side
  BY <1>1, WorkingFacts DEF Working, Base
<1>3. CASE Keep
  BY <1>1, <1>2, <1>3, PutAwayHolds
<1> DEFINE found == revision_of(sides[Destination], Current.subject)
<1>4. CASE Restore(found, "cleared")
  <2>1. /\ DOMAIN replay' = Fields /\ replay'.pc = "restore" /\ replay'.next = 1
        /\ replay'.upto = found /\ replay'.after = "cleared"
        /\ replay'.taken = replay.taken /\ replay'.todo = replay.todo
        /\ replay'.still = replay.still /\ replay'.records = replay.records
        /\ replay'.observations = replay.observations
        /\ replay'.existing = replay.existing /\ replay'.revision = replay.revision
        /\ replay'.at = replay.at /\ replay'.instance = replay.instance
    BY <1>4 DEF Base, Shape, ReplayShaped, Fields, Restore
  <2>2. replay.records = << >> /\ found \in Nat \cup {None}
    BY <1>1, <1>2, ShapedFacts, InstanceFacts
       DEF Base, Shape, revision_of, ReplayHolds, WayOn
  <2> HIDE DEF found
  <2>3. ReplayShaped'
    BY <2>1, <2>2 DEF Base, Shape, ReplayShaped
  <2>4. Base'
    BY <1>1, <1>2, <2>1, <2>3, OnwardBase
  <2>5. HistoryRead'
    BY <1>1, <1>2, <2>1, HistoryKept DEF ReplayHolds, Base
  <2>6. ~Replaying'
    BY <2>1, <2>2 DEF Replaying
  <2>7. WayOn' /\ Loaded' /\ Ahead'
    BY <2>1, <2>2 DEF WayOn, Loaded, Ahead, Replaying
  <2>8. Believed' /\ OneStepOn' /\ Arrived' /\ AllReplayed' /\ LocalStays'
    BY <2>6, Zenon DEF Believed, OneStepOn, Arrived, AllReplayed, LocalStays
  <2> QED
    BY <2>4, <2>5, <2>7, <2>8 DEF ReplayHolds
<1> QED
  BY <1>3, <1>4, Zenon DEF Late

-----------------------------------------------------------------------------
(* The steps of the catch-up that give the destination something. *)

(* An observation is given to the destination. *)
LEMMA RestoreGives ==
  ASSUME Base, ReplayHolds, RestoreObservation
  PROVE  LET s  == Current.subject
             to == sides'[Destination]
         IN /\ replay.pc = "observe" /\ Working /\ Unmoved
            /\ \A x \in Side : Good(sides[x], sides'[x])
            /\ sides' = [x \in Side |-> sides'[x]]
            /\ sides'[Source] = sides[Source]
            /\ to.instances = sides[Destination].instances
            /\ to.records = sides[Destination].records
            /\ replay.next \in DOMAIN replay.observations
            /\ \A z \in Subjects : \A i \in DOMAIN to.observations[z] :
                 \/ \E j \in DOMAIN sides[Destination].observations[z] :
                      to.observations[z][i] = sides[Destination].observations[z][j]
                 \/ z = s /\ to.observations[z][i] = Restoring
            /\ \/ Keep
               \/ replay' = [replay EXCEPT !.pc = "restore", !.next = @ + 1]
<1> DEFINE s  == Current.subject
           st == sides[Destination]
<1>1. replay.pc = "observe" /\ Working /\ Unmoved
  BY DEF RestoreObservation, At, Working
<1>2. /\ Current.subject \in Subjects /\ Source \in Side /\ Destination \in Side
      /\ Source # Destination
  BY <1>1, WorkingFacts DEF Base
<1>3. /\ replay.next \in DOMAIN replay.observations
      /\ Restoring \in RecordedObservation
  BY <1>1 DEF Restoring, ReplayHolds, WayOn, Base, Shape, ReplayShaped
<1>4. Sound(st)
  BY <1>2 DEF Base, Shape, SidesSound, Sound
<1>5. Restoring.subject = s
  <2>1. Keeps(replay.observations, sides[Source].observations[s])
    BY <1>1 DEF ReplayHolds, HistoryRead
  <2>2. /\ replay.next \in DOMAIN sides[Source].observations[s]
        /\ sides[Source].observations[s][replay.next] = Restoring
    BY <1>3, <2>1 DEF Keeps, Restoring
  <2> QED
    BY <1>2, <2>2 DEF Base, SidesSound, IndexIsExact, ObservationIndexed
<1>6. PICK result \in Attempts(Destination, observe(st, Restoring)) :
        /\ Took(Destination, result)
        /\ IF result.outcome = "ok"
           THEN replay' = [replay EXCEPT !.pc = "restore", !.next = @ + 1]
           ELSE Keep
  BY DEF RestoreObservation
<1> DEFINE res == observe(st, Restoring)
<1>7. /\ Good(st, res.store) /\ res.store.instances = st.instances
      /\ res.store.records = st.records
      /\ \A z \in Subjects : z # s => res.store.observations[z] = st.observations[z]
      /\ res.store # st =>
           res.store.observations[s] = Append(st.observations[s], Restoring)
  <2>1. /\ Good(st, res.store) /\ res.store.instances = st.instances
        /\ res.store.records = st.records
        /\ \A z \in Subjects : z # Restoring.subject =>
             res.store.observations[z] = st.observations[z]
        /\ res.store # st => res.store.observations[Restoring.subject]
                               = Append(st.observations[Restoring.subject], Restoring)
    <3> HIDE DEF st
    <3> QED
      BY <1>3, <1>4, ObserveGood
  <2> HIDE DEF st, res, s
  <2> QED
    BY <1>5, <2>1
<1>8. result.store = st \/ result.store = res.store
  BY <1>6, AttemptFacts
<1>9. Good(st, result.store)
  BY <1>4, <1>7, <1>8, SameIsGood
<1>10. /\ \A x \in Side : Good(sides[x], sides'[x])
       /\ sides' = [x \in Side |-> sides'[x]]
       /\ sides'[Destination] = result.store /\ sides'[Source] = sides[Source]
  BY <1>2, <1>6, <1>9, TookGood DEF Base
<1>11. \A z \in Subjects : \A i \in DOMAIN result.store.observations[z] :
         \/ \E j \in DOMAIN st.observations[z] :
              result.store.observations[z][i] = st.observations[z][j]
         \/ z = s /\ result.store.observations[z][i] = Restoring
  <2> SUFFICES ASSUME NEW z \in Subjects, NEW i \in DOMAIN result.store.observations[z],
                      result.store # st
               PROVE  \/ \E j \in DOMAIN st.observations[z] :
                           result.store.observations[z][i] = st.observations[z][j]
                      \/ z = s /\ result.store.observations[z][i] = Restoring
    OBVIOUS
  <2>1. CASE z # s
    BY <1>7, <1>8, <2>1
  <2>2. CASE z = s
    <3>1. /\ result.store.observations[z] = Append(st.observations[z], Restoring)
          /\ st.observations[z] \in Seq(RecordedObservation)
      BY <1>2, <1>4, <1>7, <1>8, <2>2, ShapedFacts DEF Sound
    <3> HIDE DEF s, st
    <3> QED
      BY <1>3, <2>2, <3>1, AppendFacts
  <2> QED
    BY <2>1, <2>2
<1> QED
  BY <1>1, <1>3, <1>6, <1>7, <1>8, <1>10, <1>11

(* The record to commit, and what it expects of the destination. *)
LEMMA CommitFacts ==
  ASSUME Base, ReplayHolds, replay.pc = "commit"
  PROVE  LET e == replay.records[replay.at]
             d == [instance |-> e.result, envelope |-> e]
         IN /\ Working /\ Replaying /\ replay.at \in DOMAIN replay.records
            /\ d \in RecordedCommit /\ d.instance.subject = Current.subject
            /\ Expected \in Nat => Expected < d.instance.revision
<1> DEFINE e == replay.records[replay.at]
           s == Current.subject
<1>1. Working /\ replay.records # << >> /\ Replaying /\ Committing
  BY DEF Working, Replaying, Committing, ReplayHolds, WayOn
<1>2. replay.at <= Len(replay.records) /\ e.result.revision = Reached + 1
  BY <1>1 DEF ReplayHolds, OneStepOn
<1>3. /\ replay.at \in DOMAIN replay.records /\ e \in Envelope
      /\ replay.revision \in Nat \cup {None}
  BY <1>2 DEF Base, Shape, ReplayShaped
<1>4. e.result \in Instance
  BY <1>3 DEF Envelope
<1>5. e.result.subject = s
  <2>1. Keeps(replay.records, sides[Source].records[s])
    BY <1>1 DEF ReplayHolds, HistoryRead
  <2>2. /\ replay.at \in DOMAIN sides[Source].records[s]
        /\ sides[Source].records[s][replay.at] = e
    BY <1>3, <2>1 DEF Keeps
  <2>3. s \in Subjects /\ Source \in Side
    BY <1>1, WorkingFacts DEF Base
  <2>4. RecordIndexed(sides[Source], s, replay.at)
    BY <2>2, <2>3 DEF Base, SidesSound, IndexIsExact
  <2>5. sides[Source].records[s][replay.at].result.subject = s
    BY <2>4, Zenon DEF RecordIndexed
  <2> QED
    BY <2>2, <2>5
<1>6. Expected \in Nat => Expected < e.result.revision
  <2>1. Absent \notin Nat /\ e.result.revision \in Nat
    BY <1>4, StoreAssumption, InstanceFacts
  <2> QED
    BY <1>2, <1>3, <2>1 DEF Expected, Reached
<1>7. [instance |-> e.result, envelope |-> e] \in RecordedCommit
  BY <1>3, <1>4 DEF RecordedCommit
<1> HIDE DEF e
<1> QED
  BY <1>1, <1>3, <1>5, <1>6, <1>7 DEF e

(* A record is given to the destination. *)
LEMMA CommitGives ==
  ASSUME Base, ReplayHolds, CommitRecord
  PROVE  LET s  == Current.subject
             e  == replay.records[replay.at]
             to == sides'[Destination]
         IN /\ replay.pc = "commit" /\ Working /\ Unmoved
            /\ \A x \in Side : Good(sides[x], sides'[x])
            /\ sides' = [x \in Side |-> sides'[x]]
            /\ sides'[Source] = sides[Source]
            /\ to.observations = sides[Destination].observations
            /\ \A z \in Subjects : \A i \in DOMAIN to.records[z] :
                 \/ \E j \in DOMAIN sides[Destination].records[z] :
                      to.records[z][i] = sides[Destination].records[z][j]
                 \/ z = s /\ to.records[z][i] = e
            /\ to # sides[Destination] =>
                 /\ check(Expected, revision_of(sides[Destination], s))
                 /\ to.instances[s] = e.result
            /\ \/ Keep
               \/ /\ replay' = [replay EXCEPT !.pc = "replay", !.at = @ + 1,
                                  !.revision = e.result.revision]
                  /\ Holds(to, s, e) /\ NotPast(e.result, to.instances[s])
<1> DEFINE s  == Current.subject
           e  == replay.records[replay.at]
           d  == [instance |-> e.result, envelope |-> e]
           st == sides[Destination]
<1>1. replay.pc = "commit" /\ Working /\ Unmoved
  BY DEF CommitRecord, At, Working
<1>2. /\ Current.subject \in Subjects /\ Source \in Side /\ Destination \in Side
      /\ Source # Destination
  BY <1>1, WorkingFacts DEF Base
<1>3. /\ replay.at \in DOMAIN replay.records /\ d \in RecordedCommit
      /\ d.instance.subject = s /\ d.instance = e.result /\ d.envelope = e
      /\ Expected \in Nat => Expected < d.instance.revision
  BY <1>1, CommitFacts
<1>4. Sound(st)
  BY <1>2 DEF Base, Shape, SidesSound, Sound
<1>5. PICK result \in Attempts(Destination, commit_recorded(st, d, Expected)) :
        /\ Took(Destination, result)
        /\ IF result.outcome = "ok"
           THEN replay' = [replay EXCEPT !.pc = "replay", !.at = @ + 1,
                             !.revision = e.result.revision]
           ELSE Keep
  BY DEF CommitRecord
<1> DEFINE res == commit_recorded(st, d, Expected)
<1> HIDE DEF d
<1>6. /\ Good(st, res.store) /\ res.store.observations = st.observations
      /\ \A z \in Subjects : z # s => res.store.records[z] = st.records[z]
      /\ res.store # st =>
           /\ check(Expected, revision_of(st, s))
           /\ res.store.instances[s] = e.result
           /\ res.store.records[s] = Append(st.records[s], e)
      /\ res.outcome = "ok" =>
           Holds(res.store, s, e) /\ NotPast(e.result, res.store.instances[s])
  <2>1. Written(st, d, Expected, res)
    <3> HIDE DEF st
    <3> QED
      BY <1>3, <1>4, CommitRecordedGood
  <2> HIDE DEF st, res, s, e
  <2> QED
    BY <1>3, <2>1 DEF Written
<1>7. /\ result.store = st \/ result.store = res.store
      /\ result.outcome = "ok" => result = res
  BY <1>5, AttemptFacts
<1>8. Good(st, result.store)
  BY <1>4, <1>6, <1>7, SameIsGood
<1>9. /\ \A x \in Side : Good(sides[x], sides'[x])
      /\ sides' = [x \in Side |-> sides'[x]]
      /\ sides'[Destination] = result.store /\ sides'[Source] = sides[Source]
  BY <1>2, <1>5, <1>8, TookGood DEF Base
<1>10. \A z \in Subjects : \A i \in DOMAIN result.store.records[z] :
         \/ \E j \in DOMAIN st.records[z] : result.store.records[z][i] = st.records[z][j]
         \/ z = s /\ result.store.records[z][i] = e
  <2> SUFFICES ASSUME NEW z \in Subjects, NEW i \in DOMAIN result.store.records[z],
                      result.store # st
               PROVE  \/ \E j \in DOMAIN st.records[z] :
                           result.store.records[z][i] = st.records[z][j]
                      \/ z = s /\ result.store.records[z][i] = e
    OBVIOUS
  <2>1. CASE z # s
    BY <1>6, <1>7, <2>1
  <2>2. CASE z = s
    <3>1. /\ result.store.records[z] = Append(st.records[z], e)
          /\ st.records[z] \in Seq(Envelope)
      BY <1>2, <1>4, <1>6, <1>7, <2>2, ShapedFacts DEF Sound
    <3>2. e \in Envelope
      BY <1>3 DEF Base, Shape, ReplayShaped
    <3> HIDE DEF s, st, e
    <3> QED
      BY <2>2, <3>1, <3>2, AppendFacts
  <2> QED
    BY <2>1, <2>2
<1> HIDE DEF e, st, res, s
<1>11. \/ Keep
       \/ /\ replay' = [replay EXCEPT !.pc = "replay", !.at = @ + 1,
                          !.revision = e.result.revision]
          /\ Holds(result.store, s, e) /\ NotPast(e.result, result.store.instances[s])
  BY <1>5, <1>6, <1>7
<1>12. result.store # st =>
         /\ check(Expected, revision_of(st, s))
         /\ result.store.instances[s] = e.result
  BY <1>6, <1>7
<1>13. result.store.observations = st.observations
  BY <1>6, <1>7
<1> QED
  BY <1>1, <1>9, <1>10, <1>11, <1>12, <1>13 DEF e, st, s

(* The instance of the source is given to the destination. *)
LEMMA MirrorGives ==
  ASSUME Base, ReplayHolds, Mirror
  PROVE  LET s  == Current.subject
             to == sides'[Destination]
         IN /\ replay.pc = "mirror" /\ Working /\ Unmoved
            /\ \A x \in Side : Good(sides[x], sides'[x])
            /\ sides' = [x \in Side |-> sides'[x]]
            /\ sides'[Source] = sides[Source]
            /\ to.observations = sides[Destination].observations
            /\ to.records = sides[Destination].records
            /\ to # sides[Destination] =>
                 check(Expected, revision_of(sides[Destination], s))
            /\ Keep \/ Reconciled
<1> DEFINE s  == Current.subject
           d  == legacy_import(replay.instance, replay.events, Reached)
           st == sides[Destination]
<1>1. replay.pc = "mirror" /\ Working /\ Unmoved
  BY DEF Mirror, At, Working
<1>2. /\ Current.subject \in Subjects /\ Source \in Side /\ Destination \in Side
      /\ Source # Destination
  BY <1>1, WorkingFacts DEF Base
<1>3. /\ d.instance = replay.instance /\ replay.instance \in Instance
      /\ replay.instance.subject = s
  BY <1>1 DEF legacy_import, Base, Shape, ReplayShaped, ReplayHolds, Loaded
<1>4. Sound(st)
  BY <1>2 DEF Base, Shape, SidesSound, Sound
<1>5. PICK result \in Attempts(Destination, commit(st, d, Expected)) :
        /\ Took(Destination, result)
        /\ IF result.outcome = "ok" THEN Reconciled ELSE Keep
  BY DEF Mirror
<1> DEFINE res == commit(st, d, Expected)
<1> HIDE DEF d
<1>6. Expected \in Nat => Expected < d.instance.revision
  <2>1. Absent \notin Nat
    BY StoreAssumption
  <2> QED
    BY <1>1, <1>3, <2>1 DEF Expected, ReplayHolds, Ahead
<1>7. /\ Good(st, res.store) /\ res.store.observations = st.observations
      /\ res.store.records = st.records
      /\ res.store # st => check(Expected, revision_of(st, s))
  BY <1>3, <1>4, <1>6, CommitGood
<1>8. result.store = st \/ result.store = res.store
  BY <1>5, AttemptFacts
<1>9. Good(st, result.store)
  BY <1>4, <1>7, <1>8, SameIsGood
<1>10. /\ \A x \in Side : Good(sides[x], sides'[x])
       /\ sides' = [x \in Side |-> sides'[x]]
       /\ sides'[Destination] = result.store /\ sides'[Source] = sides[Source]
  BY <1>2, <1>5, <1>9, TookGood DEF Base
<1> QED
  BY <1>1, <1>5, <1>7, <1>8, <1>10

(* The destination took the observation, or the divergence is kept. *)
LEMMA RestoreObservationHolds ==
  ASSUME Base, ReplayHolds, RestoreObservation
  PROVE  Base' /\ ReplayHolds'
<1>1. /\ replay.pc = "observe" /\ Working /\ Unmoved
      /\ \A x \in Side : Good(sides[x], sides'[x])
      /\ sides' = [x \in Side |-> sides'[x]]
      /\ sides'[Source] = sides[Source]
      /\ sides'[Destination].instances = sides[Destination].instances
      /\ \/ Keep
         \/ replay' = [replay EXCEPT !.pc = "restore", !.next = @ + 1]
  BY RestoreGives
<1>2. /\ replay.todo # << >> /\ replay.pc # "idle"
      /\ Current.subject \in Subjects /\ Source \in Side /\ Destination \in Side
      /\ \/ Source = "local" /\ Destination = "remote"
         \/ Source = "remote" /\ Destination = "local"
      /\ Source = "local" => sides'["local"] = sides["local"]
  BY <1>1, WorkingFacts DEF Base
<1>3. CASE Keep
  BY <1>1, <1>2, <1>3, PutAwayHolds
<1>4. CASE replay' = [replay EXCEPT !.pc = "restore", !.next = @ + 1]
  <2>1. /\ DOMAIN replay' = Fields /\ replay'.pc = "restore"
        /\ replay'.next = replay.next + 1 /\ replay'.taken = replay.taken
        /\ replay'.todo = replay.todo /\ replay'.still = replay.still
        /\ replay'.records = replay.records
        /\ replay'.observations = replay.observations
        /\ replay'.existing = replay.existing /\ replay'.revision = replay.revision
        /\ replay'.at = replay.at /\ replay'.upto = replay.upto
        /\ replay'.after = replay.after /\ replay'.instance = replay.instance
    BY <1>4 DEF Base, Shape, ReplayShaped, Fields
  <2>2. ReplayShaped'
    BY SMTT(40), <2>1 DEF Base, Shape, ReplayShaped
  <2>3. Base'
    BY <1>1, <1>2, <2>1, <2>2, OnwardBase
  <2>4. sides'["local"].instances[Current.subject] = sides["local"].instances[Current.subject]
    BY <1>1, <1>2, Zenon
  <2>5. HistoryRead' /\ Believed' /\ Arrived' /\ LocalStays'
    BY <1>1, <1>2, <2>1, <2>4, HistoryKept, BelievedKept, ArrivedKept, LocalKept
       DEF ReplayHolds, Base
  <2>6. WayOn' /\ Ahead' /\ Loaded'
    BY <1>1, <2>1 DEF ReplayHolds, WayOn, Ahead, Loaded
  <2>7. OneStepOn' /\ AllReplayed'
    BY <1>1, <2>1
       DEF ReplayHolds, OneStepOn, Committing, AllReplayed, Replaying, Reached
  <2> QED
    BY <2>3, <2>5, <2>6, <2>7 DEF ReplayHolds
<1> QED
  BY <1>1, <1>3, <1>4

(* The destination took the record, or the divergence is kept. *)
LEMMA CommitRecordHolds ==
  ASSUME Base, ReplayHolds, CommitRecord
  PROVE  Base' /\ ReplayHolds'
<1> DEFINE s  == Current.subject
           e  == replay.records[replay.at]
           to == sides'[Destination]
<1>1. /\ replay.pc = "commit" /\ Working /\ Unmoved
      /\ \A x \in Side : Good(sides[x], sides'[x])
      /\ sides' = [x \in Side |-> sides'[x]]
      /\ sides'[Source] = sides[Source]
      /\ to # sides[Destination] => to.instances[s] = e.result
      /\ \/ Keep
         \/ /\ replay' = [replay EXCEPT !.pc = "replay", !.at = @ + 1,
                            !.revision = e.result.revision]
            /\ Holds(to, s, e) /\ NotPast(e.result, to.instances[s])
  BY CommitGives, Zenon
<1>2. /\ replay.todo # << >> /\ replay.pc # "idle"
      /\ Current.subject \in Subjects /\ Source \in Side /\ Destination \in Side
      /\ \/ Source = "local" /\ Destination = "remote"
         \/ Source = "remote" /\ Destination = "local"
      /\ Source = "local" => sides'["local"] = sides["local"]
  BY <1>1, WorkingFacts DEF Base
<1>3. CASE Keep
  BY <1>1, <1>2, <1>3, PutAwayHolds
<1>4. CASE /\ replay' = [replay EXCEPT !.pc = "replay", !.at = @ + 1,
                           !.revision = e.result.revision]
           /\ Holds(to, s, e) /\ NotPast(e.result, to.instances[s])
  <2>1. /\ DOMAIN replay' = Fields /\ replay'.pc = "replay"
        /\ replay'.at = replay.at + 1 /\ replay'.revision = e.result.revision
        /\ replay'.taken = replay.taken /\ replay'.todo = replay.todo
        /\ replay'.still = replay.still /\ replay'.records = replay.records
        /\ replay'.observations = replay.observations
        /\ replay'.existing = replay.existing /\ replay'.next = replay.next
        /\ replay'.upto = replay.upto /\ replay'.after = replay.after
        /\ replay'.instance = replay.instance
    BY <1>4 DEF Base, Shape, ReplayShaped, Fields
  <2>2. /\ Replaying /\ replay.at \in DOMAIN replay.records
        /\ replay.at \in Nat \ {0} /\ replay.at <= Len(replay.records)
        /\ e.result.revision \in Nat
    <3>1. Replaying /\ replay.at \in DOMAIN replay.records
      BY <1>1, CommitFacts
    <3>2. /\ e \in Envelope /\ replay.at \in Nat \ {0} /\ replay.at <= Len(replay.records)
      BY <3>1 DEF Base, Shape, ReplayShaped
    <3>3. e.result \in Instance
      BY <3>2 DEF Envelope
    <3> QED
      BY <3>1, <3>2, <3>3, InstanceFacts
  <2>3. ReplayShaped'
    <3>1. replay'.at \in Nat \ {0} /\ replay'.revision \in Nat \cup {None}
      BY <2>1, <2>2
    <3> QED
      BY <2>1, <3>1, Zenon DEF Base, Shape, ReplayShaped
  <2>4. Base'
    BY <1>1, <1>2, <2>1, <2>3, OnwardBase
  <2>5. HistoryRead'
    BY <1>1, <1>2, <2>1, HistoryKept DEF ReplayHolds, Base
  <2>6. WayOn' /\ Ahead' /\ Loaded' /\ OneStepOn'
    BY <2>1, <2>2 DEF WayOn, Ahead, Loaded, OneStepOn, Committing, Replaying
  <2>7. AllReplayed'
    BY <1>1, <2>1, <2>2 DEF ReplayHolds, AllReplayed
  <2>8. Current' = Current /\ Source' = Source /\ Destination' = Destination
    BY <2>1, SameHand
  <2>9. Believed'
    <3>1. /\ to.instances[s] # None /\ e.result.revision <= to.instances[s].revision
          /\ \E i \in DOMAIN replay.records :
               /\ replay.records[i].result.revision = e.result.revision
               /\ e.result.revision = to.instances[s].revision =>
                    to.instances[s] = replay.records[i].result
      BY <1>4, <2>2 DEF NotPast
    <3> QED
      BY <2>1, <2>8, <3>1, Zenon DEF Believed
  <2>10. ASSUME NEW j \in DOMAIN replay.records, j < replay.at + 1
         PROVE  Holds(to, s, replay.records[j])
    <3>1. CASE j = replay.at
      BY <1>4, <3>1
    <3>2. CASE j < replay.at
      <4>1. Holds(sides[Destination], s, replay.records[j])
        BY <1>1, <2>2, <3>2 DEF ReplayHolds, Arrived
      <4> QED
        BY <1>1, <1>2, <4>1, GoodKeeps
    <3>3. j \in Nat
      BY DEF Base, Shape, ReplayShaped
    <3> QED
      BY <2>2, <2>10, <3>1, <3>2, <3>3
  <2>11. Arrived'
    BY <2>1, <2>8, <2>10 DEF Arrived, Holds
  <2>12. LocalStays'
    <3> SUFFICES ASSUME Source = "remote", sides'["local"].instances[s] # None
                 PROVE  \E i \in DOMAIN replay.records :
                          replay.records[i].result = sides'["local"].instances[s]
      BY <2>1, <2>8, Zenon DEF LocalStays
    <3>1. CASE to # sides[Destination]
      BY <1>1, <1>2, <2>2, <3>1
    <3>2. CASE to = sides[Destination]
      BY <1>1, <1>2, <2>2, <3>2 DEF ReplayHolds, LocalStays
    <3> QED
      BY <3>1, <3>2
  <2> QED
    BY <2>4, <2>5, <2>6, <2>7, <2>9, <2>11, <2>12 DEF ReplayHolds
<1> QED
  BY <1>1, <1>3, <1>4

(* The destination took the instance, or the divergence is kept. *)
LEMMA MirrorHolds ==
  ASSUME Base, ReplayHolds, Mirror
  PROVE  Base' /\ ReplayHolds'
<1>1. /\ replay.pc = "mirror" /\ Working /\ Unmoved
      /\ \A x \in Side : Good(sides[x], sides'[x])
      /\ sides' = [x \in Side |-> sides'[x]]
      /\ sides'[Source] = sides[Source]
      /\ Keep \/ Reconciled
  BY MirrorGives
<1>2. /\ replay.todo # << >> /\ replay.pc # "idle"
      /\ Current.subject \in Subjects /\ Source \in Side /\ Destination \in Side
      /\ \/ Source = "local" /\ Destination = "remote"
         \/ Source = "remote" /\ Destination = "local"
      /\ Source = "local" => sides'["local"] = sides["local"]
  BY <1>1, WorkingFacts DEF Base
<1>3. CASE Keep
  BY <1>1, <1>2, <1>3, PutAwayHolds
<1>4. CASE Reconciled
  BY <1>1, <1>2, <1>4, ReconciledHolds
<1> QED
  BY <1>1, <1>3, <1>4

(* The catch-up is over: what it kept is what diverges. *)
LEMMA FinishHolds ==
  ASSUME Base, Finish
  PROVE  Base' /\ ReplayHolds'
<1>1. /\ replay.pc = "next" /\ sides' = sides /\ divergences' = replay.still
      /\ replay' = NoReplay /\ UNCHANGED <<setup, policy, serving, call>>
      /\ \A x \in Side : Good(sides[x], sides'[x])
      /\ sides' = [x \in Side |-> sides'[x]]
  BY BaseUnmoved DEF Finish, At
<1>2. /\ ReplayShaped' /\ replay'.pc = "idle" /\ replay'.taken = << >>
      /\ replay'.todo = << >> /\ replay'.still = << >>
  BY <1>1, RestShaped
<1>3. SidesSound' /\ \A x \in Side : Shaped(sides'[x])
  BY <1>1, SidesSoundNext
<1>4. Shape'
  BY <1>1, <1>2, <1>3, Zenon DEF Base, Shape, ReplayShaped
<1>5. OneAtATime'
  BY <1>1, <1>2 DEF Base, OneAtATime, Valid
<1>6. OneWay'
  <2>1. WriteOrder' = WriteOrder
    BY <1>1 DEF WriteOrder
  <2> QED
    BY <1>1, <1>2, <2>1 DEF Base, OneWay, AllFrom
<1> QED
  BY <1>2, <1>3, <1>4, <1>5, <1>6, NothingKnown DEF Base

(* Every step of the catch-up. *)
LEMMA CatchUpStepHolds ==
  ASSUME Base, ReplayHolds, CatchUpStep
  PROVE  Base' /\ ReplayHolds'
  BY FinishHolds, ReadRecordsHolds, ReadObservationsHolds, ReadHeldHolds,
     ReadExistingHolds, ReplayRecordHolds, CompareObservationHolds,
     RestoreObservationHolds, RestoredHolds, CommitRecordHolds, LoadSourceHolds,
     ReadEventsHolds, CompareHolds, MirrorHolds, LateHolds, Zenon DEF CatchUpStep

-----------------------------------------------------------------------------
(* The steps outside the catch-up. *)

(* A step that leaves the catch-up alone. *)
LEMMA Aside ==
  ASSUME Base, ReplayHolds, UNCHANGED <<setup, policy, replay>>,
         serving' \in [Side -> BOOLEAN],
         \A x \in Side : Good(sides[x], sides'[x]),
         sides' = [x \in Side |-> sides'[x]],
         Working => sides'["local"] = sides["local"],
         divergences' \in Seq(Divergence), AllFrom(divergences)',
         DOMAIN call' = {"pc", "write", "answer"},
         replay.pc # "idle" => call'.pc = "idle",
         call'.pc \in {"first", "second"} =>
           call'.write \in setup.writes /\ Valid(call'.write)
  PROVE  Base' /\ ReplayHolds'
<1>1. SidesSound' /\ \A x \in Side : Shaped(sides'[x])
  BY SidesSoundNext
<1>2. ReplayShaped'
  BY Zenon DEF Base, Shape, ReplayShaped
<1>3. Shape'
  BY <1>1, <1>2, Zenon DEF Base, Shape
<1>4. OneAtATime'
  BY Zenon DEF Base, OneAtATime, Valid
<1>5. OneWay'
  <2>1. WriteOrder' = WriteOrder
    BY DEF WriteOrder
  <2> QED
    BY <2>1 DEF Base, OneWay, AllFrom
<1>6. ReplayHolds'
  <2>1. CASE Working
    BY <2>1, Stable DEF Base
  <2>2. CASE ~Working
    BY <2>2, NothingKnown DEF Working, ReplayHolds, WayOn
  <2> QED
    BY <2>1, <2>2
<1> QED
  BY <1>1, <1>3, <1>4, <1>5, <1>6 DEF Base

(* A side starts or stops serving. *)
LEMMA FlipHolds ==
  ASSUME Base, ReplayHolds, NEW side \in Side, Flip(side)
  PROVE  Base' /\ ReplayHolds'
<1>1. /\ sides' = sides /\ UNCHANGED <<setup, policy, replay, divergences, call>>
      /\ serving' = [serving EXCEPT ![side] = ~@]
      /\ \A x \in Side : Good(sides[x], sides'[x])
      /\ sides' = [x \in Side |-> sides'[x]]
  BY BaseUnmoved DEF Flip
<1>2. serving' \in [Side -> BOOLEAN]
  BY <1>1 DEF Base, Shape
<1>3. divergences' \in Seq(Divergence) /\ DOMAIN call' = {"pc", "write", "answer"}
  BY <1>1 DEF Base, Shape
<1>4. AllFrom(divergences)'
  <2>1. WriteOrder' = WriteOrder
    BY <1>1 DEF WriteOrder
  <2> QED
    BY <1>1, <2>1 DEF Base, OneWay, AllFrom
<1>5. /\ replay.pc # "idle" => call'.pc = "idle"
      /\ call'.pc \in {"first", "second"} => call'.write \in setup.writes /\ Valid(call'.write)
  BY <1>1, Zenon DEF Base, OneAtATime
<1> QED
  BY <1>1, <1>2, <1>3, <1>4, <1>5, Aside

(* What a call leaves when it is answered. *)
LEMMA Responded ==
  ASSUME NEW answer, Respond(answer)
  PROVE  call'.pc = "idle" /\ DOMAIN call' = {"pc", "write", "answer"}
  BY DEF Respond, Idle

(* A write begins, or is refused. *)
LEMMA BeginHolds ==
  ASSUME Base, ReplayHolds, NEW w \in setup.writes, Begin(w)
  PROVE  Base' /\ ReplayHolds' /\ call'.pc # "second" /\ UNCHANGED <<policy, sides>>
<1>1. /\ sides' = sides /\ UNCHANGED <<setup, policy, replay, divergences, serving>>
      /\ replay.pc = "idle"
      /\ \A x \in Side : Good(sides[x], sides'[x])
      /\ sides' = [x \in Side |-> sides'[x]]
  BY BaseUnmoved DEF Begin, Resting
<1>2. /\ DOMAIN call' = {"pc", "write", "answer"} /\ call'.pc # "second"
      /\ call'.pc \in {"first", "second"} => call'.write = w /\ Valid(w)
  <2>1. CASE Valid(w) /\ call' = [Idle EXCEPT !.pc = "first", !.write = w]
    BY <2>1 DEF Idle
  <2>2. CASE Respond("backend")
    BY <2>2, Responded
  <2> QED
    BY <2>1, <2>2 DEF Begin
<1>3. divergences' \in Seq(Divergence) /\ serving' \in [Side -> BOOLEAN]
  BY <1>1 DEF Base, Shape
<1>4. AllFrom(divergences)'
  <2>1. WriteOrder' = WriteOrder
    BY <1>1 DEF WriteOrder
  <2> QED
    BY <1>1, <2>1 DEF Base, OneWay, AllFrom
<1> QED
  BY <1>1, <1>2, <1>3, <1>4, Aside

(* Both sides of the write order are sides. *)
LEMMA OrderFacts ==
  ASSUME Shape
  PROVE  /\ WriteOrder[1] \in Side /\ WriteOrder[2] \in Side
         /\ WriteOrder[1] # WriteOrder[2]
         /\ WriteOrder[1] = "remote" <=> WriteOrder[2] = "local"
<1>1. WriteOrder \in {<<"local", "remote">>, <<"remote", "local">>}
  BY SetupFacts DEF Shape
<1>2. CASE WriteOrder = <<"local", "remote">>
  BY <1>2 DEF Side
<1>3. CASE WriteOrder = <<"remote", "local">>
  BY <1>3 DEF Side
<1> QED
  BY <1>1, <1>2, <1>3

(* What a call of a write to a side leaves. *)
LEMMA AttemptGives ==
  ASSUME Base, NEW side \in Side, NEW w \in setup.writes,
         NEW result \in Attempts(side, Perform(sides[side], w)), Took(side, result)
  PROVE  /\ \A x \in Side : Good(sides[x], sides'[x])
         /\ sides' = [x \in Side |-> sides'[x]]
         /\ \A x \in Side : x # side => sides'[x] = sides[x]
         /\ w \in Write /\ Forward(w) /\ Sound(sides[side])
         /\ \/ sides'[side] = sides[side]
            \/ sides'[side] = Perform(sides[side], w).store
         /\ result.outcome = "ok" => /\ sides'[side] = Perform(sides[side], w).store
                                     /\ Perform(sides[side], w).outcome = "ok"
<1>1. w \in Write /\ Forward(w)
  BY SetupFacts DEF Base, Shape
<1>2. Sound(sides[side])
  BY DEF Base, Shape, SidesSound, Sound
<1> DEFINE served == Perform(sides[side], w)
<1>3. Good(sides[side], served.store)
  <2> DEFINE st == sides[side]
  <2>1. Good(st, Perform(st, w).store)
    BY <1>1, <1>2, PerformGood
  <2> QED
    BY <2>1
<1>4. /\ result.store = sides[side] \/ result.store = served.store
      /\ result.outcome = "ok" => result = served
  BY AttemptFacts
<1> HIDE DEF served
<1>5. Good(sides[side], result.store)
  BY <1>2, <1>3, <1>4, SameIsGood
<1>6. /\ \A x \in Side : Good(sides[x], sides'[x])
      /\ sides' = [x \in Side |-> sides'[x]]
      /\ sides'[side] = result.store
      /\ \A x \in Side : x # side => sides'[x] = sides[x]
  BY <1>5, TookGood DEF Base
<1> QED
  BY <1>1, <1>2, <1>4, <1>6 DEF served

(* The first side is asked. *)
LEMMA FirstHolds ==
  ASSUME Base, ReplayHolds, First
  PROVE  Base' /\ ReplayHolds'
<1>1. /\ call.pc = "first" /\ UNCHANGED <<setup, policy, serving, divergences, replay>>
  BY DEF First
<1>2. call.write \in setup.writes /\ Valid(call.write) /\ replay.pc = "idle"
  BY <1>1 DEF Base, OneAtATime
<1>3. PICK result \in Attempts(WriteOrder[1], Perform(sides[WriteOrder[1]], call.write)) :
        /\ Took(WriteOrder[1], result)
        /\ IF result.outcome = "ok" THEN call' = [call EXCEPT !.pc = "second"]
                                    ELSE Respond(result.outcome)
  BY DEF First
<1>4. /\ \A x \in Side : Good(sides[x], sides'[x])
      /\ sides' = [x \in Side |-> sides'[x]]
  BY <1>2, <1>3, AttemptGives, OrderFacts DEF Base
<1>5. /\ DOMAIN call' = {"pc", "write", "answer"}
      /\ call'.pc \in {"first", "second"} => call'.write = call.write
  BY <1>3, Responded DEF Base, Shape
<1>6. divergences' \in Seq(Divergence) /\ serving' \in [Side -> BOOLEAN]
  BY <1>1 DEF Base, Shape
<1>7. AllFrom(divergences)'
  <2>1. WriteOrder' = WriteOrder
    BY <1>1 DEF WriteOrder
  <2> QED
    BY <1>1, <2>1 DEF Base, OneWay, AllFrom
<1> QED
  BY <1>1, <1>2, <1>4, <1>5, <1>6, <1>7, Aside DEF Working

(* What a write that lost is recorded as. *)
LEMMA DivergenceTyped ==
  ASSUME NEW w \in Write, Valid(w), NEW source \in Side
  PROVE  DivergenceOf(w, source) \in Divergence /\ DivergenceOf(w, source).source = source
<1> DEFINE d == DivergenceOf(w, source)
<1>1. /\ d = [subject |-> d.subject, revision |-> d.revision, source |-> source,
              record_id |-> d.record_id]
      /\ d.source = source
  <2>1. PICK s, r, named :
          d = [subject |-> s, revision |-> r, source |-> source, record_id |-> named]
    BY Zenon DEF DivergenceOf
  <2> QED
    BY <2>1
<1>2. CASE w.kind = "commit"
  <2>1. w.document.instance \in Instance
    BY <1>2 DEF Write, Decision
  <2>2. /\ d.subject = w.document.instance.subject
        /\ d.revision = w.document.instance.revision /\ d.record_id = None
    BY <1>2 DEF DivergenceOf, SubjectOf
  <2> QED
    BY <1>1, <2>1, <2>2, InstanceFacts DEF Divergence
<1>3. CASE w.kind = "commit_recorded"
  <2>1. w.document \in RecordedCommit /\ CommitValid(w.document)
    BY <1>3 DEF Write, Valid
  <2>2. w.document.instance \in Instance /\ w.document.envelope.record_id \in RecordIds
    BY <2>1 DEF CommitValid, RecordedCommit, Envelope, RecordId
  <2>3. /\ d.subject = w.document.instance.subject
        /\ d.revision = w.document.instance.revision
        /\ d.record_id = w.document.envelope.record_id
    BY <1>3 DEF DivergenceOf, SubjectOf
  <2> QED
    BY <1>1, <2>2, <2>3, InstanceFacts DEF Divergence
<1>4. CASE w.kind = "observe"
  <2>1. w.document \in RecordedObservation /\ ObservationValid(w.document)
    BY <1>4 DEF Write, Valid
  <2>2. /\ w.document.subject \in Subjects /\ w.document.revision \in Nat
        /\ w.document.record_id \in RecordIds
    BY <2>1 DEF ObservationValid, RecordedObservation, RecordId
  <2>3. /\ d.subject = w.document.subject /\ d.revision = w.document.revision
        /\ d.record_id = w.document.record_id
    BY <1>4 DEF DivergenceOf, SubjectOf
  <2> QED
    BY <1>1, <2>2, <2>3 DEF Divergence
<1> QED
  BY <1>2, <1>3, <1>4 DEF Write

(* The second side is asked. *)
LEMMA SecondHolds ==
  ASSUME Base, ReplayHolds, Second
  PROVE  Base' /\ ReplayHolds'
<1>1. /\ call.pc = "second" /\ UNCHANGED <<setup, policy, serving, replay>>
  BY DEF Second
<1>2. call.write \in setup.writes /\ Valid(call.write) /\ replay.pc = "idle"
  BY <1>1 DEF Base, OneAtATime
<1>3. PICK result \in Attempts(WriteOrder[2], Perform(sides[WriteOrder[2]], call.write)) :
        /\ Took(WriteOrder[2], result)
        /\ \/ Respond("ok") /\ UNCHANGED divergences
           \/ /\ divergences' = Diverged(call.write)
              /\ \E answer \in {"ok", result.outcome} : Respond(answer)
  BY DEF Second
<1>4. /\ \A x \in Side : Good(sides[x], sides'[x])
      /\ sides' = [x \in Side |-> sides'[x]]
      /\ call.write \in Write
  BY <1>2, <1>3, AttemptGives, OrderFacts DEF Base
<1>5. DOMAIN call' = {"pc", "write", "answer"} /\ call'.pc = "idle"
  BY <1>3, Responded
<1>6. serving' \in [Side -> BOOLEAN]
  BY <1>1 DEF Base, Shape
<1>7. divergences' \in Seq(Divergence) /\ AllFrom(divergences)'
  <2>1. WriteOrder' = WriteOrder
    BY <1>1 DEF WriteOrder
  <2>2. divergences \in Seq(Divergence) /\ AllFrom(divergences)
    BY DEF Base, Shape, OneWay
  <2>3. CASE divergences' = divergences
    BY <2>1, <2>2, <2>3 DEF AllFrom
  <2>4. CASE divergences' = Diverged(call.write)
    <3> DEFINE d == DivergenceOf(call.write, WriteOrder[1])
    <3>1. d \in Divergence /\ d.source = WriteOrder[1]
      BY <1>2, <1>4, DivergenceTyped, OrderFacts DEF Base
    <3>2. divergences' = Append(divergences, d)
      BY <2>4 DEF Diverged
    <3> HIDE DEF d
    <3>3. \A i \in DOMAIN divergences' : divergences'[i].source = WriteOrder[1]
      BY <2>2, <3>1, <3>2, AppendFacts DEF AllFrom
    <3> QED
      BY <2>1, <2>2, <3>1, <3>2, <3>3 DEF AllFrom
  <2> QED
    BY <1>3, <2>3, <2>4
<1> QED
  BY <1>1, <1>2, <1>4, <1>5, <1>6, <1>7, Aside DEF Working

(* Another client writes to the remote. *)
LEMMA OtherClientHolds ==
  ASSUME Base, ReplayHolds, NEW w \in setup.rivals, OtherClient(w)
  PROVE  /\ Base' /\ ReplayHolds'
         /\ Good(sides["remote"], sides'["remote"]) /\ sides'["local"] = sides["local"]
<1>1. /\ UNCHANGED <<setup, policy, serving, divergences, call, replay>>
      /\ sides' = [sides EXCEPT !["remote"] = Perform(@, w).store]
      /\ "remote" \in Side /\ "local" \in Side
  BY DEF OtherClient, Side
<1>2. w \in Write /\ Forward(w)
  BY SetupFacts DEF Base, Shape
<1> DEFINE st == sides["remote"]
<1>3. Sound(st)
  BY <1>1 DEF Base, Shape, SidesSound, Sound
<1>4. Good(st, Perform(st, w).store)
  BY <1>2, <1>3, PerformGood
<1> DEFINE result == Perform(st, w)
<1>5. Took("remote", result)
  BY <1>1 DEF Took
<1>6. /\ \A x \in Side : Good(sides[x], sides'[x])
      /\ sides' = [x \in Side |-> sides'[x]]
      /\ sides'["local"] = sides["local"]
  BY <1>1, <1>4, <1>5, TookGood DEF Base
<1>7. /\ divergences' \in Seq(Divergence) /\ serving' \in [Side -> BOOLEAN]
      /\ DOMAIN call' = {"pc", "write", "answer"}
  BY <1>1 DEF Base, Shape
<1>8. AllFrom(divergences)'
  <2>1. WriteOrder' = WriteOrder
    BY <1>1 DEF WriteOrder
  <2> QED
    BY <1>1, <2>1 DEF Base, OneWay, AllFrom
<1>9. /\ replay.pc # "idle" => call'.pc = "idle"
      /\ call'.pc \in {"first", "second"} => call'.write \in setup.writes /\ Valid(call'.write)
  BY <1>1, Zenon DEF Base, OneAtATime
<1>10. Base' /\ ReplayHolds'
  BY <1>1, <1>6, <1>7, <1>8, <1>9, Aside
<1> QED
  BY <1>1, <1>6, <1>10

(* What the steps that start, stop and hand back divergences share. *)
LEMMA Afresh ==
  ASSUME Base, UNCHANGED <<setup, policy, sides, serving, call>>, call.pc = "idle",
         divergences' \in Seq(Divergence), ReplayShaped',
         replay'.pc \in {"idle", "remember", "next"},
         replay'.pc = "next" => replay'.at = 1,
         replay'.pc = "remember" => replay'.todo # << >>,
         AllFrom(divergences'), AllFrom(replay'.taken), AllFrom(replay'.todo),
         AllFrom(replay'.still)
  PROVE  Base' /\ ReplayHolds'
<1>1. SidesSound' /\ \A x \in Side : Shaped(sides'[x])
  BY BaseUnmoved, SidesSoundNext
<1>2. Shape'
  BY <1>1, Zenon DEF Base, Shape
<1>3. OneAtATime'
  BY DEF Base, OneAtATime
<1>4. OneWay'
  <2>1. WriteOrder' = WriteOrder
    BY DEF WriteOrder
  <2> QED
    BY <2>1 DEF OneWay, AllFrom
<1>5. ReplayHolds'
  BY NothingKnown
<1> QED
  BY <1>1, <1>2, <1>3, <1>4, <1>5 DEF Base

(* A catch-up starts with the divergences recorded. *)
LEMMA CatchUpHolds ==
  ASSUME Base, CatchUp
  PROVE  Base' /\ ReplayHolds'
<1>1. /\ UNCHANGED <<setup, policy, sides, serving, call>> /\ call.pc = "idle"
      /\ divergences' = << >>
      /\ replay' = [NoReplay EXCEPT !.pc = "next", !.taken = divergences,
                                    !.todo = divergences]
  BY DEF CatchUp, Resting
<1>2. /\ Unread(replay') /\ replay'.pc = "next" /\ replay'.taken = divergences
      /\ replay'.todo = divergences /\ replay'.still = << >>
  BY <1>1 DEF NoReplay, Fields, Unread
<1>3. divergences \in Seq(Divergence) /\ AllFrom(divergences)
  BY DEF Base, Shape, OneWay
<1>4. << >> \in Seq(Divergence) /\ AllFrom(<< >>)
  BY DEF AllFrom
<1>5. ReplayShaped' /\ replay'.at = 1
  BY <1>2, <1>3, <1>4, UnreadShaped
<1> QED
  BY <1>1, <1>2, <1>3, <1>4, <1>5, Afresh

(* The process stops; its successor is handed the divergences saved. *)
LEMMA RestartHolds ==
  ASSUME Base, Restart
  PROVE  Base' /\ ReplayHolds'
<1>1. /\ UNCHANGED <<setup, policy, sides, serving, call>> /\ call.pc = "idle"
      /\ divergences' = << >>
  BY DEF Restart
<1>2. Saved \in Seq(Divergence) /\ AllFrom(Saved)
  BY DEF Base, Shape, ReplayShaped, OneWay, Saved
<1>3. << >> \in Seq(Divergence) /\ AllFrom(<< >>)
  BY DEF AllFrom
<1>4. CASE replay' = NoReplay
  BY <1>1, <1>3, <1>4, RestShaped, Afresh
<1>5. CASE /\ Saved # << >>
           /\ replay' = [NoReplay EXCEPT !.pc = "remember", !.taken = Saved, !.todo = Saved]
  <2>1. /\ Unread(replay') /\ replay'.pc = "remember" /\ replay'.taken = Saved
        /\ replay'.todo = Saved /\ replay'.still = << >>
    BY <1>5 DEF NoReplay, Fields, Unread
  <2>2. ReplayShaped'
    BY <1>2, <1>3, <2>1, UnreadShaped
  <2> QED
    BY <1>1, <1>2, <1>3, <1>5, <2>1, <2>2, Afresh
<1> QED
  BY <1>4, <1>5 DEF Restart

(* One divergence is handed back. *)
LEMMA rememberHolds ==
  ASSUME Base, remember
  PROVE  Base' /\ ReplayHolds'
<1>1. /\ UNCHANGED <<setup, policy, sides, serving, call>> /\ replay.pc = "remember"
      /\ replay.todo # << >> /\ call.pc = "idle"
  BY DEF remember, At, Base, OneAtATime
<1>2. /\ replay.todo \in Seq(Divergence) /\ divergences \in Seq(Divergence)
      /\ AllFrom(divergences) /\ AllFrom(replay.todo)
      /\ AllFrom(replay.taken) /\ AllFrom(replay.still)
  BY DEF Base, Shape, ReplayShaped, OneWay
<1>3. Current \in Divergence /\ Current.source = WriteOrder[1]
  BY <1>1, <1>2 DEF AllFrom, Current
<1>4. divergences' \in Seq(Divergence) /\ AllFrom(divergences')
  <2>1. CASE divergences' = divergences
    BY <1>2, <2>1
  <2>2. CASE divergences' = Append(divergences, Current)
    <3>1. \A i \in DOMAIN divergences' : divergences'[i].source = WriteOrder[1]
      BY <1>2, <1>3, <2>2, AppendFacts DEF AllFrom
    <3> QED
      BY <1>2, <1>3, <2>2, <3>1 DEF AllFrom
  <2> QED
    BY <2>1, <2>2 DEF remember
<1>5. << >> \in Seq(Divergence) /\ AllFrom(<< >>)
  BY DEF AllFrom
<1>6. CASE replay' = NoReplay
  BY <1>1, <1>4, <1>5, <1>6, RestShaped, Afresh
<1>7. CASE Tail(replay.todo) # << >> /\ replay' = [replay EXCEPT !.todo = Tail(@)]
  <2>1. /\ Tail(replay.todo) \in Seq(Divergence)
        /\ \A i \in DOMAIN Tail(replay.todo) :
             i + 1 \in DOMAIN replay.todo /\ Tail(replay.todo)[i] = replay.todo[i + 1]
    BY <1>1, <1>2
  <2>2. AllFrom(Tail(replay.todo))
    BY SMTT(40), <1>2, <2>1 DEF AllFrom
  <2>3. /\ DOMAIN replay' = Fields /\ replay'.todo = Tail(replay.todo)
        /\ replay'.pc = replay.pc /\ replay'.taken = replay.taken
        /\ replay'.still = replay.still /\ replay'.records = replay.records
        /\ replay'.observations = replay.observations
        /\ replay'.existing = replay.existing /\ replay'.revision = replay.revision
        /\ replay'.at = replay.at /\ replay'.next = replay.next
        /\ replay'.upto = replay.upto /\ replay'.after = replay.after
        /\ replay'.instance = replay.instance
    BY <1>7 DEF Base, Shape, ReplayShaped, Fields
  <2>4. ReplayShaped'
    BY <2>1, <2>3 DEF Base, Shape, ReplayShaped
  <2> QED
    BY <1>1, <1>2, <1>4, <1>7, <2>2, <2>3, <2>4, Afresh
<1> QED
  BY <1>6, <1>7 DEF remember

-----------------------------------------------------------------------------
(* A store that writes to the remote first never gets ahead of it. *)

(* Every entry of one sequence is in another. *)
AllIn(a, b) == \A i \in DOMAIN a : \E j \in DOMAIN b : a[i] = b[j]

(* Every record and observation of a subject that one store holds, another *)
(* holds too.                                                              *)
Within(s, here, there) ==
  /\ AllIn(here.records[s], there.records[s])
  /\ AllIn(here.observations[s], there.observations[s])

(* One sequence holds all the entries of another. *)
LEMMA SetWithin ==
  ASSUME NEW a, NEW b
  PROVE  ToSet(a) \ ToSet(b) = {} <=> AllIn(a, b)
<1>1. ASSUME ToSet(a) \ ToSet(b) = {}, NEW i \in DOMAIN a
      PROVE  \E j \in DOMAIN b : a[i] = b[j]
  <2>1. a[i] \in ToSet(a)
    BY DEF ToSet
  <2>2. a[i] \in ToSet(b)
    BY <1>1, <2>1
  <2> QED
    BY <2>2 DEF ToSet
<1>2. ASSUME \A i \in DOMAIN a : \E j \in DOMAIN b : a[i] = b[j],
             NEW x \in ToSet(a) \ ToSet(b)
      PROVE  FALSE
  BY <1>2 DEF ToSet
<1> QED
  BY <1>1, <1>2 DEF AllIn

(* Nothing is missing when every entry is held. *)
LEMMA WithinIs ==
  ASSUME NEW s
  PROVE  ~Missing(s, "local", "remote") <=> Within(s, sides["local"], sides["remote"])
<1>1. /\ ToSet(sides["local"].records[s]) \ ToSet(sides["remote"].records[s]) = {} <=>
           AllIn(sides["local"].records[s], sides["remote"].records[s])
      /\ ToSet(sides["local"].observations[s]) \ ToSet(sides["remote"].observations[s]) = {} <=>
           AllIn(sides["local"].observations[s], sides["remote"].observations[s])
  BY SetWithin, SMT
<1> QED
  BY <1>1, Zenon DEF Missing, Within

(* A store that has moved on holds what it held. *)
LEMMA WithinKept ==
  ASSUME NEW s \in Subjects, NEW here, NEW there, NEW now,
         Within(s, here, there), Continues(there, now)
  PROVE  Within(s, here, now)
<1>1. /\ Keeps(there.records[s], now.records[s])
      /\ Keeps(there.observations[s], now.observations[s])
  BY DEF Continues
<1> QED
  BY <1>1 DEF Within, AllIn, Keeps

(* A store that took what another holds is still within it. *)
LEMMA WithinGrown ==
  ASSUME NEW s, NEW here, NEW there, NEW now, Within(s, here, there),
         \A i \in DOMAIN now.records[s] :
           \/ \E j \in DOMAIN here.records[s] : now.records[s][i] = here.records[s][j]
           \/ \E j \in DOMAIN there.records[s] : now.records[s][i] = there.records[s][j],
         \A i \in DOMAIN now.observations[s] :
           \/ \E j \in DOMAIN here.observations[s] :
                now.observations[s][i] = here.observations[s][j]
           \/ \E j \in DOMAIN there.observations[s] :
                now.observations[s][i] = there.observations[s][j]
  PROVE  Within(s, now, there)
  BY DEF Within, AllIn

(* The remote holds the document of the write under way. *)
Named(w, store) ==
  /\ w.kind = "commit_recorded" => store.record_ids[w.document.envelope.record_id] = w.document
  /\ w.kind = "observe" => store.record_ids[w.document.record_id] = w.document

(* The invariant in these words. *)
LEMMA NeverAheadIs ==
  NeverAhead <=>
    (WriteOrder[1] = "remote" =>
       /\ \A s \in Subjects : Within(s, sides["local"], sides["remote"])
       /\ call.pc = "second" => Named(call.write, sides["remote"]))
  BY WithinIs, Zenon DEF NeverAhead, Named

(* A write that one store takes adds what another holds that named it. *)
LEMMA NamedIsWithin ==
  ASSUME NEW here, Sound(here), NEW there, Sound(there), NEW w \in Write, Forward(w),
         Valid(w), Named(w, there), \A s \in Subjects : Within(s, here, there)
  PROVE  \A s \in Subjects : Within(s, Perform(here, w).store, there)
<1> SUFFICES ASSUME NEW s \in Subjects PROVE Within(s, Perform(here, w).store, there)
  OBVIOUS
<1> DEFINE now == Perform(here, w).store
<1>1. Absent \notin Nat
  BY StoreAssumption
<1>2. CASE w.kind = "commit"
  <2>1. w.document \in Decision /\ (w.expect \in Nat => w.expect < w.document.instance.revision)
    BY <1>1, <1>2 DEF Write, Forward
  <2>2. w.document.instance \in Instance
    BY <2>1 DEF Decision
  <2>3. /\ commit(here, w.document, w.expect).store.records = here.records
        /\ commit(here, w.document, w.expect).store.observations = here.observations
    BY <2>1, <2>2, CommitGood
  <2>4. now.records = here.records /\ now.observations = here.observations
    BY <1>2, <2>3 DEF Perform
  <2> QED
    BY <2>4 DEF Within
<1>3. CASE w.kind = "commit_recorded"
  <2> DEFINE d == w.document
             z == d.instance.subject
  <2>1. /\ d \in RecordedCommit /\ CommitValid(d)
        /\ w.expect \in Nat => w.expect < d.instance.revision
        /\ there.record_ids[d.envelope.record_id] = d
    BY <1>1, <1>3 DEF Write, Forward, Valid, Named
  <2>2. Written(here, d, w.expect, Perform(here, w))
    <3>1. Perform(here, w) = commit_recorded(here, d, w.expect)
      BY <1>3 DEF Perform
    <3> HIDE DEF d
    <3> QED
      BY <2>1, <3>1, CommitRecordedGood
  <2>3. z \in Subjects /\ Holds(there, z, d.envelope) /\ d.envelope \in Envelope
    BY <2>1, NamedDecision DEF RecordedCommit, Instance
  <2>4. here.records[s] \in Seq(Envelope)
    BY ShapedFacts DEF Sound
  <2> HIDE DEF now, d, z
  <2>5. \A i \in DOMAIN now.records[s] :
          \/ \E j \in DOMAIN here.records[s] : now.records[s][i] = here.records[s][j]
          \/ \E j \in DOMAIN there.records[s] : now.records[s][i] = there.records[s][j]
    <3>1. CASE now = here \/ s # z
      BY <2>2, <3>1 DEF Written, now, z
    <3>2. CASE now # here /\ s = z
      <4>1. now.records[s] = Append(here.records[s], d.envelope)
        BY <2>2, <3>2 DEF Written, now, z
      <4>2. \E j \in DOMAIN there.records[s] : there.records[s][j] = d.envelope
        BY <2>3, <3>2 DEF Holds
      <4> QED
        BY <2>3, <2>4, <4>1, <4>2, AppendFacts
    <3> QED
      BY <3>1, <3>2
  <2>6. now.observations = here.observations
    BY <2>2 DEF Written, now
  <2> QED
    BY <2>5, <2>6, WithinGrown DEF now
<1>4. CASE w.kind = "observe"
  <2> DEFINE o == w.document
             z == o.subject
             res == observe(here, o)
  <2>1. /\ o \in RecordedObservation /\ ObservationValid(o)
        /\ there.record_ids[o.record_id] = o
    BY <1>4 DEF Write, Valid, Named
  <2>2. /\ res.store.records = here.records
        /\ \A x \in Subjects : x # o.subject =>
             res.store.observations[x] = here.observations[x]
        /\ res.store # here =>
             res.store.observations[o.subject] = Append(here.observations[o.subject], o)
    <3> HIDE DEF o
    <3> QED
      BY <2>1, ObserveGood
  <2>3. now = res.store
    BY <1>4 DEF Perform
  <2>4. /\ z \in Subjects
        /\ \E j \in DOMAIN there.observations[z] : there.observations[z][j] = o
    BY <2>1, NamedObservation DEF RecordedObservation
  <2>5. here.observations[s] \in Seq(RecordedObservation)
    BY ShapedFacts DEF Sound
  <2> HIDE DEF now, o, res
  <2>6. \A i \in DOMAIN now.observations[s] :
          \/ \E j \in DOMAIN here.observations[s] :
               now.observations[s][i] = here.observations[s][j]
          \/ \E j \in DOMAIN there.observations[s] :
               now.observations[s][i] = there.observations[s][j]
    <3>1. CASE now = here \/ s # z
      BY <2>2, <2>3, <3>1
    <3>2. CASE now # here /\ s = z
      <4>1. now.observations[s] = Append(here.observations[s], o)
        BY <2>2, <2>3, <3>2
      <4> HIDE DEF z
      <4> QED
        BY <2>1, <2>4, <2>5, <3>2, <4>1, AppendFacts
    <3> QED
      BY <3>1, <3>2
  <2>7. now.records = here.records
    BY <2>2, <2>3
  <2> QED
    BY <2>6, <2>7, WithinGrown DEF now
<1> QED
  BY <1>2, <1>3, <1>4 DEF Write

(* A served write leaves its document named. *)
LEMMA ServedIsNamed ==
  ASSUME NEW st, Sound(st), NEW w \in Write, Forward(w), Perform(st, w).outcome = "ok"
  PROVE  Named(w, Perform(st, w).store)
<1>1. Absent \notin Nat
  BY StoreAssumption
<1>2. CASE w.kind = "commit"
  BY <1>2 DEF Named
<1>3. CASE w.kind = "commit_recorded"
  <2> DEFINE d == w.document
  <2>1. /\ d \in RecordedCommit
        /\ w.expect \in Nat => w.expect < d.instance.revision
    BY <1>1, <1>3 DEF Write, Forward
  <2>2. Written(st, d, w.expect, Perform(st, w))
    <3>1. Perform(st, w) = commit_recorded(st, d, w.expect)
      BY <1>3 DEF Perform
    <3> HIDE DEF d
    <3> QED
      BY <2>1, <3>1, CommitRecordedGood
  <2> QED
    BY <1>3, <2>2 DEF Named, Written
<1>4. CASE w.kind = "observe"
  <2> DEFINE o == w.document
             res == observe(st, o)
  <2>1. o \in RecordedObservation /\ Perform(st, w) = res
    BY <1>4 DEF Write, Perform
  <2>2. res.outcome = "ok" => res.store.record_ids[o.record_id] = o
    <3> HIDE DEF o
    <3> QED
      BY <2>1, ObserveGood
  <2> QED
    BY <1>4, <2>1, <2>2 DEF Named
<1> QED
  BY <1>2, <1>3, <1>4 DEF Write

(* What was named stays named. *)
LEMMA NamedKept ==
  ASSUME NEW w \in Write, Valid(w), NEW old, NEW new, Named(w, old), Continues(old, new)
  PROVE  Named(w, new)
<1>1. CASE w.kind = "commit_recorded"
  <2>1. w.document \in RecordedCommit /\ w.document.envelope.record_id \in RecordIds
    BY <1>1 DEF Write, Valid, CommitValid, RecordedCommit, Envelope, RecordId
  <2>2. w.document # None
    BY <2>1, StoreAssumption DEF Document
  <2> QED
    BY <1>1, <2>1, <2>2 DEF Named, Continues
<1>2. CASE w.kind = "observe"
  <2>1. w.document \in RecordedObservation /\ w.document.record_id \in RecordIds
    BY <1>2 DEF Write, Valid, ObservationValid, RecordedObservation, RecordId
  <2>2. w.document # None
    BY <2>1, StoreAssumption DEF Document
  <2> QED
    BY <1>2, <2>1, <2>2 DEF Named, Continues
<1>3. CASE w.kind = "commit"
  BY <1>3 DEF Named
<1> QED
  BY <1>1, <1>2, <1>3 DEF Write

(* A step that keeps every record of the local store within the remote one. *)
LEMMA StillWithin ==
  ASSUME policy' = policy,
         WriteOrder[1] = "remote" =>
           /\ \A s \in Subjects : Within(s, sides'["local"], sides'["remote"])
           /\ call'.pc = "second" => Named(call'.write, sides'["remote"])
  PROVE  NeverAhead'
<1>1. (NeverAhead <=>
         (WriteOrder[1] = "remote" =>
            /\ \A s \in Subjects : Within(s, sides["local"], sides["remote"])
            /\ call.pc = "second" => Named(call.write, sides["remote"])))'
  BY NeverAheadIs, PTL
<1>2. WriteOrder' = WriteOrder
  BY DEF WriteOrder
<1> QED
  BY <1>1, <1>2

(* A step that moves neither side and asks no second one. *)
LEMMA StillThere ==
  ASSUME NeverAhead, UNCHANGED <<policy, sides>>, UNCHANGED call \/ call'.pc # "second"
  PROVE  NeverAhead'
  BY NeverAheadIs, StillWithin

(* The first side of a write. *)
LEMMA FirstWithin ==
  ASSUME Base, NeverAhead, First
  PROVE  NeverAhead'
<1>1. /\ call.pc = "first" /\ UNCHANGED policy /\ call.write \in setup.writes
      /\ WriteOrder[1] \in Side
  BY OrderFacts DEF First, Base, OneAtATime
<1>2. PICK result \in Attempts(WriteOrder[1], Perform(sides[WriteOrder[1]], call.write)) :
        /\ Took(WriteOrder[1], result)
        /\ IF result.outcome = "ok" THEN call' = [call EXCEPT !.pc = "second"]
                                    ELSE Respond(result.outcome)
  BY DEF First
<1> SUFFICES ASSUME WriteOrder[1] = "remote"
             PROVE  /\ \A s \in Subjects : Within(s, sides'["local"], sides'["remote"])
                    /\ call'.pc = "second" => Named(call'.write, sides'["remote"])
  BY <1>1, StillWithin
<1>3. /\ \A x \in Side : Good(sides[x], sides'[x])
      /\ sides'["local"] = sides["local"]
      /\ call.write \in Write /\ Forward(call.write) /\ Sound(sides["remote"])
      /\ result.outcome = "ok" =>
           /\ sides'["remote"] = Perform(sides["remote"], call.write).store
           /\ Perform(sides["remote"], call.write).outcome = "ok"
  <2> HIDE DEF Good, Sound
  <2> QED
    BY <1>1, <1>2, AttemptGives DEF Side
<1>4. \A s \in Subjects : Within(s, sides'["local"], sides'["remote"])
  BY <1>3, NeverAheadIs, WithinKept DEF Good, Side
<1>5. CASE result.outcome = "ok"
  <2>1. call'.write = call.write
    BY <1>2, <1>5 DEF Base, Shape
  <2>2. Named(call.write, sides'["remote"])
    BY <1>3, <1>5, ServedIsNamed
  <2> QED
    BY <1>4, <2>1, <2>2
<1>6. CASE result.outcome # "ok"
  BY <1>2, <1>4, <1>6, Responded
<1> QED
  BY <1>5, <1>6

(* The second side of a write. *)
LEMMA SecondWithin ==
  ASSUME Base, NeverAhead, Second
  PROVE  NeverAhead'
<1>1. /\ call.pc = "second" /\ UNCHANGED policy /\ call.write \in setup.writes
      /\ WriteOrder[2] \in Side /\ Valid(call.write)
      /\ WriteOrder[1] = "remote" <=> WriteOrder[2] = "local"
  BY OrderFacts DEF Second, Base, OneAtATime
<1>2. PICK result \in Attempts(WriteOrder[2], Perform(sides[WriteOrder[2]], call.write)) :
        /\ Took(WriteOrder[2], result)
        /\ \E answer : Respond(answer)
  BY Zenon DEF Second
<1>3. call'.pc = "idle"
  BY <1>2, Responded
<1> SUFFICES ASSUME WriteOrder[1] = "remote"
             PROVE  \A s \in Subjects : Within(s, sides'["local"], sides'["remote"])
  BY <1>1, <1>3, StillWithin
<1>4. /\ sides'["remote"] = sides["remote"]
      /\ call.write \in Write /\ Forward(call.write) /\ Sound(sides["local"])
      /\ \/ sides'["local"] = sides["local"]
         \/ sides'["local"] = Perform(sides["local"], call.write).store
  <2> HIDE DEF Good, Sound
  <2> QED
    BY <1>1, <1>2, AttemptGives DEF Side
<1>5. /\ \A s \in Subjects : Within(s, sides["local"], sides["remote"])
      /\ Named(call.write, sides["remote"])
  BY <1>1, NeverAheadIs
<1>6. Sound(sides["remote"])
  BY DEF Base, SidesSound, Shape, Sound, Side
<1>7. \A s \in Subjects : Within(s, Perform(sides["local"], call.write).store, sides["remote"])
  BY <1>1, <1>4, <1>5, <1>6, NamedIsWithin
<1> QED
  BY <1>4, <1>5, <1>7

(* Another client writes to the remote. *)
LEMMA OtherClientWithin ==
  ASSUME Base, ReplayHolds, NeverAhead, NEW w \in setup.rivals, OtherClient(w)
  PROVE  NeverAhead'
<1>1. /\ UNCHANGED <<policy, call>> /\ sides'["local"] = sides["local"]
      /\ Continues(sides["remote"], sides'["remote"])
  BY OtherClientHolds DEF OtherClient, Good
<1>2. ASSUME WriteOrder[1] = "remote"
      PROVE  /\ \A s \in Subjects : Within(s, sides'["local"], sides'["remote"])
             /\ call'.pc = "second" => Named(call'.write, sides'["remote"])
  <2>1. \A s \in Subjects : Within(s, sides'["local"], sides'["remote"])
    BY <1>1, <1>2, NeverAheadIs, WithinKept
  <2>2. ASSUME call.pc = "second"
        PROVE  Named(call.write, sides'["remote"])
    <3>1. call.write \in Write /\ Valid(call.write)
      BY <2>2, SetupFacts DEF Base, OneAtATime, Shape
    <3> QED
      BY <1>1, <1>2, <2>2, <3>1, NeverAheadIs, NamedKept
  <2> QED
    BY <1>1, <2>1, <2>2
<1> QED
  BY <1>1, <1>2, StillWithin

(* The catch-up gives a store what it read from the other. *)
LEMMA CarriedWithin ==
  ASSUME Base, NeverAhead, Working, UNCHANGED <<policy, call>>,
         \A x \in Side : Good(sides[x], sides'[x]), sides'[Source] = sides[Source],
         \A z \in Subjects :
           /\ \A i \in DOMAIN sides'[Destination].records[z] :
                \/ \E j \in DOMAIN sides[Destination].records[z] :
                     sides'[Destination].records[z][i] = sides[Destination].records[z][j]
                \/ \E j \in DOMAIN sides[Source].records[z] :
                     sides'[Destination].records[z][i] = sides[Source].records[z][j]
           /\ \A i \in DOMAIN sides'[Destination].observations[z] :
                \/ \E j \in DOMAIN sides[Destination].observations[z] :
                     sides'[Destination].observations[z][i]
                       = sides[Destination].observations[z][j]
                \/ \E j \in DOMAIN sides[Source].observations[z] :
                     sides'[Destination].observations[z][i] = sides[Source].observations[z][j]
  PROVE  NeverAhead'
<1>1. /\ call'.pc = "idle" /\ Source \in Side /\ Destination \in Side
      /\ Source # Destination
  BY WorkingFacts, CurrentFacts DEF Base, OneAtATime, Working
<1> SUFFICES ASSUME WriteOrder[1] = "remote", NEW z \in Subjects
             PROVE  Within(z, sides'["local"], sides'["remote"])
  BY <1>1, StillWithin
<1>2. Within(z, sides["local"], sides["remote"])
  BY NeverAheadIs
<1>3. CASE Source = "local"
  BY <1>1, <1>2, <1>3, WithinKept DEF Side, Good
<1>4. CASE Source = "remote" /\ Destination = "local"
  <2>1. Within(z, sides'["local"], sides["remote"])
    BY <1>2, <1>4, WithinGrown
  <2> QED
    BY <1>4, <2>1
<1> QED
  BY <1>1, <1>3, <1>4 DEF Side

(* A step of the catch-up keeps the local store within the remote one. *)
LEMMA CatchUpStepWithin ==
  ASSUME Base, ReplayHolds, NeverAhead, CatchUpStep
  PROVE  NeverAhead'
<1>1. CASE UNCHANGED <<policy, call, sides>>
  BY <1>1, StillThere
<1>2. CASE RestoreObservation
  <2>1. /\ Working /\ UNCHANGED <<policy, call>> /\ replay.pc = "observe"
        /\ \A x \in Side : Good(sides[x], sides'[x])
        /\ sides'[Source] = sides[Source]
        /\ sides'[Destination].records = sides[Destination].records
        /\ replay.next \in DOMAIN replay.observations
        /\ \A z \in Subjects : \A i \in DOMAIN sides'[Destination].observations[z] :
             \/ \E j \in DOMAIN sides[Destination].observations[z] :
                  sides'[Destination].observations[z][i]
                    = sides[Destination].observations[z][j]
             \/ /\ z = Current.subject
                /\ sides'[Destination].observations[z][i] = Restoring
    BY <1>2, RestoreGives DEF Unmoved
  <2>2. \E j \in DOMAIN sides[Source].observations[Current.subject] :
          sides[Source].observations[Current.subject][j] = Restoring
    BY <2>1 DEF ReplayHolds, HistoryRead, Keeps, Restoring
  <2> QED
    BY <2>1, <2>2, CarriedWithin
<1>3. CASE CommitRecord
  <2> DEFINE e == replay.records[replay.at]
  <2>1. /\ Working /\ UNCHANGED <<policy, call>>
        /\ \A x \in Side : Good(sides[x], sides'[x])
        /\ sides'[Source] = sides[Source]
        /\ sides'[Destination].observations = sides[Destination].observations
        /\ \A z \in Subjects : \A i \in DOMAIN sides'[Destination].records[z] :
             \/ \E j \in DOMAIN sides[Destination].records[z] :
                  sides'[Destination].records[z][i] = sides[Destination].records[z][j]
             \/ z = Current.subject /\ sides'[Destination].records[z][i] = e
    BY <1>3, CommitGives DEF Unmoved
  <2>2. replay.at \in DOMAIN replay.records
    BY <1>3, CommitFacts DEF CommitRecord, At
  <2>3. \E j \in DOMAIN sides[Source].records[Current.subject] :
          sides[Source].records[Current.subject][j] = e
    BY <2>1, <2>2 DEF ReplayHolds, HistoryRead, Keeps
  <2> HIDE DEF e
  <2> QED
    BY <2>1, <2>3, CarriedWithin
<1>4. CASE Mirror
  <2>1. /\ Working /\ UNCHANGED <<policy, call>>
        /\ \A x \in Side : Good(sides[x], sides'[x])
        /\ sides'[Source] = sides[Source]
        /\ sides'[Destination].observations = sides[Destination].observations
        /\ sides'[Destination].records = sides[Destination].records
    BY <1>4, MirrorGives DEF Unmoved
  <2> QED
    BY <2>1, CarriedWithin
<1> QED
  BY <1>1, <1>2, <1>3, <1>4
    DEF CatchUpStep, Finish, ReadRecords, ReadObservations,
     ReadHeld, ReadExisting, ReplayRecord, CompareObservation, Restored, LoadSource,
     ReadEvents, Compare, Late, Unmoved

-----------------------------------------------------------------------------
(* Every step, and the theorems. *)

(* The empty store. *)
LEMMA EmptySound == Sound(EmptyStore)
<1>1. /\ EmptyStore.instances = [s \in Subjects |-> None]
      /\ EmptyStore.records = [s \in Subjects |-> << >>]
      /\ EmptyStore.observations = [s \in Subjects |-> << >>]
      /\ EmptyStore.record_ids = [r \in RecordIds |-> None]
  BY DEF EmptyStore
<1>2. << >> \in Seq(Envelope) /\ << >> \in Seq(RecordedObservation)
  OBVIOUS
<1>3. Shaped(EmptyStore)
  BY ZenonT(60), <1>1, <1>2, ShapedFields
<1>4. Covered(EmptyStore) /\ Placed(EmptyStore)
  BY <1>1 DEF Covered, Placed
<1>5. IndexIsExact(EmptyStore)
  <2>1. \A r \in RecordIds : NameHeld(EmptyStore, r)
    <3>1. None \notin RecordedCommit /\ None \notin RecordedObservation
      BY StoreAssumption DEF Document
    <3> QED
      BY <1>1, <3>1 DEF NameHeld
  <2> QED
    BY <1>1, <2>1 DEF IndexIsExact
<1> QED
  BY <1>3, <1>4, <1>5 DEF Sound

(* The state at the start. *)
LEMMA InvariantInit == Init => HybridInvariant
<1> SUFFICES ASSUME Init PROVE HybridInvariant
  OBVIOUS
<1>1. /\ setup \in Setups /\ policy \in Policies /\ divergences = << >>
      /\ sides = [side \in Side |-> EmptyStore] /\ call = Idle /\ replay = NoReplay
      /\ serving \in [Side -> BOOLEAN]
  BY DEF Init
<1>2. Shape
  <2>1. ReplayShaped
    BY <1>1 DEF ReplayShaped, NoReplay, Fields
  <2> QED
    BY <1>1, <2>1, EmptySound DEF Shape, Sound, Idle
<1>3. SidesSound
  BY <1>1, EmptySound DEF SidesSound, Sound
<1>4. /\ replay.pc = "idle" /\ replay.at = 1 /\ replay.todo = << >>
      /\ replay.taken = << >> /\ replay.still = << >> /\ call.pc = "idle"
  BY <1>1 DEF NoReplay, Idle
<1>5. OneAtATime /\ OneWay
  BY <1>1, <1>4 DEF OneAtATime, OneWay, AllFrom
<1>6. ReplayHolds
  BY <1>4 DEF ReplayHolds, Working, Replaying, Committing, HistoryRead, WayOn,
    Believed,
     OneStepOn, Ahead, Arrived, AllReplayed, Loaded, LocalStays
<1>7. NeverAhead
  <2>1. \A s \in Subjects : Within(s, sides["local"], sides["remote"])
    BY <1>1 DEF Side, Within, AllIn
  <2> QED
    BY <1>4, <2>1, NeverAheadIs
<1> QED
  BY <1>2, <1>3, <1>5, <1>6, <1>7 DEF HybridInvariant, Base

(* Every step keeps the invariant. *)
LEMMA InvariantKept == HybridInvariant /\ [Next]_vars => HybridInvariant'
<1> SUFFICES ASSUME Base, ReplayHolds, NeverAhead, [Next]_vars
             PROVE  Base' /\ ReplayHolds' /\ NeverAhead'
  BY DEF HybridInvariant
<1>1. ASSUME NEW side \in Side, Flip(side)
      PROVE  Base' /\ ReplayHolds' /\ NeverAhead'
  BY <1>1, FlipHolds, StillThere DEF Flip
<1>2. ASSUME NEW w \in setup.writes, Begin(w)
      PROVE  Base' /\ ReplayHolds' /\ NeverAhead'
  BY <1>2, BeginHolds, StillThere
<1>3. CASE First
  BY <1>3, FirstHolds, FirstWithin
<1>4. CASE Second
  BY <1>4, SecondHolds, SecondWithin
<1>5. ASSUME NEW w \in setup.rivals, OtherClient(w)
      PROVE  Base' /\ ReplayHolds' /\ NeverAhead'
  BY <1>5, OtherClientHolds, OtherClientWithin
<1>6. CASE CatchUp
  BY <1>6, CatchUpHolds, StillThere DEF CatchUp
<1>7. CASE CatchUpStep
  BY <1>7, CatchUpStepHolds, CatchUpStepWithin
<1>8. CASE Restart
  BY <1>8, RestartHolds, StillThere DEF Restart
<1>9. CASE remember
  BY <1>9, rememberHolds, StillThere DEF remember
<1>10. CASE UNCHANGED vars
  <2>1. UNCHANGED <<setup, policy, sides, serving, divergences, call, replay>>
    BY <1>10 DEF vars
  <2>2. NeverAhead'
    BY <2>1, StillThere
  <2>3. /\ \A x \in Side : Good(sides[x], sides'[x])
        /\ sides' = [x \in Side |-> sides'[x]]
    BY <2>1, BaseUnmoved
  <2>4. /\ serving' \in [Side -> BOOLEAN] /\ divergences' \in Seq(Divergence)
        /\ AllFrom(divergences)' /\ DOMAIN call' = {"pc", "write", "answer"}
        /\ replay.pc # "idle" => call'.pc = "idle"
        /\ call'.pc \in {"first", "second"} =>
             call'.write \in setup.writes /\ Valid(call'.write)
    BY <2>1 DEF Base, Shape, OneWay, OneAtATime, AllFrom, WriteOrder
  <2>5. Base' /\ ReplayHolds'
    BY <2>1, <2>3, <2>4, Aside
  <2> QED
    BY <2>2, <2>5
<1> QED
  BY <1>1, <1>2, <1>3, <1>4, <1>5, <1>6, <1>7, <1>8, <1>9, <1>10, Zenon DEF Next

(* The invariant of the hybrid store and of its catch-up holds throughout. *)
THEOREM Inductive == Spec => []HybridInvariant
  BY InvariantInit, InvariantKept, PTL DEF Spec

(* Freshness is relative to the declared authority: whatever side answered *)
(* and whatever outages and replays left on the two, a read that is not    *)
(* marked stale is what the authority holds (Hybrid::load_read,            *)
(* Hybrid::read_via_remote, StateProvider::load, ids, events).             *)
THEOREM HonestReads == Spec => []ReadsAreHonest
<1>1. HybridInvariant => ReadsAreHonest
  BY Honest DEF HybridInvariant, Base, Shape
<1> QED
  BY <1>1, Inductive, PTL

(* A store whose writes go to the remote first never holds a record or an  *)
(* observation the remote lacks: no lost write is silent (Hybrid::write,   *)
(* Hybrid::catch_up).                                                      *)
THEOREM RemoteFirstIsNeverSilent == Spec => [](WriteOrder[1] = "remote" => NeverSilent)
<1>1. HybridInvariant => (WriteOrder[1] = "remote" => NeverSilent)
  BY DEF HybridInvariant, NeverAhead, NeverSilent
<1> QED
  BY <1>1, Inductive, PTL

(* A write that catch_up makes at a revision finds the destination there. *)
LEMMA FoundThere ==
  ASSUME Shape, NEW held \in Instance \cup {None}, held # None,
         check(Expected, held.revision)
  PROVE  replay.revision # None /\ replay.revision = held.revision
<1>1. Absent \notin Nat /\ None \notin Nat /\ held.revision \in Nat
  BY StoreAssumption, InstanceFacts
<1>2. replay.revision \in Nat \cup {None}
  BY DEF Shape, ReplayShaped
<1> QED
  BY <1>1, <1>2 DEF check, Expected

(* What catch_up replaces on the destination. *)
LEMMA NothingForeign ==
  ASSUME HybridInvariant, CatchUpStep, sides' # sides, replay.records # << >>,
         Source = "local" =>
           Last(replay.records).result = sides["local"].instances[Current.subject],
         sides[Destination].instances[Current.subject] # None,
         sides[Destination].instances[Current.subject]
           # sides'[Destination].instances[Current.subject]
  PROVE  \E i \in DOMAIN replay.records :
           replay.records[i].result = sides[Destination].instances[Current.subject]
<1> DEFINE s == Current.subject
           held == sides[Destination].instances[s]
<1>1. Base /\ ReplayHolds
  BY DEF HybridInvariant
<1>2. RestoreObservation \/ CommitRecord \/ Mirror
  BY DEF CatchUpStep, Finish, ReadRecords, ReadObservations, ReadHeld,
    ReadExisting,
     ReplayRecord, CompareObservation, Restored, LoadSource, ReadEvents, Compare, Late
<1>3. CASE RestoreObservation
  BY <1>1, <1>3, RestoreGives
<1>4. ASSUME Working
      PROVE  /\ held \in Instance \cup {None} /\ s \in Subjects /\ Replaying
             /\ Destination \in Side /\ Shaped(sides[Destination])
             /\ sides[Destination] # sides'[Destination]
             /\ check(Expected, revision_of(sides[Destination], s)) =>
                  replay.revision # None /\ replay.revision = held.revision
  <2>1. s \in Subjects /\ Destination \in Side
    BY <1>1, <1>4, WorkingFacts DEF Base
  <2>2. Shaped(sides[Destination])
    BY <1>1, <2>1 DEF Base, Shape
  <2>3. held \in Instance \cup {None}
    BY <2>1, <2>2, ShapedFacts
  <2>4. /\ revision_of(sides[Destination], s) = held.revision
        /\ sides[Destination] # sides'[Destination]
    BY DEF revision_of
  <2>5. Shape /\ held # None
    BY <1>1 DEF Base
  <2> HIDE DEF held, s
  <2>6. check(Expected, held.revision) =>
          replay.revision # None /\ replay.revision = held.revision
    BY <2>3, <2>5, FoundThere
  <2> QED
    BY <1>4, <2>1, <2>2, <2>3, <2>4, <2>6 DEF Replaying
<1>5. CASE CommitRecord
  <2>1. replay.pc = "commit" /\ Working
    BY <1>1, <1>5, CommitGives
  <2>2. check(Expected, revision_of(sides[Destination], s))
    BY <1>1, <1>4, <1>5, <2>1, CommitGives
  <2>3. replay.revision # None /\ replay.revision = held.revision /\ Replaying
    BY <1>4, <2>1, <2>2
  <2> QED
    BY <1>1, <2>1, <2>3 DEF ReplayHolds, Believed
<1>6. CASE Mirror
  <2>1. replay.pc = "mirror" /\ Working
    BY <1>1, <1>6, MirrorGives
  <2>2. check(Expected, revision_of(sides[Destination], s))
    BY <1>1, <1>4, <1>6, <2>1, MirrorGives
  <2>3. replay.revision # None /\ replay.revision = held.revision /\ Replaying
    BY <1>4, <2>1, <2>2
  <2>4. CASE Source = "remote"
    <3>1. Destination = "local"
      BY <2>4 DEF Destination, Other
    <3> QED
      BY <1>1, <2>1, <2>3, <2>4, <3>1 DEF ReplayHolds, LocalStays
  <2>5. CASE Source = "local"
    <3> DEFINE n == Len(replay.records)
    <3>1. replay.records \in Seq(Envelope) /\ n \in DOMAIN replay.records /\ n \in Nat
      BY <1>1 DEF Base, Shape, ReplayShaped
    <3>2. replay.records[n].result = replay.instance
      BY <1>1, <2>1, <2>5 DEF ReplayHolds, Loaded, Last
    <3>3. replay.after = "cleared" /\ replay.at \in Nat
      BY <1>1, <2>1, <2>3 DEF ReplayHolds, WayOn, Base, Shape, ReplayShaped
    <3>4. n < replay.at
      BY <1>1, <2>1, <2>3, <3>3 DEF ReplayHolds, AllReplayed
    <3>5. Holds(sides[Destination], s, replay.records[n])
      BY <1>1, <2>1, <2>3, <3>1, <3>4 DEF ReplayHolds, Arrived
    <3>6. NotPast(replay.instance, held)
      BY <1>1, <1>4, <2>1, <3>2, <3>5 DEF Base, SidesSound, Covered, Holds
    <3>7. held.revision < replay.instance.revision
      BY <1>1, <2>1, <2>3 DEF ReplayHolds, Ahead
    <3>8. /\ held.revision \in Nat /\ replay.instance.revision \in Nat
          /\ replay.instance.revision <= held.revision
      <4>1. replay.records[n] \in Envelope
        BY <3>1
      <4>2. replay.instance \in Instance
        BY <3>2, <4>1, EnvelopeFacts
      <4> QED
        BY <1>4, <2>1, <3>6, <4>2, InstanceFacts DEF NotPast
    <3> QED
      BY <3>7, <3>8
  <2>6. Source \in Side
    BY <1>1, <2>1, WorkingFacts DEF Base
  <2> QED
    BY <2>4, <2>5, <2>6 DEF Side
<1> QED
  BY <1>2, <1>3, <1>5, <1>6

(* catch_up merges nothing: an instance it replaces on the destination is  *)
(* one that a recorded decision of the source produced, whoever wrote to   *)
(* the destination while it ran (Hybrid::reconcile_divergence,             *)
(* Hybrid::reconcile).                                                     *)
THEOREM MergesNothing == Spec => NoForeignOverwrite
<1>1. HybridInvariant /\ [Next]_vars =>
        [/\ CatchUpStep /\ sides' # sides /\ replay.records # << >>
         /\ Source = "local" =>
              Last(replay.records).result = sides["local"].instances[Current.subject]
         => LET held == sides[Destination].instances[Current.subject] IN
            held # None /\ held # sides'[Destination].instances[Current.subject] =>
              \E i \in DOMAIN replay.records : replay.records[i].result = held]_vars
  <2> SUFFICES ASSUME HybridInvariant, CatchUpStep, sides' # sides, replay.records # << >>,
                      Source = "local" =>
                        Last(replay.records).result
                          = sides["local"].instances[Current.subject],
                      sides[Destination].instances[Current.subject] # None,
                      sides[Destination].instances[Current.subject]
                        # sides'[Destination].instances[Current.subject]
               PROVE  \E i \in DOMAIN replay.records :
                        replay.records[i].result
                          = sides[Destination].instances[Current.subject]
    BY Zenon
  <2> QED
    BY NothingForeign
<1> QED
  BY <1>1, Inductive, PTL DEF Spec, NoForeignOverwrite

-----------------------------------------------------------------------------
(* A store that leads: what is written first, when nobody else writes it   *)
(* and it answers for what it did.                                         *)

Leader == WriteOrder[1]

Follower == WriteOrder[2]

(* No other client writes an envelope of the store's own. *)
Apart ==
  \A w \in setup.writes, v \in setup.rivals :
    w.kind = "commit_recorded" /\ v.kind = "commit_recorded" =>
      w.document.envelope # v.document.envelope

(* An unrecorded decision never follows a recorded one. *)
NoSuffix ==
  \A v, w \in setup.writes :
    v.kind = "commit" /\ w.kind = "commit_recorded" /\ SubjectOf(v) = SubjectOf(w) =>
      v.expect = Absent

Steady ==
  /\ Leader = "local" \/ (Alone /\ ~setup.replies_lost)
  /\ Apart /\ NoSuffix

Has(store, s, o) == \E i \in DOMAIN store.observations[s] : store.observations[s][i] = o

(* A store is at a revision, or past it. *)
Attained(store, s, revision) ==
  store.instances[s] # None /\ revision <= store.instances[s].revision

(* A recorded decision of the leader was asked for, the last one is where  *)
(* the leader is, and no observation is past it.                           *)
OwnRecords(store) ==
  \A s \in Subjects :
    /\ \A i \in DOMAIN store.records[s] :
         \E w \in setup.writes :
           /\ w.kind = "commit_recorded" /\ SubjectOf(w) = s
           /\ w.document.envelope = store.records[s][i]
    /\ store.records[s] # << >> =>
         \E i \in DOMAIN store.records[s] : store.records[s][i].result = store.instances[s]
    /\ \A i \in DOMAIN store.observations[s] :
         Attained(store, s, store.observations[s][i].revision)

(* The leader is as it was read. *)
AsRead ==
  Working =>
    LET s == Current.subject IN
    /\ replay.records = sides[Leader].records[s]
    /\ replay.pc # "observations" =>
         /\ replay.observations = sides[Leader].observations[s]
         /\ Current.record_id # None =>
              HoldsRecord(replay.records, replay.observations, Current.record_id)
    /\ replay.pc \in {"events", "compare", "mirror"} =>
         replay.instance = sides[Leader].instances[s]

(* The revision believed covers what has arrived. *)
Reaches(e) == replay.revision # None /\ e.result.revision <= replay.revision

BelievedCovers ==
  Replaying =>
    /\ replay.pc = "existing" =>
         \A j \in DOMAIN replay.records :
           Holds(sides[Follower], Current.subject, replay.records[j]) =>
             Reaches(replay.records[j])
    /\ replay.pc \in {"replay", "restore", "observe", "commit"} =>
         /\ \A i \in DOMAIN replay.existing : \A j \in DOMAIN replay.records :
              replay.existing[i] = replay.records[j] => Reaches(replay.records[j])
         /\ \A j \in DOMAIN replay.records : j < replay.at => Reaches(replay.records[j])

(* Every observation is restored in the end. *)
RestoresAll == replay.pc \in {"restore", "observe"} /\ replay.after # "commit"

AllRestored ==
  replay.pc \in {"load", "events", "compare", "mirror"} /\ replay.after = "cleared"

Restoration ==
  LET s == Current.subject IN
  /\ RestoresAll =>
       \A j \in DOMAIN replay.observations :
         /\ IsDue(replay.observations[j])
         /\ j < replay.next => Has(sides[Follower], s, replay.observations[j])
  /\ AllRestored =>
       \A j \in DOMAIN replay.observations :
         Has(sides[Follower], s, replay.observations[j])

(* The follower has reached the leader's instance. *)
CaughtUp(leader, follower, s) ==
  /\ leader.instances[s] # None
  /\ Attained(follower, s, leader.instances[s].revision)
  /\ Alone => follower.instances[s] = leader.instances[s]

Compared ==
  \/ replay.pc = "late"
  \/ replay.pc \in {"restore", "observe"} /\ replay.records = << >>

Caught == Compared => CaughtUp(sides[Leader], sides[Follower], Current.subject)

CatchUpKnows == AsRead /\ BelievedCovers /\ Restoration /\ Caught

(* What is outstanding was written. *)
AllAttained(leader, held) ==
  \A i \in DOMAIN held : Attained(leader, held[i].subject, held[i].revision)

(* No divergence is held that the next process would not be handed.        *)
InHand(held, x) ==
  /\ x.pc = "idle" => x.todo = << >>
  /\ x.pc \in {"idle", "remember"} => x.still = << >>
  /\ x.pc \notin {"idle", "remember"} => held = << >>
  /\ x.pc # "idle" => /\ AllIn(held, x.taken)
                      /\ AllIn(x.todo, x.taken) /\ AllIn(x.still, x.taken)

Listed(leader, held, x) ==
  /\ AllAttained(leader, held) /\ AllAttained(leader, x.taken)
  /\ AllAttained(leader, x.todo) /\ AllAttained(leader, x.still)
  /\ InHand(held, x)

RevisionOf(w) ==
  IF w.kind = "observe" THEN w.document.revision ELSE w.document.instance.revision

(* The first half of a write is at the leader. *)
HalfWritten(leader, c) ==
  c.pc = "second" => Attained(leader, SubjectOf(c.write), RevisionOf(c.write))

About(held, s) == \E i \in DOMAIN held : held[i].subject = s

(* A subject has a divergence that no catch-up has cleared. *)
Awaited(held, x, s) == About(held, s) \/ About(x.todo, s) \/ About(x.still, s)

(* An entry is that of a write between its two halves. *)
Owing(c, kind, entry) ==
  /\ c.pc = "second" /\ c.write.kind = kind
  /\ entry = IF kind = "observe" THEN c.write.document ELSE c.write.document.envelope

(* What nothing is recorded about has followed. *)
Followed(leader, follower, c, s) ==
  /\ \A i \in DOMAIN leader.records[s] :
       Holds(follower, s, leader.records[s][i]) \/ Owing(c, "commit_recorded", leader.records[s][i])
  /\ \A i \in DOMAIN leader.observations[s] :
       Has(follower, s, leader.observations[s][i]) \/ Owing(c, "observe", leader.observations[s][i])

AllFollowed(leader, follower, held, x, c) ==
  \A s \in Subjects : Awaited(held, x, s) \/ Followed(leader, follower, c, s)

SteadyHolds ==
  /\ OwnRecords(sides[Leader]) /\ CatchUpKnows
  /\ Listed(sides[Leader], divergences, replay)
  /\ HalfWritten(sides[Leader], call)
  /\ AllFollowed(sides[Leader], sides[Follower], divergences, replay, call)

SteadyInvariant == Steady => SteadyHolds

-----------------------------------------------------------------------------
(* Writes. *)

(* What a write adds to a store, and leaves alone. *)
Adds(st, w, nu) ==
  /\ \A s \in Subjects : \A i \in DOMAIN nu.records[s] :
       \/ \E j \in DOMAIN st.records[s] : nu.records[s][i] = st.records[s][j]
       \/ /\ w.kind = "commit_recorded" /\ s = SubjectOf(w)
          /\ nu.records[s][i] = w.document.envelope
  /\ \A s \in Subjects : \A i \in DOMAIN nu.observations[s] :
       \/ \E j \in DOMAIN st.observations[s] : nu.observations[s][i] = st.observations[s][j]
       \/ /\ w.kind = "observe" /\ s = SubjectOf(w)
          /\ nu.observations[s][i] = w.document
  /\ \A s \in Subjects : s # SubjectOf(w) => nu.instances[s] = st.instances[s]

(* What a write that is answered ok has done. *)
Done(st, w, nu) ==
  LET s == SubjectOf(w)
      d == w.document
  IN /\ w.kind = "commit" =>
          /\ check(w.expect, revision_of(st, s)) /\ nu.instances[s] = d.instance
          /\ nu.records = st.records /\ nu.observations = st.observations
     /\ w.kind = "commit_recorded" =>
          /\ CommitValid(d)
          /\ Holds(nu, s, d.envelope) /\ NotPast(d.instance, nu.instances[s])
          /\ nu.observations = st.observations
          /\ \/ nu = st
             \/ nu.instances[s] = d.instance
     /\ w.kind = "observe" =>
          /\ Has(nu, s, d) /\ nu.instances = st.instances /\ nu.records = st.records
          /\ \/ nu = st
             \/ check(d.revision, revision_of(st, s))

(* A refused write leaves the store alone. *)
LEMMA RefusedLeaves ==
  ASSUME NEW st, NEW w \in Write, Perform(st, w).outcome # "ok"
  PROVE  Perform(st, w).store = st
<1>1. CASE w.kind = "commit"
  BY <1>1 DEF Perform, commit, Answer
<1>2. CASE w.kind = "commit_recorded"
  BY <1>2 DEF Perform, commit_recorded, Answer, SameOrConflict
<1>3. CASE w.kind = "observe"
  BY <1>3 DEF Perform, observe, Answer, SameOrConflict
<1> QED
  BY <1>1, <1>2, <1>3 DEF Write

(* A decision without an envelope adds no record. *)
LEMMA CommitDone ==
  ASSUME NEW st, Sound(st), NEW w \in Write, Forward(w), w.kind = "commit"
  PROVE  LET nu == Perform(st, w).store IN
         Adds(st, w, nu) /\ (Perform(st, w).outcome = "ok" => Done(st, w, nu))
<1> DEFINE d == w.document
           s == d.instance.subject
           nu == Perform(st, w).store
<1>1. /\ d.instance \in Instance /\ SubjectOf(w) = s
      /\ w.expect \in Nat => w.expect < d.instance.revision
  BY StoreAssumption DEF Write, Decision, Forward, SubjectOf
<1>2. Perform(st, w) = commit(st, d, w.expect)
  BY DEF Perform
<1>3. /\ nu.records = st.records /\ nu.observations = st.observations
      /\ Perform(st, w).outcome = "ok" => nu.instances[s] = d.instance
  <2>1. LET res == commit(st, d, w.expect) IN
        /\ res.store.records = st.records /\ res.store.observations = st.observations
        /\ res.outcome = "ok" => res.store.instances[s] = d.instance
    <3> HIDE DEF d
    <3> QED
      BY <1>1, CommitGood DEF s
  <2> QED
    BY <1>2, <2>1
<1>4. \A z \in Subjects : z # s => nu.instances[z] = st.instances[z]
  <2>1. DOMAIN st = DOMAIN EmptyStore /\ st.instances \in [Subjects -> Instance \cup {None}]
    BY ShapedFields DEF Sound, Shaped
  <2>2. nu = st \/ nu.instances = [st.instances EXCEPT ![s] = d.instance]
    BY <1>2, <2>1 DEF commit, Answer, EmptyStore
  <2> QED
    BY <2>1, <2>2
<1>5. Perform(st, w).outcome = "ok" => check(w.expect, revision_of(st, s))
  BY <1>2 DEF commit, Answer
<1> QED
  BY <1>1, <1>3, <1>4, <1>5 DEF Adds, Done

(* A recorded decision adds its envelope, or finds it. *)
LEMMA RecordedDone ==
  ASSUME NEW st, Sound(st), NEW w \in Write, Forward(w), w.kind = "commit_recorded"
  PROVE  LET nu == Perform(st, w).store IN
         Adds(st, w, nu) /\ (Perform(st, w).outcome = "ok" => Done(st, w, nu))
<1> DEFINE d == w.document
           s == d.instance.subject
           nu == Perform(st, w).store
<1>1. /\ d \in RecordedCommit /\ SubjectOf(w) = s /\ s \in Subjects
      /\ d.envelope \in Envelope
      /\ w.expect \in Nat => w.expect < d.instance.revision
  BY StoreAssumption DEF Write, Forward, SubjectOf, RecordedCommit, Instance
<1>2. Perform(st, w) = commit_recorded(st, d, w.expect)
  BY DEF Perform
<1>3. Written(st, d, w.expect, Perform(st, w))
  <2>1. Written(st, d, w.expect, commit_recorded(st, d, w.expect))
    <3> HIDE DEF d
    <3> QED
      BY <1>1, CommitRecordedGood
  <2> QED
    BY <1>2, <2>1
<1>4. st.records[s] \in Seq(Envelope)
  BY <1>1, ShapedFacts DEF Sound
<1>5. \A z \in Subjects : \A i \in DOMAIN nu.records[z] :
        \/ \E j \in DOMAIN st.records[z] : nu.records[z][i] = st.records[z][j]
        \/ z = s /\ nu.records[z][i] = d.envelope
  <2> SUFFICES ASSUME NEW z \in Subjects, NEW i \in DOMAIN nu.records[z]
               PROVE  \/ \E j \in DOMAIN st.records[z] : nu.records[z][i] = st.records[z][j]
                      \/ z = s /\ nu.records[z][i] = d.envelope
    OBVIOUS
  <2>1. CASE nu = st \/ z # s
    BY <1>3, <2>1 DEF Written
  <2>2. CASE nu # st /\ z = s
    <3>1. nu.records[s] = Append(st.records[s], d.envelope)
      BY <1>3, <2>2 DEF Written
    <3> HIDE DEF nu, d, s
    <3> QED
      BY <1>1, <1>4, <2>2, <3>1, AppendFacts
  <2> QED
    BY <2>1, <2>2
<1>6. \A z \in Subjects : z # s => nu.instances[z] = st.instances[z]
  <2>1. DOMAIN st = DOMAIN EmptyStore /\ st.instances \in [Subjects -> Instance \cup {None}]
    BY ShapedFields DEF Sound, Shaped
  <2>2. nu = st \/ nu.instances = [st.instances EXCEPT ![s] = d.instance]
    BY <1>2, <2>1 DEF commit_recorded, Answer, SameOrConflict, EmptyStore
  <2> QED
    BY <2>1, <2>2
<1> QED
  BY <1>1, <1>3, <1>5, <1>6 DEF Adds, Done, Written

(* An observation is added, or found. *)
LEMMA ObserveDone ==
  ASSUME NEW st, Sound(st), NEW w \in Write, Forward(w), w.kind = "observe"
  PROVE  LET nu == Perform(st, w).store IN
         Adds(st, w, nu) /\ (Perform(st, w).outcome = "ok" => Done(st, w, nu))
<1> DEFINE o == w.document
           s == o.subject
           nu == Perform(st, w).store
<1>1. o \in RecordedObservation /\ SubjectOf(w) = s /\ s \in Subjects
  BY DEF Write, SubjectOf, RecordedObservation
<1>2. Perform(st, w) = observe(st, o)
  BY DEF Perform
<1>3. LET res == observe(st, o) IN
      /\ Good(st, res.store)
      /\ res.store.instances = st.instances /\ res.store.records = st.records
      /\ \A z \in Subjects : z # s => res.store.observations[z] = st.observations[z]
      /\ res.store # st => res.store.observations[s] = Append(st.observations[s], o)
      /\ res.outcome = "ok" => ObservationValid(o) /\ res.store.record_ids[o.record_id] = o
  <2> HIDE DEF o
  <2> QED
    BY <1>1, ObserveGood DEF s
<1>4. st.observations[s] \in Seq(RecordedObservation)
  BY <1>1, ShapedFacts DEF Sound
<1>5. \A z \in Subjects : \A i \in DOMAIN nu.observations[z] :
        \/ \E j \in DOMAIN st.observations[z] : nu.observations[z][i] = st.observations[z][j]
        \/ z = s /\ nu.observations[z][i] = o
  <2> SUFFICES ASSUME NEW z \in Subjects, NEW i \in DOMAIN nu.observations[z]
               PROVE  \/ \E j \in DOMAIN st.observations[z] :
                           nu.observations[z][i] = st.observations[z][j]
                      \/ z = s /\ nu.observations[z][i] = o
    OBVIOUS
  <2>1. CASE nu = st \/ z # s
    BY <1>2, <1>3, <2>1
  <2>2. CASE nu # st /\ z = s
    <3>1. nu.observations[s] = Append(st.observations[s], o)
      BY <1>2, <1>3, <2>2
    <3> HIDE DEF nu, o, s
    <3> QED
      BY <1>1, <1>4, <2>2, <3>1, AppendFacts
  <2> QED
    BY <2>1, <2>2
<1>6. Perform(st, w).outcome = "ok" => Has(nu, s, o)
  <2> SUFFICES ASSUME Perform(st, w).outcome = "ok" PROVE Has(nu, s, o)
    OBVIOUS
  <2>1. ObservationValid(o) /\ nu.record_ids[o.record_id] = o /\ Sound(nu)
    BY <1>2, <1>3 DEF Good
  <2> HIDE DEF nu, o
  <2> QED
    BY <1>1, <2>1, NamedObservation DEF Has, s
<1>7. nu = st \/ check(o.revision, revision_of(st, s))
  BY <1>2 DEF observe, Answer, SameOrConflict
<1> QED
  BY <1>1, <1>2, <1>3, <1>5, <1>6, <1>7 DEF Adds, Done

(* What a write does to a store. *)
LEMMA WriteDone ==
  ASSUME NEW st, Sound(st), NEW w \in Write, Forward(w)
  PROVE  LET nu == Perform(st, w).store IN
         /\ Adds(st, w, nu) /\ Good(st, nu)
         /\ IF Perform(st, w).outcome = "ok" THEN Done(st, w, nu) ELSE nu = st
<1>1. w.kind \in {"commit", "commit_recorded", "observe"}
  BY DEF Write
<1>2. LET nu == Perform(st, w).store IN
      Adds(st, w, nu) /\ (Perform(st, w).outcome = "ok" => Done(st, w, nu))
  BY <1>1, CommitDone, RecordedDone, ObserveDone
<1> QED
  BY <1>2, RefusedLeaves, PerformGood

-----------------------------------------------------------------------------
(* The catch-up, for a store that leads. *)

(* A divergence stays in hand. *)
Onward ==
  /\ replay'.todo = replay.todo /\ replay'.taken = replay.taken
  /\ replay'.still = replay.still /\ replay'.pc \notin {"idle", "remember", "next"}

(* Everything the leader holds of a subject has arrived. *)
Delivered(leader, follower, s) ==
  /\ \A i \in DOMAIN leader.records[s] : Holds(follower, s, leader.records[s][i])
  /\ \A i \in DOMAIN leader.observations[s] : Has(follower, s, leader.observations[s][i])
  /\ CaughtUp(leader, follower, s)

NamesHeld(d, leader) ==
  d.record_id # None =>
    HoldsRecord(leader.records[d.subject], leader.observations[d.subject], d.record_id)

(* What a step on a divergence comes to. *)
Progress ==
  \/ Keep
  \/ /\ Cleared /\ NamesHeld(Current, sides[Leader])
     /\ Delivered(sides[Leader], sides'[Follower], Current.subject)
  \/ Onward /\ CatchUpKnows'

(* The leader is the source of what is worked on. *)
LEMMA Ends ==
  ASSUME Base
  PROVE  /\ Leader \in Side /\ Follower \in Side /\ Leader # Follower
         /\ Leader = "local" <=> Follower = "remote"
         /\ Working => /\ Source = Leader /\ Destination = Follower
                       /\ Current.subject \in Subjects /\ replay.todo # << >>
<1>1. /\ Leader \in Side /\ Follower \in Side /\ Leader # Follower
      /\ Leader = "remote" <=> Follower = "local"
  BY OrderFacts DEF Base, Leader, Follower
<1>2. Leader \in {"local", "remote"} /\ Follower \in {"local", "remote"}
  BY <1>1 DEF Side
<1>3. ASSUME Working
      PROVE  /\ Source = Leader /\ Destination = Follower
             /\ Current.subject \in Subjects /\ replay.todo # << >>
  <2>1. /\ replay.todo # << >> /\ Source = Leader /\ Current.subject \in Subjects
        /\ \/ Source = "local" /\ Destination = "remote"
           \/ Source = "remote" /\ Destination = "local"
    BY <1>3, WorkingFacts DEF Base, Leader
  <2> QED
    BY <1>1, <1>2, <2>1
<1> QED
  BY <1>1, <1>2, <1>3

(* The write order stays. *)
LEMMA SameEnds ==
  ASSUME policy' = policy
  PROVE  Leader' = Leader /\ Follower' = Follower
  BY DEF Leader, Follower, WriteOrder

LEMMA SameSteady ==
  ASSUME setup' = setup, policy' = policy
  PROVE  Steady' <=> Steady
<1>1. Leader' = Leader
  BY SameEnds
<1> QED
  BY <1>1 DEF Steady, Alone, Apart, NoSuffix

(* A store that has moved well holds what it held. *)
LEMMA HasKept ==
  ASSUME NEW old, NEW nu, Good(old, nu), NEW s \in Subjects
  PROVE  /\ \A e : Holds(old, s, e) => Holds(nu, s, e)
         /\ \A o : Has(old, s, o) => Has(nu, s, o)
         /\ \A n : Sound(old) /\ n \in Nat /\ Attained(old, s, n) => Attained(nu, s, n)
<1>1. /\ Keeps(old.records[s], nu.records[s])
      /\ Keeps(old.observations[s], nu.observations[s])
  BY DEF Good, Continues
<1>2. /\ \A e : Holds(old, s, e) => Holds(nu, s, e)
      /\ \A o : Has(old, s, o) => Has(nu, s, o)
  BY <1>1 DEF Keeps, Holds, Has
<1>3. ASSUME NEW n \in Nat, Sound(old), Attained(old, s, n)
      PROVE  Attained(nu, s, n)
  <2>1. /\ old.instances[s] # None /\ n <= old.instances[s].revision
        /\ nu.instances[s] # None
        /\ old.instances[s].revision <= nu.instances[s].revision
    BY <1>3 DEF Attained, Good, Advances
  <2>2. old.instances[s].revision \in Nat /\ nu.instances[s].revision \in Nat
    BY <1>3, <2>1, ShapedFacts, InstanceFacts DEF Sound, Good
  <2> QED
    BY <2>1, <2>2 DEF Attained
<1> QED
  BY <1>2, <1>3

(* What was read of the leader stays so. *)
LEMMA AsReadKept ==
  ASSUME Base, Working, AsRead, replay'.todo = replay.todo, policy' = policy,
         sides'[Leader] = sides[Leader],
         replay'.records = replay.records, replay'.observations = replay.observations,
         replay'.instance = replay.instance,
         replay'.pc # "observations" => replay.pc # "observations",
         replay'.pc \in {"events", "compare", "mirror"} =>
           replay.pc \in {"events", "compare", "mirror"}
  PROVE  AsRead'
<1>1. Current' = Current /\ Leader' = Leader
  BY SameHand, SameEnds
<1>2. sides'[Leader'] = sides[Leader]
  BY <1>1
<1> QED
  BY <1>1, <1>2, Zenon DEF AsRead

(* What is believed of the follower stays so. *)
LEMMA CoversKept ==
  ASSUME BelievedCovers, Working, replay'.records = replay.records,
         replay'.existing = replay.existing, replay'.revision = replay.revision,
         replay'.at = replay.at, replay'.pc # "existing",
         replay'.pc \in {"replay", "restore", "observe", "commit"} =>
           replay.pc \in {"replay", "restore", "observe", "commit"}
  PROVE  BelievedCovers'
<1>1. \A e : Reaches(e)' <=> Reaches(e)
  BY DEF Reaches
<1>2. Replaying' => Replaying
  BY DEF Replaying
<1> QED
  BY <1>1, <1>2 DEF BelievedCovers, Reaches

(* What was restored stays restored. *)
LEMMA RestorationKept ==
  ASSUME Base, Working, Restoration, replay'.todo = replay.todo, policy' = policy,
         \A x \in Side : Good(sides[x], sides'[x]),
         replay'.observations = replay.observations, replay'.upto = replay.upto,
         replay'.next = replay.next,
         RestoresAll' => RestoresAll, AllRestored' => AllRestored
  PROVE  Restoration'
<1>1. /\ Current' = Current /\ Leader' = Leader /\ Follower' = Follower
  BY SameHand, SameEnds
<1>2. Current.subject \in Subjects /\ Follower \in Side
  BY Ends
<1>3. \A o : Has(sides[Follower], Current.subject, o) =>
              Has(sides'[Follower], Current.subject, o)
  BY <1>2, HasKept
<1>4. \A o : IsDue(o)' <=> IsDue(o)
  BY DEF IsDue
<1>5. ASSUME RestoresAll'
      PROVE  \A j \in DOMAIN replay.observations :
               /\ IsDue(replay.observations[j])'
               /\ j < replay.next => Has(sides'[Follower], Current.subject, replay.observations[j])
  BY <1>3, <1>4, <1>5 DEF Restoration, IsDue
<1>6. ASSUME AllRestored'
      PROVE  \A j \in DOMAIN replay.observations :
               Has(sides'[Follower], Current.subject, replay.observations[j])
  BY <1>3, <1>6 DEF Restoration
<1> QED
  BY <1>1, <1>5, <1>6 DEF Restoration, IsDue, Has

(* A follower that has caught up stays so. *)
LEMMA CaughtKept ==
  ASSUME Base, Working, Caught, replay'.todo = replay.todo,
         policy' = policy, setup' = setup, sides'[Leader] = sides[Leader],
         \A x \in Side : Good(sides[x], sides'[x]),
         Alone => sides'[Follower].instances = sides[Follower].instances,
         Compared' => Compared
  PROVE  Caught'
<1>1. /\ Current' = Current /\ Leader' = Leader /\ Follower' = Follower
  BY SameHand, SameEnds
<1>2. /\ Current.subject \in Subjects /\ Follower \in Side /\ Leader \in Side
  BY Ends
<1> SUFFICES ASSUME CaughtUp(sides[Leader], sides[Follower], Current.subject)
             PROVE  CaughtUp(sides[Leader], sides'[Follower], Current.subject)
  BY <1>1 DEF Caught, CaughtUp, Alone
<1> DEFINE n == sides[Leader].instances[Current.subject].revision
<1>3. Sound(sides[Leader]) /\ Sound(sides[Follower])
  BY <1>2 DEF Base, Shape, SidesSound, Sound
<1>4. n \in Nat
  BY <1>2, <1>3, ShapedFacts, InstanceFacts DEF CaughtUp, Sound
<1>5. Attained(sides[Follower], Current.subject, n)
  BY DEF CaughtUp
<1>6. Attained(sides'[Follower], Current.subject, n)
  BY <1>2, <1>3, <1>4, <1>5, HasKept
<1> QED
  BY <1>6 DEF CaughtUp

(* A divergence is kept. *)
LEMMA KeepProgress == Keep => Progress
  BY DEF Progress

(* What the leader is, for a step on a divergence. *)
LEMMA LeaderStays ==
  ASSUME Base, ReplayHolds, CatchUpStep, Working
  PROVE  /\ sides'[Leader] = sides[Leader] /\ Unmoved
         /\ \A x \in Side : Good(sides[x], sides'[x])
<1>1. Source = Leader
  BY Ends
<1>2. CASE RestoreObservation
  BY <1>1, <1>2, RestoreGives, Zenon
<1>3. CASE CommitRecord
  BY <1>1, <1>3, CommitGives, Zenon
<1>4. CASE Mirror
  BY <1>1, <1>4, MirrorGives, Zenon
<1>5. CASE ~RestoreObservation /\ ~CommitRecord /\ ~Mirror
  <2>1. replay.pc # "next"
    BY DEF Working
  <2>2. Unmoved /\ sides' = sides
    BY <1>5, <2>1
      DEF CatchUpStep, Finish, ReadRecords, ReadObservations, ReadHeld, ReadExisting,
          ReplayRecord, CompareObservation, Restored, LoadSource, ReadEvents, Compare,
          Late, At
  <2> QED
    BY <2>2, BaseUnmoved
<1> QED
  BY <1>2, <1>3, <1>4, <1>5

(* The records of the leader are read. *)
LEMMA ReadRecordsProgress ==
  ASSUME Base, ReplayHolds, ReadRecords
  PROVE  Progress
<1>1. /\ replay.pc = "next" /\ replay.todo # << >> /\ sides' = sides /\ Unmoved
  BY DEF ReadRecords, At
<1>2. CASE replay' = [replay EXCEPT !.pc = "observations",
                        !.records = sides[Source].records[Current.subject]]
  <2>1. /\ replay'.pc = "observations"
        /\ replay'.records = sides[Source].records[Current.subject]
        /\ replay'.todo = replay.todo /\ replay'.taken = replay.taken
        /\ replay'.still = replay.still
    BY <1>2 DEF Base, Shape, ReplayShaped, Fields
  <2>2. Source = Leader
    BY <1>1 DEF Base, OneWay, AllFrom, Source, Current, Leader, Shape, ReplayShaped
  <2>3. Current' = Current /\ Leader' = Leader
    BY <1>1, <2>1, SameHand, SameEnds DEF Unmoved
  <2>4. AsRead' /\ BelievedCovers' /\ Restoration' /\ Caught'
    BY <1>1, <2>1, <2>2, <2>3
      DEF AsRead, BelievedCovers, Restoration, Caught, Compared, RestoresAll, AllRestored
  <2> QED
    BY <2>1, <2>4 DEF Progress, Onward, CatchUpKnows
<1> QED
  BY <1>2, KeepProgress DEF ReadRecords

(* The observations of the leader are read. *)
LEMMA ReadObservationsProgress ==
  ASSUME Base, ReplayHolds, CatchUpKnows, ReadObservations
  PROVE  Progress
<1>1. replay.pc = "observations" /\ sides' = sides /\ Unmoved /\ Working
  BY DEF ReadObservations, At, Working
<1>2. Source = Leader
  BY <1>1, Ends
<1> DEFINE found == sides[Leader].observations[Current.subject]
<1>3. CASE /\ Current.record_id # None =>
                HoldsRecord(replay.records, found, Current.record_id)
           /\ replay' = [replay EXCEPT
                           !.observations = found,
                           !.pc = IF replay.records = << >> THEN "load" ELSE "held",
                           !.after = IF replay.records = << >> /\ found = << >>
                                     THEN "cleared" ELSE "none"]
  <2>1. /\ replay'.observations = found /\ replay'.records = replay.records
        /\ replay'.pc \in {"load", "held"}
        /\ replay'.after = "cleared" => found = << >>
        /\ replay'.todo = replay.todo /\ replay'.taken = replay.taken
        /\ replay'.still = replay.still
    BY <1>3 DEF Base, Shape, ReplayShaped, Fields
  <2>2. Current' = Current /\ Leader' = Leader
    BY <1>1, <2>1, SameHand, SameEnds DEF Unmoved
  <2>3. AsRead'
    <3>1. replay.records = sides[Leader].records[Current.subject]
      BY <1>1 DEF CatchUpKnows, AsRead
    <3>2. /\ replay'.records = sides[Leader].records[Current.subject]
          /\ Current.record_id # None =>
               HoldsRecord(replay'.records, replay'.observations, Current.record_id)
      BY <1>3, <2>1, <3>1
    <3> QED
      BY <1>1, <2>1, <2>2, <3>2, Zenon DEF AsRead
  <2>4. BelievedCovers' /\ Restoration' /\ Caught'
    BY <1>1, <2>1
      DEF BelievedCovers, Restoration, Caught, Compared, RestoresAll, AllRestored
  <2> QED
    BY <2>1, <2>3, <2>4 DEF Progress, Onward, CatchUpKnows
<1>4. CASE Keep
  BY <1>4, KeepProgress
<1> QED
  BY <1>2, <1>3, <1>4, Zenon DEF ReadObservations

(* The instance of the follower is read. *)
LEMMA ReadHeldProgress ==
  ASSUME Base, ReplayHolds, CatchUpKnows, ReadHeld
  PROVE  Progress
<1>1. replay.pc = "held" /\ sides' = sides /\ Unmoved /\ Working
  BY DEF ReadHeld, At, Working
<1>2. /\ Source = Leader /\ Destination = Follower /\ Follower \in Side
      /\ Current.subject \in Subjects
  BY <1>1, Ends
<1>3. CASE replay' = [replay EXCEPT !.pc = "existing",
                        !.revision = revision_of(sides[Destination], Current.subject)]
  <2>1. /\ replay'.pc = "existing"
        /\ replay'.revision = revision_of(sides[Follower], Current.subject)
        /\ replay'.todo = replay.todo /\ replay'.taken = replay.taken
        /\ replay'.still = replay.still /\ replay'.records = replay.records
        /\ replay'.observations = replay.observations
        /\ replay'.instance = replay.instance
    BY <1>2, <1>3 DEF Base, Shape, ReplayShaped, Fields
  <2>2. Current' = Current /\ Leader' = Leader /\ Follower' = Follower
    BY <1>1, <2>1, SameHand, SameEnds DEF Unmoved
  <2>3. AsRead'
    BY <1>1, <2>1, AsReadKept DEF CatchUpKnows, Unmoved
  <2>4. ASSUME NEW j \in DOMAIN replay.records,
               Holds(sides[Follower], Current.subject, replay.records[j])
        PROVE  /\ replay'.revision # None
               /\ replay.records[j].result.revision <= replay'.revision
    <3>1. NotPast(replay.records[j].result, sides[Follower].instances[Current.subject])
      BY <1>2, <2>4 DEF Base, SidesSound, Covered, Holds
    <3>2. /\ sides[Follower].instances[Current.subject] # None
          /\ sides[Follower].instances[Current.subject].revision \in Nat
      BY <1>2, <3>1, ShapedFacts, InstanceFacts DEF NotPast, Base, Shape
    <3>3. None \notin Nat
      BY StoreAssumption
    <3> QED
      BY <2>1, <3>1, <3>2, <3>3 DEF NotPast, revision_of
  <2>5. BelievedCovers'
    BY <1>1, <2>1, <2>2, <2>4, Zenon DEF BelievedCovers, Reaches
  <2>6. Restoration' /\ Caught'
    BY <1>1, <2>1 DEF Restoration, Caught, Compared, RestoresAll, AllRestored
  <2> QED
    BY <2>1, <2>3, <2>5, <2>6 DEF Progress, Onward, CatchUpKnows
<1> QED
  BY <1>3, KeepProgress DEF ReadHeld

(* The records of the follower are read. *)
LEMMA ReadExistingProgress ==
  ASSUME Base, ReplayHolds, CatchUpKnows, ReadExisting
  PROVE  Progress
<1>1. replay.pc = "existing" /\ sides' = sides /\ Unmoved /\ Working
  BY DEF ReadExisting, At, Working
<1>2. /\ Source = Leader /\ Destination = Follower /\ Follower \in Side
      /\ Current.subject \in Subjects
  BY <1>1, Ends
<1>3. CASE replay' = [replay EXCEPT !.pc = "replay",
                        !.existing = sides[Destination].records[Current.subject]]
  <2>1. /\ replay'.pc = "replay"
        /\ replay'.existing = sides[Follower].records[Current.subject]
        /\ replay'.revision = replay.revision /\ replay'.at = replay.at
        /\ replay'.todo = replay.todo /\ replay'.taken = replay.taken
        /\ replay'.still = replay.still /\ replay'.records = replay.records
        /\ replay'.observations = replay.observations
        /\ replay'.instance = replay.instance
    BY <1>2, <1>3 DEF Base, Shape, ReplayShaped, Fields
  <2>2. Current' = Current /\ Leader' = Leader /\ Follower' = Follower
    BY <1>1, <2>1, SameHand, SameEnds DEF Unmoved
  <2>3. AsRead'
    BY <1>1, <2>1, AsReadKept DEF CatchUpKnows, Unmoved
  <2>4. ASSUME NEW i \in DOMAIN replay'.existing, NEW j \in DOMAIN replay.records,
               replay'.existing[i] = replay.records[j]
        PROVE  Reaches(replay.records[j])
    <3>1. Holds(sides[Follower], Current.subject, replay.records[j])
      BY <2>1, <2>4 DEF Holds
    <3>2. Replaying
      BY <1>1, <2>4 DEF Replaying
    <3> QED
      BY <1>1, <3>1, <3>2 DEF CatchUpKnows, BelievedCovers
  <2>5. replay.at = 1 /\ \A j \in DOMAIN replay.records : ~(j < 1)
    BY <1>1 DEF ReplayHolds, WayOn, Base, Shape, ReplayShaped
  <2>6. BelievedCovers'
    <3>1. \A j \in DOMAIN replay.records : ~(j < replay'.at)
      BY <2>1, <2>5
    <3> QED
      BY <2>1, <2>4, <3>1, Zenon DEF BelievedCovers, Reaches
  <2>7. Restoration' /\ Caught'
    BY <1>1, <2>1 DEF Restoration, Caught, Compared, RestoresAll, AllRestored
  <2> QED
    BY <2>1, <2>3, <2>6, <2>7 DEF Progress, Onward, CatchUpKnows
<1> QED
  BY <1>3, KeepProgress DEF ReadExisting

(* Every observation is due once the records are replayed. *)
LEMMA AllDue ==
  ASSUME Base, ReplayHolds, CatchUpKnows, OwnRecords(sides[Leader]), replay.pc = "replay",
         replay.at > Len(replay.records), NEW j \in DOMAIN replay.observations
  PROVE  /\ replay.revision # None
         /\ replay.observations[j].revision <= replay.revision
<1> DEFINE s == Current.subject
           lead == sides[Leader]
<1>1. Working /\ replay.records # << >> /\ Replaying
  BY DEF Working, ReplayHolds, WayOn, Replaying
<1>2. Leader \in Side /\ s \in Subjects
  BY <1>1, Ends
<1>3. replay.records = lead.records[s] /\ replay.observations = lead.observations[s]
  BY <1>1 DEF CatchUpKnows, AsRead
<1> HIDE DEF lead
<1>4. PICK i \in DOMAIN replay.records : replay.records[i].result = lead.instances[s]
  BY <1>1, <1>2, <1>3 DEF OwnRecords, lead
<1>5. Attained(lead, s, replay.observations[j].revision)
  BY <1>2, <1>3 DEF OwnRecords, lead
<1>6. Reaches(replay.records[i])
  <2>1. i < replay.at
    BY <1>4 DEF Base, Shape, ReplayShaped
  <2> QED
    BY <1>1, <1>4, <2>1 DEF CatchUpKnows, BelievedCovers
<1>7. /\ replay.revision # None /\ lead.instances[s] # None
      /\ replay.observations[j].revision <= lead.instances[s].revision
      /\ lead.instances[s].revision <= replay.revision
  BY <1>4, <1>5, <1>6 DEF Reaches, Attained
<1>8. /\ replay.observations[j].revision \in Nat /\ lead.instances[s].revision \in Nat
      /\ replay.revision \in Nat
  <2>1. replay.observations[j] \in RecordedObservation
    BY DEF Base, Shape, ReplayShaped
  <2>2. lead.instances[s] \in Instance
    BY <1>2, <1>7, ShapedFacts DEF Base, Shape, lead
  <2> QED
    BY <1>7, <2>1, <2>2, InstanceFacts
       DEF RecordedObservation, Base, Shape, ReplayShaped
<1> QED
  BY <1>7, <1>8

(* A record of the leader is looked at. *)
LEMMA ReplayRecordProgress ==
  ASSUME Base, ReplayHolds, CatchUpKnows, OwnRecords(sides[Leader]), ReplayRecord
  PROVE  Progress
<1>1. /\ replay.pc = "replay" /\ sides' = sides /\ Unmoved /\ Working
      /\ replay.records # << >> /\ replay.at \in Nat
  BY DEF ReplayRecord, At, Working, ReplayHolds, WayOn, Base, Shape, ReplayShaped
<1>2. \A x \in Side : Good(sides[x], sides'[x])
  BY <1>1, BaseUnmoved
<1>3. CASE /\ replay.at <= Len(replay.records)
           /\ \E i \in DOMAIN replay.existing : replay.existing[i] = replay.records[replay.at]
           /\ replay' = [replay EXCEPT !.at = @ + 1]
  <2>1. /\ replay'.pc = "replay" /\ replay'.at = replay.at + 1
        /\ replay'.existing = replay.existing /\ replay'.revision = replay.revision
        /\ replay'.todo = replay.todo /\ replay'.taken = replay.taken
        /\ replay'.still = replay.still /\ replay'.records = replay.records
        /\ replay'.observations = replay.observations
        /\ replay'.instance = replay.instance
    BY <1>1, <1>3 DEF Base, Shape, ReplayShaped, Fields
  <2>2. AsRead'
    BY <1>1, <2>1, AsReadKept DEF CatchUpKnows, Unmoved
  <2>3. Replaying /\ replay.at \in DOMAIN replay.records /\ Reaches(replay.records[replay.at])
    <3>1. replay.at \in DOMAIN replay.records
      BY <1>1, <1>3 DEF Base, Shape, ReplayShaped
    <3>2. Replaying
      BY <1>1 DEF Replaying
    <3> QED
      BY <1>1, <1>3, <3>1, <3>2 DEF CatchUpKnows, BelievedCovers
  <2>4. \A j \in DOMAIN replay.records : j < replay.at + 1 => Reaches(replay.records[j])
    BY <1>1, <2>3 DEF CatchUpKnows, BelievedCovers, Base, Shape, ReplayShaped
  <2>5. BelievedCovers'
    BY <1>1, <2>1, <2>3, <2>4 DEF CatchUpKnows, BelievedCovers, Reaches
  <2>6. Restoration' /\ Caught'
    BY <2>1 DEF Restoration, Caught, Compared, RestoresAll, AllRestored
  <2> QED
    BY <2>1, <2>2, <2>5, <2>6 DEF Progress, Onward, CatchUpKnows
<1>4. ASSUME NEW after, after = "load" => replay.at > Len(replay.records),
             after \in {"load", "commit"}, Restore(replay.revision, after)
      PROVE  Progress
  <2>1. /\ replay'.pc = "restore" /\ replay'.at = replay.at
        /\ replay'.upto = replay.revision /\ replay'.next = 1 /\ replay'.after = after
        /\ replay'.existing = replay.existing /\ replay'.revision = replay.revision
        /\ replay'.todo = replay.todo /\ replay'.taken = replay.taken
        /\ replay'.still = replay.still /\ replay'.records = replay.records
        /\ replay'.observations = replay.observations
        /\ replay'.instance = replay.instance
    BY <1>4 DEF Restore, Base, Shape, ReplayShaped, Fields
  <2>2. AsRead' /\ BelievedCovers'
    BY <1>1, <2>1, AsReadKept, CoversKept DEF CatchUpKnows, Unmoved
  <2>3. Caught'
    BY <1>1, <2>1 DEF Caught, Compared
  <2>4. Restoration'
    <3>1. ~AllRestored'
      BY <2>1 DEF AllRestored
    <3>2. ASSUME RestoresAll', NEW j \in DOMAIN replay.observations
          PROVE  IsDue(replay.observations[j])' /\ ~(j < replay'.next)
      <4>1. replay.at > Len(replay.records)
        BY <1>4, <2>1, <3>2 DEF RestoresAll
      <4>2. /\ replay.revision # None
            /\ replay.observations[j].revision <= replay.revision
        BY <1>1, <4>1, AllDue
      <4>3. ~(j < 1)
        BY DEF Base, Shape, ReplayShaped
      <4> QED
        BY <2>1, <4>2, <4>3 DEF IsDue
    <3> QED
      BY <2>1, <3>1, <3>2 DEF Restoration, IsDue
  <2> QED
    BY <2>1, <2>2, <2>3, <2>4 DEF Progress, Onward, CatchUpKnows
<1>5. CASE Keep
  BY <1>5, KeepProgress
<1>6. CASE replay.at > Len(replay.records)
  BY <1>4, <1>6 DEF ReplayRecord
<1>7. CASE ~(replay.at > Len(replay.records))
  <2>1. replay.at <= Len(replay.records)
    BY <1>1, <1>7 DEF Base, Shape, ReplayShaped
  <2>2. \/ /\ \E i \in DOMAIN replay.existing : replay.existing[i] = replay.records[replay.at]
           /\ replay' = [replay EXCEPT !.at = @ + 1]
        \/ Keep
        \/ Restore(replay.revision, "commit")
    BY <1>7 DEF ReplayRecord, Under
  <2> QED
    BY <1>3, <1>4, <1>5, <2>1, <2>2
<1> QED
  BY <1>6, <1>7

(* One observation is passed, or is to be given. *)
LEMMA CompareObservationProgress ==
  ASSUME Base, ReplayHolds, CatchUpKnows, CompareObservation
  PROVE  Progress
<1>1. /\ replay.pc = "restore" /\ sides' = sides /\ Unmoved /\ Working
      /\ replay.next <= Len(replay.observations)
  BY DEF CompareObservation, At, Working
<1>2. \A x \in Side : Good(sides[x], sides'[x])
  BY <1>1, BaseUnmoved
<1>3. /\ Source = Leader /\ Destination = Follower /\ Follower \in Side
      /\ Current.subject \in Subjects
  BY <1>1, Ends
<1>4. replay.next \in DOMAIN replay.observations /\ replay.next \in Nat
  BY <1>1 DEF Base, Shape, ReplayShaped
<1>5. ASSUME replay'.pc \in {"restore", "observe"}, replay'.at = replay.at,
             replay'.upto = replay.upto, replay'.after = replay.after,
             replay'.existing = replay.existing, replay'.revision = replay.revision,
             replay'.todo = replay.todo, replay'.records = replay.records,
             replay'.observations = replay.observations, replay'.instance = replay.instance
      PROVE  AsRead' /\ BelievedCovers' /\ Caught'
  <2>1. AsRead' /\ BelievedCovers'
    BY <1>1, <1>5, AsReadKept, CoversKept DEF CatchUpKnows, Unmoved
  <2>2. Compared' => Compared
    BY <1>1, <1>5 DEF Compared
  <2>3. Caught'
    BY <1>1, <1>2, <1>5, <2>2, CaughtKept DEF CatchUpKnows, Unmoved
  <2> QED
    BY <2>1, <2>3
<1>6. CASE /\ \/ ~IsDue(Restoring)
              \/ Has(sides[Follower], Current.subject, Restoring)
           /\ replay' = [replay EXCEPT !.next = @ + 1]
  <2>1. /\ replay'.pc = "restore" /\ replay'.at = replay.at
        /\ replay'.upto = replay.upto /\ replay'.after = replay.after
        /\ replay'.next = replay.next + 1
        /\ replay'.existing = replay.existing /\ replay'.revision = replay.revision
        /\ replay'.todo = replay.todo /\ replay'.taken = replay.taken
        /\ replay'.still = replay.still /\ replay'.records = replay.records
        /\ replay'.observations = replay.observations
        /\ replay'.instance = replay.instance
    BY <1>1, <1>6 DEF Base, Shape, ReplayShaped, Fields
  <2>2. AsRead' /\ BelievedCovers' /\ Caught'
    BY <1>5, <2>1
  <2>3. Current' = Current /\ Follower' = Follower
    BY <1>1, <2>1, SameHand, SameEnds DEF Unmoved
  <2>4. ASSUME RestoresAll, NEW j \in DOMAIN replay.observations
        PROVE  /\ IsDue(replay.observations[j])
               /\ j < replay.next + 1 =>
                    Has(sides[Follower], Current.subject, replay.observations[j])
    <3>1. /\ IsDue(replay.observations[j])
          /\ j < replay.next => Has(sides[Follower], Current.subject, replay.observations[j])
          /\ IsDue(Restoring)
      BY <1>4, <2>4 DEF CatchUpKnows, Restoration, Restoring
    <3>2. j = replay.next => Has(sides[Follower], Current.subject, replay.observations[j])
      BY <1>6, <3>1 DEF Restoring
    <3>3. j < replay.next + 1 => j < replay.next \/ j = replay.next
      BY <1>4 DEF Base, Shape, ReplayShaped
    <3> QED
      BY <3>1, <3>2, <3>3
  <2>5. Restoration'
    <3>1. ~AllRestored' /\ (RestoresAll' => RestoresAll)
      BY <1>1, <2>1 DEF RestoresAll, AllRestored
    <3> QED
      BY <1>1, <2>1, <2>3, <2>4, <3>1 DEF Restoration, IsDue, Has
  <2> QED
    BY <2>1, <2>2, <2>5 DEF Progress, Onward, CatchUpKnows
<1>7. CASE replay' = [replay EXCEPT !.pc = "observe"]
  <2>1. /\ replay'.pc = "observe" /\ replay'.at = replay.at
        /\ replay'.upto = replay.upto /\ replay'.after = replay.after
        /\ replay'.next = replay.next
        /\ replay'.existing = replay.existing /\ replay'.revision = replay.revision
        /\ replay'.todo = replay.todo /\ replay'.taken = replay.taken
        /\ replay'.still = replay.still /\ replay'.records = replay.records
        /\ replay'.observations = replay.observations
        /\ replay'.instance = replay.instance
    BY <1>7 DEF Base, Shape, ReplayShaped, Fields
  <2>2. AsRead' /\ BelievedCovers' /\ Caught'
    BY <1>5, <2>1
  <2>3. Restoration'
    <3>1. ~AllRestored' /\ (RestoresAll' => RestoresAll)
      BY <1>1, <2>1 DEF RestoresAll, AllRestored
    <3> QED
      BY <1>1, <1>2, <2>1, <3>1, RestorationKept DEF CatchUpKnows, Unmoved
  <2> QED
    BY <2>1, <2>2, <2>3 DEF Progress, Onward, CatchUpKnows
<1>8. CASE Keep
  BY <1>8, KeepProgress
<1> QED
  BY <1>3, <1>6, <1>7, <1>8, Zenon DEF CompareObservation, Under, Has

(* One observation is given. *)
LEMMA RestoreObservationProgress ==
  ASSUME Base, ReplayHolds, CatchUpKnows, RestoreObservation
  PROVE  Progress
<1>1. /\ replay.pc = "observe" /\ Working /\ Unmoved
      /\ \A x \in Side : Good(sides[x], sides'[x])
      /\ sides'[Source] = sides[Source]
      /\ sides'[Destination].instances = sides[Destination].instances
      /\ replay.next \in DOMAIN replay.observations
  BY RestoreGives
<1>2. /\ Source = Leader /\ Destination = Follower /\ Follower \in Side
      /\ Current.subject \in Subjects
  BY <1>1, Ends
<1> DEFINE s == Current.subject
           st == sides[Follower]
<1>3. PICK result \in Attempts(Follower, observe(st, Restoring)) :
        /\ Took(Follower, result)
        /\ IF result.outcome = "ok"
           THEN replay' = [replay EXCEPT !.pc = "restore", !.next = @ + 1]
           ELSE Keep
  BY <1>2 DEF RestoreObservation
<1>4. CASE result.outcome # "ok"
  BY <1>3, <1>4, KeepProgress
<1>5. CASE result.outcome = "ok"
  <2>1. /\ replay'.pc = "restore" /\ replay'.at = replay.at
        /\ replay'.upto = replay.upto /\ replay'.after = replay.after
        /\ replay'.next = replay.next + 1
        /\ replay'.existing = replay.existing /\ replay'.revision = replay.revision
        /\ replay'.todo = replay.todo /\ replay'.taken = replay.taken
        /\ replay'.still = replay.still /\ replay'.records = replay.records
        /\ replay'.observations = replay.observations
        /\ replay'.instance = replay.instance
    BY <1>3, <1>5 DEF Base, Shape, ReplayShaped, Fields
  <2>2. Current' = Current /\ Follower' = Follower
    BY <1>1, <2>1, SameHand, SameEnds DEF Unmoved
  <2>3. Restoring \in RecordedObservation /\ Restoring.subject = s
    <3>1. Restoring \in RecordedObservation
      BY <1>1 DEF Base, Shape, ReplayShaped, Restoring
    <3>2. /\ replay.observations = sides[Leader].observations[s] /\ Leader \in Side
          /\ replay.next \in DOMAIN sides[Leader].observations[s]
      BY <1>1, Ends DEF CatchUpKnows, AsRead
    <3>3. ObservationIndexed(sides[Leader], s, replay.next)
      BY <1>2, <3>2 DEF Base, SidesSound, IndexIsExact
    <3>4. sides[Leader].observations[s][replay.next].subject = s
      BY <3>3, Zenon DEF ObservationIndexed
    <3> QED
      BY <3>1, <3>2, <3>4 DEF Restoring
  <2>4. Has(sides'[Follower], s, Restoring)
    <3> DEFINE res == observe(st, Restoring)
               o == Restoring
    <3>1. result = res
      BY <1>3, <1>5, AttemptFacts
    <3>2. sides'[Follower] = result.store
      BY <1>2, <1>3 DEF Took, Base, Shape
    <3>3. Sound(st)
      BY <1>2 DEF Base, Shape, SidesSound, Sound
    <3> HIDE DEF o
    <3>4. o \in RecordedObservation /\ o.subject = s
      BY <2>3 DEF o
    <3>5. LET out == observe(st, o) IN
          /\ Good(st, out.store)
          /\ out.outcome = "ok" => ObservationValid(o) /\ out.store.record_ids[o.record_id] = o
      BY <1>2, <3>3, <3>4, ObserveGood
    <3>6. /\ Sound(result.store) /\ ObservationValid(o)
          /\ result.store.record_ids[o.record_id] = o
      BY <1>5, <3>1, <3>5 DEF Good, o
    <3>7. Has(result.store, s, o)
      BY <1>2, <3>4, <3>6, NamedObservation DEF Has
    <3> QED
      BY <3>2, <3>7 DEF o
  <2>5. AsRead' /\ BelievedCovers'
    BY <1>1, <1>2, <2>1, AsReadKept, CoversKept DEF CatchUpKnows, Unmoved
  <2>6. Compared' => Compared
    BY <1>1, <2>1 DEF Compared
  <2>7. Caught'
    BY <1>1, <1>2, <2>1, <2>6, CaughtKept DEF CatchUpKnows, Unmoved
  <2>8. Restoration'
    <3>1. ~AllRestored' /\ (RestoresAll' => RestoresAll)
      BY <1>1, <2>1 DEF RestoresAll, AllRestored
    <3>2. ASSUME RestoresAll, NEW j \in DOMAIN replay.observations
          PROVE  /\ IsDue(replay.observations[j])
                 /\ j < replay.next + 1 => Has(sides'[Follower], s, replay.observations[j])
      <4>1. /\ IsDue(replay.observations[j])
            /\ j < replay.next => Has(sides[Follower], s, replay.observations[j])
        BY <3>2 DEF CatchUpKnows, Restoration
      <4>2. Has(sides[Follower], s, replay.observations[j]) =>
              Has(sides'[Follower], s, replay.observations[j])
        BY <1>1, <1>2, HasKept
      <4>3. j = replay.next => Has(sides'[Follower], s, replay.observations[j])
        BY <2>4 DEF Restoring
      <4>4. j < replay.next + 1 => j < replay.next \/ j = replay.next
        BY <1>1 DEF Base, Shape, ReplayShaped
      <4> QED
        BY <4>1, <4>2, <4>3, <4>4
    <3> QED
      BY <2>1, <2>2, <3>1, <3>2 DEF Restoration, IsDue, Has
  <2> QED
    BY <2>1, <2>5, <2>7, <2>8 DEF Progress, Onward, CatchUpKnows
<1> QED
  BY <1>4, <1>5

(* What a divergence that is cleared says was read and arrived. *)
LEMMA ReadIsHeld ==
  ASSUME Base, ReplayHolds, CatchUpKnows, Working, replay.pc # "observations"
  PROVE  /\ NamesHeld(Current, sides[Leader])
         /\ replay.records = sides[Leader].records[Current.subject]
         /\ replay.observations = sides[Leader].observations[Current.subject]
  BY DEF CatchUpKnows, AsRead, NamesHeld

LEMMA RecordsArrived ==
  ASSUME Base, ReplayHolds, CatchUpKnows, Working,
         \/ replay.records = << >>
         \/ replay.pc \in {"compare", "mirror"} /\ replay.after = "cleared",
         replay.pc # "observations",
         NEW i \in DOMAIN sides[Leader].records[Current.subject]
  PROVE  Holds(sides[Follower], Current.subject, sides[Leader].records[Current.subject][i])
<1>1. replay.records = sides[Leader].records[Current.subject]
  BY ReadIsHeld
<1>2. replay.records # << >>
  BY <1>1
<1>3. Replaying /\ replay.pc \in {"compare", "mirror"} /\ replay.after = "cleared"
  BY <1>2 DEF Replaying
<1>4. replay.at > Len(replay.records)
  BY <1>3 DEF ReplayHolds, AllReplayed
<1>5. i < replay.at
  BY <1>1, <1>4 DEF Base, Shape, ReplayShaped
<1>6. Holds(sides[Destination], Current.subject, replay.records[i])
  BY <1>1, <1>3, <1>5 DEF ReplayHolds, Arrived
<1> QED
  BY <1>1, <1>6, Ends

(* What a step that clears a divergence leaves delivered. *)
LEMMA DeliveredNext ==
  ASSUME Base, ReplayHolds, CatchUpKnows, Working, replay.pc # "observations",
         \A x \in Side : Good(sides[x], sides'[x]),
         \/ replay.records = << >>
         \/ replay.pc \in {"compare", "mirror"} /\ replay.after = "cleared",
         \A j \in DOMAIN replay.observations :
           Has(sides[Follower], Current.subject, replay.observations[j]),
         CaughtUp(sides[Leader], sides'[Follower], Current.subject)
  PROVE  /\ NamesHeld(Current, sides[Leader])
         /\ Delivered(sides[Leader], sides'[Follower], Current.subject)
<1>1. Follower \in Side /\ Current.subject \in Subjects
  BY Ends
<1>2. \A i \in DOMAIN sides[Leader].records[Current.subject] :
        Holds(sides'[Follower], Current.subject, sides[Leader].records[Current.subject][i])
  BY <1>1, RecordsArrived, HasKept
<1>3. \A i \in DOMAIN sides[Leader].observations[Current.subject] :
        Has(sides'[Follower], Current.subject,
            sides[Leader].observations[Current.subject][i])
  BY <1>1, ReadIsHeld, HasKept
<1> QED
  BY <1>2, <1>3, ReadIsHeld DEF Delivered

(* The observations are all restored. *)
LEMMA RestoredProgress ==
  ASSUME Base, ReplayHolds, CatchUpKnows, Restored
  PROVE  Progress
<1>1. /\ replay.pc = "restore" /\ sides' = sides /\ Unmoved /\ Working
      /\ replay.next > Len(replay.observations)
  BY DEF Restored, At, Working
<1>2. \A x \in Side : Good(sides[x], sides'[x])
  BY <1>1, BaseUnmoved
<1>3. ASSUME replay.after # "commit", NEW j \in DOMAIN replay.observations
      PROVE  Has(sides[Follower], Current.subject, replay.observations[j])
  <2>1. j < replay.next
    BY <1>1 DEF Base, Shape, ReplayShaped
  <2> QED
    BY <1>1, <1>3, <2>1 DEF CatchUpKnows, Restoration, RestoresAll
<1>4. CASE replay.after = "cleared" /\ Cleared
  <2>1. replay.records = << >>
    BY <1>1, <1>4 DEF ReplayHolds, WayOn
  <2>2. CaughtUp(sides[Leader], sides[Follower], Current.subject)
    BY <1>1, <2>1 DEF CatchUpKnows, Caught, Compared
  <2>3. CaughtUp(sides[Leader], sides'[Follower], Current.subject)
    BY <1>1, <2>2
  <2>4. /\ NamesHeld(Current, sides[Leader])
        /\ Delivered(sides[Leader], sides'[Follower], Current.subject)
    BY <1>1, <1>2, <1>3, <1>4, <2>1, <2>3, DeliveredNext
  <2> QED
    BY <1>4, <2>4 DEF Progress
<1>5. CASE /\ replay.after # "cleared"
           /\ replay' = [replay EXCEPT !.pc = replay.after,
                           !.after = IF @ = "load" THEN "cleared" ELSE "none"]
  <2>1. /\ replay'.pc = replay.after /\ replay'.at = replay.at
        /\ replay.after = "commit" => replay'.after = "none"
        /\ replay'.upto = replay.upto /\ replay'.next = replay.next
        /\ replay'.existing = replay.existing /\ replay'.revision = replay.revision
        /\ replay'.todo = replay.todo /\ replay'.taken = replay.taken
        /\ replay'.still = replay.still /\ replay'.records = replay.records
        /\ replay'.observations = replay.observations
        /\ replay'.instance = replay.instance
    BY <1>5 DEF Base, Shape, ReplayShaped, Fields
  <2>2. replay.after \in {"commit", "load"}
    BY <1>1, <1>5 DEF ReplayHolds, WayOn
  <2>3. AsRead' /\ BelievedCovers'
    BY <1>1, <2>1, <2>2, AsReadKept, CoversKept DEF CatchUpKnows, Unmoved
  <2>4. Caught'
    BY <2>1, <2>2 DEF Caught, Compared
  <2>5. Restoration'
    <3>1. Current' = Current /\ Follower' = Follower
      BY <1>1, <2>1, SameHand, SameEnds DEF Unmoved
    <3>2. ~RestoresAll' /\ (AllRestored' => replay.after # "commit")
      BY <2>1, <2>2 DEF RestoresAll, AllRestored
    <3> QED
      BY <1>1, <1>3, <2>1, <3>1, <3>2 DEF Restoration, Has
  <2> QED
    BY <2>1, <2>2, <2>3, <2>4, <2>5 DEF Progress, Onward, CatchUpKnows
<1> QED
  BY <1>4, <1>5 DEF Restored

(* A record is given. *)
LEMMA CommitRecordProgress ==
  ASSUME Base, ReplayHolds, CatchUpKnows, CommitRecord
  PROVE  Progress
<1> DEFINE e == replay.records[replay.at]
<1>1. /\ replay.pc = "commit" /\ Working /\ Unmoved
      /\ sides'[Source] = sides[Source]
      /\ \/ Keep
         \/ replay' = [replay EXCEPT !.pc = "replay", !.at = @ + 1,
                         !.revision = e.result.revision]
  BY CommitGives, Zenon
<1>2. Source = Leader
  BY <1>1, Ends
<1>3. CASE replay' = [replay EXCEPT !.pc = "replay", !.at = @ + 1,
                        !.revision = e.result.revision]
  <2>1. /\ replay'.pc = "replay" /\ replay'.at = replay.at + 1
        /\ replay'.revision = e.result.revision
        /\ replay'.existing = replay.existing
        /\ replay'.todo = replay.todo /\ replay'.taken = replay.taken
        /\ replay'.still = replay.still /\ replay'.records = replay.records
        /\ replay'.observations = replay.observations
        /\ replay'.instance = replay.instance
    BY <1>3 DEF Base, Shape, ReplayShaped, Fields
  <2>2. /\ Replaying /\ replay.at \in DOMAIN replay.records
        /\ e.result.revision = Reached + 1
    BY <1>1, CommitFacts DEF ReplayHolds, OneStepOn, Committing
  <2>3. /\ \A j \in DOMAIN replay.records : /\ j \in Nat
                                            /\ replay.records[j].result.revision \in Nat
        /\ replay.at \in Nat /\ replay.revision \in Nat \cup {None} /\ None \notin Nat
    <3>1. /\ \A j \in DOMAIN replay.records : j \in Nat /\ replay.records[j] \in Envelope
          /\ replay.at \in Nat /\ replay.revision \in Nat \cup {None}
      BY DEF Base, Shape, ReplayShaped
    <3>2. \A j \in DOMAIN replay.records : replay.records[j].result.revision \in Nat
      BY <3>1, InstanceFacts DEF Envelope
    <3> QED
      BY <3>1, <3>2, StoreAssumption
  <2>4. AsRead'
    BY <1>1, <1>2, <2>1, AsReadKept DEF CatchUpKnows, Unmoved
  <2> DEFINE Now(j) == /\ replay'.revision # None
                       /\ replay.records[j].result.revision <= replay'.revision
  <2>5. replay'.revision \in Nat /\ replay'.revision # None
    BY <2>1, <2>2, <2>3
  <2>6. \A j \in DOMAIN replay.records : Reaches(replay.records[j]) => Now(j)
    <3>1. \A j \in DOMAIN replay.records : Reaches(replay.records[j]) =>
            replay.records[j].result.revision <= Reached + 1
      BY <2>3 DEF Reaches, Reached
    <3> QED
      BY <2>1, <2>2, <2>5, <3>1
  <2>7. ASSUME NEW j \in DOMAIN replay.records, j < replay.at + 1
        PROVE  Now(j)
    <3>1. CASE j = replay.at
      BY <2>1, <2>3, <2>5, <3>1
    <3>2. CASE j < replay.at
      BY <1>1, <2>2, <2>6, <3>2 DEF CatchUpKnows, BelievedCovers
    <3> QED
      BY <2>3, <2>7, <3>1, <3>2
  <2>8. ASSUME NEW i \in DOMAIN replay.existing, NEW j \in DOMAIN replay.records,
               replay.existing[i] = replay.records[j]
        PROVE  Now(j)
    BY <1>1, <2>2, <2>6, <2>8 DEF CatchUpKnows, BelievedCovers
  <2>9. BelievedCovers'
    BY <2>1, <2>7, <2>8 DEF BelievedCovers, Reaches
  <2>10. Restoration' /\ Caught'
    BY <2>1 DEF Restoration, Caught, Compared, RestoresAll, AllRestored
  <2> QED
    BY <2>1, <2>4, <2>9, <2>10 DEF Progress, Onward, CatchUpKnows
<1> QED
  BY <1>1, <1>3, KeepProgress

(* The instance of the leader is read. *)
LEMMA LoadSourceProgress ==
  ASSUME Base, ReplayHolds, CatchUpKnows, LoadSource
  PROVE  Progress
<1>1. replay.pc = "load" /\ sides' = sides /\ Unmoved /\ Working
  BY DEF LoadSource, At, Working
<1>2. /\ Source = Leader /\ \A x \in Side : Good(sides[x], sides'[x])
  BY <1>1, Ends, BaseUnmoved
<1>3. CASE replay' = [replay EXCEPT !.pc = "events",
                        !.instance = sides[Source].instances[Current.subject]]
  <2>1. /\ replay'.pc = "events"
        /\ replay'.instance = sides[Leader].instances[Current.subject]
        /\ replay'.upto = replay.upto /\ replay'.next = replay.next
        /\ replay'.after = replay.after
        /\ replay'.todo = replay.todo /\ replay'.taken = replay.taken
        /\ replay'.still = replay.still /\ replay'.records = replay.records
        /\ replay'.observations = replay.observations
    BY <1>2, <1>3 DEF Base, Shape, ReplayShaped, Fields
  <2>2. Current' = Current /\ Leader' = Leader
    BY <1>1, <2>1, SameHand, SameEnds DEF Unmoved
  <2>3. AsRead'
    <3>1. sides'[Leader'] = sides[Leader]
      BY <1>1, <2>2
    <3> QED
      BY <1>1, <2>1, <2>2, <3>1, Zenon DEF CatchUpKnows, AsRead
  <2>4. BelievedCovers' /\ Caught'
    BY <2>1 DEF BelievedCovers, Caught, Compared
  <2>5. Restoration'
    <3>1. ~RestoresAll' /\ (AllRestored' => AllRestored)
      BY <1>1, <2>1 DEF RestoresAll, AllRestored
    <3> QED
      BY <1>1, <1>2, <2>1, <3>1, RestorationKept DEF CatchUpKnows, Unmoved
  <2> QED
    BY <2>1, <2>3, <2>4, <2>5 DEF Progress, Onward, CatchUpKnows
<1> QED
  BY <1>3, KeepProgress DEF LoadSource

(* A step from one read to the next. *)
LEMMA ReadsOn ==
  ASSUME Base, ReplayHolds, CatchUpKnows, Working, Unmoved, sides' = sides,
         replay.pc \in {"events", "compare"}, replay'.pc \in {"compare", "mirror"},
         replay'.upto = replay.upto, replay'.next = replay.next,
         replay'.after = replay.after,
         replay'.todo = replay.todo, replay'.taken = replay.taken,
         replay'.still = replay.still, replay'.records = replay.records,
         replay'.observations = replay.observations, replay'.instance = replay.instance
  PROVE  Progress
<1>1. \A x \in Side : Good(sides[x], sides'[x])
  BY BaseUnmoved
<1>2. AsRead'
  BY AsReadKept DEF CatchUpKnows, Unmoved
<1>3. BelievedCovers' /\ Caught'
  BY DEF BelievedCovers, Caught, Compared
<1>4. Restoration'
  <2>1. ~RestoresAll' /\ (AllRestored' => AllRestored)
    BY DEF RestoresAll, AllRestored
  <2> QED
    BY <1>1, <2>1, RestorationKept DEF CatchUpKnows, Unmoved
<1> QED
  BY <1>2, <1>3, <1>4 DEF Progress, Onward, CatchUpKnows

(* The events of the leader are read. *)
LEMMA ReadEventsProgress ==
  ASSUME Base, ReplayHolds, CatchUpKnows, ReadEvents
  PROVE  Progress
<1>1. replay.pc = "events" /\ sides' = sides /\ Unmoved /\ Working
  BY DEF ReadEvents, At, Working
<1>2. CASE replay' = [replay EXCEPT !.pc = "compare",
                        !.events = EventsOf(sides[Source], Current.subject)]
  <2>1. /\ replay'.pc = "compare"
        /\ replay'.upto = replay.upto /\ replay'.next = replay.next
        /\ replay'.after = replay.after
        /\ replay'.todo = replay.todo /\ replay'.taken = replay.taken
        /\ replay'.still = replay.still /\ replay'.records = replay.records
        /\ replay'.observations = replay.observations
        /\ replay'.instance = replay.instance
    BY <1>2 DEF Base, Shape, ReplayShaped, Fields
  <2> QED
    BY <1>1, <2>1, ReadsOn
<1> QED
  BY <1>2, KeepProgress DEF ReadEvents

(* The two sides agree on the instance. *)
LEMMA ReconciledProgress ==
  ASSUME Base, ReplayHolds, CatchUpKnows, replay.pc \in {"compare", "mirror"}, Reconciled,
         Unmoved, sides'[Leader] = sides[Leader],
         \A x \in Side : Good(sides[x], sides'[x]),
         sides'[Follower].instances[Current.subject] = replay.instance
  PROVE  Progress
<1>1. Working /\ replay.pc # "observations"
  BY DEF Working
<1>2. /\ Leader \in Side /\ Follower \in Side /\ Current.subject \in Subjects
  BY <1>1, Ends
<1>3. CaughtUp(sides[Leader], sides'[Follower], Current.subject)
  <2>1. /\ replay.instance = sides[Leader].instances[Current.subject]
        /\ replay.instance # None /\ replay.instance \in Instance
    BY <1>1 DEF CatchUpKnows, AsRead, ReplayHolds, Loaded, Base, Shape, ReplayShaped
  <2>2. replay.instance.revision \in Nat
    BY <2>1, InstanceFacts
  <2> QED
    BY <2>1, <2>2 DEF CaughtUp, Attained
<1>4. CASE replay.after = "cleared" /\ Cleared
  <2>1. \A j \in DOMAIN replay.observations :
          Has(sides[Follower], Current.subject, replay.observations[j])
    BY <1>4 DEF CatchUpKnows, Restoration, AllRestored
  <2>2. /\ NamesHeld(Current, sides[Leader])
        /\ Delivered(sides[Leader], sides'[Follower], Current.subject)
    BY <1>1, <1>3, <1>4, <2>1, DeliveredNext
  <2> QED
    BY <1>4, <2>2 DEF Progress
<1>5. CASE replay.after # "cleared" /\ replay' = [replay EXCEPT !.pc = "late"]
  <2>1. /\ replay'.pc = "late"
        /\ replay'.todo = replay.todo /\ replay'.taken = replay.taken
        /\ replay'.still = replay.still /\ replay'.records = replay.records
        /\ replay'.observations = replay.observations
        /\ replay'.instance = replay.instance
    BY <1>5 DEF Base, Shape, ReplayShaped, Fields
  <2>2. AsRead'
    BY <1>1, <2>1, AsReadKept DEF CatchUpKnows, Unmoved
  <2>3. BelievedCovers' /\ Restoration'
    BY <2>1 DEF BelievedCovers, Restoration, RestoresAll, AllRestored
  <2>4. Caught'
    <3>1. Current' = Current /\ Leader' = Leader /\ Follower' = Follower
      BY <2>1, SameHand, SameEnds DEF Unmoved
    <3>2. setup' = setup
      BY DEF Unmoved
    <3> QED
      BY <1>3, <3>1, <3>2 DEF Caught, CaughtUp, Attained, Alone
  <2> QED
    BY <2>1, <2>2, <2>3, <2>4 DEF Progress, Onward, CatchUpKnows
<1> QED
  BY <1>4, <1>5, Zenon DEF Reconciled

(* The follower is compared with what was read. *)
LEMMA CompareProgress ==
  ASSUME Base, ReplayHolds, CatchUpKnows, Compare
  PROVE  Progress
<1>1. replay.pc = "compare" /\ sides' = sides /\ Unmoved /\ Working
  BY DEF Compare, At, Working
<1>2. Destination = Follower /\ \A x \in Side : Good(sides[x], sides'[x])
  BY <1>1, Ends, BaseUnmoved
<1>3. CASE Reconciled /\ sides[Destination].instances[Current.subject] = replay.instance
  BY <1>1, <1>2, <1>3, ReconciledProgress
<1>4. CASE replay' = [replay EXCEPT !.pc = "mirror",
                        !.revision = revision_of(sides[Destination], Current.subject)]
  <2>1. /\ replay'.pc = "mirror"
        /\ replay'.upto = replay.upto /\ replay'.next = replay.next
        /\ replay'.after = replay.after
        /\ replay'.todo = replay.todo /\ replay'.taken = replay.taken
        /\ replay'.still = replay.still /\ replay'.records = replay.records
        /\ replay'.observations = replay.observations
        /\ replay'.instance = replay.instance
    BY <1>4 DEF Base, Shape, ReplayShaped, Fields
  <2> QED
    BY <1>1, <2>1, ReadsOn
<1> QED
  BY <1>3, <1>4, KeepProgress, Zenon DEF Compare

(* The follower is given the instance. *)
LEMMA MirrorProgress ==
  ASSUME Base, ReplayHolds, CatchUpKnows, Mirror
  PROVE  Progress
<1> DEFINE s  == Current.subject
           d  == legacy_import(replay.instance, replay.events, Reached)
           st == sides[Follower]
<1>1. /\ replay.pc = "mirror" /\ Working /\ Unmoved
      /\ \A x \in Side : Good(sides[x], sides'[x])
      /\ sides'[Source] = sides[Source]
  BY MirrorGives, Zenon
<1>2. /\ Source = Leader /\ Destination = Follower /\ Follower \in Side
      /\ Current.subject \in Subjects
  BY <1>1, Ends
<1>3. PICK result \in Attempts(Follower, commit(st, d, Expected)) :
        /\ Took(Follower, result)
        /\ IF result.outcome = "ok" THEN Reconciled ELSE Keep
  BY <1>2 DEF Mirror
<1>4. CASE result.outcome # "ok"
  BY <1>3, <1>4, KeepProgress
<1>5. CASE result.outcome = "ok"
  <2>1. /\ d.instance = replay.instance /\ replay.instance \in Instance
        /\ replay.instance.subject = s
    BY <1>1 DEF legacy_import, Base, Shape, ReplayShaped, ReplayHolds, Loaded
  <2>2. Expected \in Nat => Expected < d.instance.revision
    <3>1. Absent \notin Nat
      BY StoreAssumption
    <3> QED
      BY <1>1, <2>1, <3>1 DEF Expected, ReplayHolds, Ahead
  <2>3. result = commit(st, d, Expected)
    BY <1>3, <1>5, AttemptFacts
  <2>4. sides'[Follower] = result.store
    BY <1>2, <1>3 DEF Took, Base, Shape
  <2>5. Sound(st)
    BY <1>2 DEF Base, Shape, SidesSound, Sound
  <2> HIDE DEF d
  <2>6. result.store.instances[s] = d.instance
    BY <1>2, <1>5, <2>1, <2>2, <2>3, <2>5, CommitGood
  <2> QED
    BY <1>1, <1>2, <1>3, <1>5, <2>1, <2>4, <2>6, ReconciledProgress
<1> QED
  BY <1>4, <1>5

(* Observations follow an instance without decisions. *)
LEMMA LateProgress ==
  ASSUME Base, ReplayHolds, CatchUpKnows, OwnRecords(sides[Leader]), Late
  PROVE  Progress
<1> DEFINE s == Current.subject
<1>1. /\ replay.pc = "late" /\ sides' = sides /\ Unmoved /\ Working
      /\ replay.records = << >>
  BY DEF Late, At, Working, ReplayHolds, WayOn
<1>2. /\ Destination = Follower /\ \A x \in Side : Good(sides[x], sides'[x])
      /\ Follower \in Side /\ Leader \in Side /\ s \in Subjects
  BY <1>1, Ends, BaseUnmoved
<1>3. CASE Restore(revision_of(sides[Destination], s), "cleared")
  <2>1. /\ replay'.pc = "restore" /\ replay'.next = 1 /\ replay'.after = "cleared"
        /\ replay'.upto = revision_of(sides[Follower], s)
        /\ replay'.todo = replay.todo /\ replay'.taken = replay.taken
        /\ replay'.still = replay.still /\ replay'.records = replay.records
        /\ replay'.observations = replay.observations
        /\ replay'.instance = replay.instance
    BY <1>2, <1>3 DEF Restore, Base, Shape, ReplayShaped, Fields
  <2>2. AsRead'
    BY <1>1, <2>1, AsReadKept DEF CatchUpKnows, Unmoved
  <2>3. BelievedCovers'
    BY <1>1, <2>1 DEF BelievedCovers, Replaying
  <2>4. Caught'
    <3>1. Compared' => Compared
      BY <1>1 DEF Compared
    <3> QED
      BY <1>1, <1>2, <2>1, <3>1, CaughtKept DEF CatchUpKnows, Unmoved
  <2>5. ASSUME NEW j \in DOMAIN replay.observations
        PROVE  IsDue(replay.observations[j])' /\ ~(j < replay'.next)
    <3>1. CaughtUp(sides[Leader], sides[Follower], s)
      BY <1>1 DEF CatchUpKnows, Caught, Compared
    <3>2. Attained(sides[Leader], s, replay.observations[j].revision)
      BY <1>1, <1>2 DEF CatchUpKnows, AsRead, OwnRecords
    <3>3. /\ sides[Leader].instances[s] # None /\ sides[Follower].instances[s] # None
          /\ replay.observations[j].revision <= sides[Leader].instances[s].revision
          /\ sides[Leader].instances[s].revision <= sides[Follower].instances[s].revision
      BY <3>1, <3>2 DEF CaughtUp, Attained
    <3>4. /\ sides[Leader].instances[s].revision \in Nat
          /\ sides[Follower].instances[s].revision \in Nat
          /\ replay.observations[j].revision \in Nat /\ None \notin Nat
          /\ ~(j < 1)
      <4>1. /\ sides[Leader].instances[s].revision \in Nat
            /\ sides[Follower].instances[s].revision \in Nat
        BY <1>2, <3>3, ShapedFacts, InstanceFacts DEF Base, Shape
      <4>2. replay.observations[j] \in RecordedObservation /\ ~(j < 1)
        BY DEF Base, Shape, ReplayShaped
      <4> QED
        BY <4>1, <4>2, StoreAssumption DEF RecordedObservation
    <3> QED
      BY <2>1, <3>3, <3>4 DEF IsDue, revision_of
  <2>6. Restoration'
    <3>1. ~AllRestored'
      BY <2>1 DEF AllRestored
    <3> QED
      BY <2>1, <2>5, <3>1 DEF Restoration, IsDue
  <2> QED
    BY <2>1, <2>2, <2>3, <2>4, <2>6 DEF Progress, Onward, CatchUpKnows
<1> QED
  BY <1>3, KeepProgress DEF Late

(* Every step on a divergence. *)
LEMMA CatchUpProgress ==
  ASSUME Base, ReplayHolds, CatchUpKnows, OwnRecords(sides[Leader]), CatchUpStep, ~Finish
  PROVE  Progress
  BY ReadRecordsProgress, ReadObservationsProgress, ReadHeldProgress,
     ReadExistingProgress, ReplayRecordProgress, CompareObservationProgress,
     RestoreObservationProgress, RestoredProgress, CommitRecordProgress,
     LoadSourceProgress, ReadEventsProgress, CompareProgress, MirrorProgress,
     LateProgress, Zenon DEF CatchUpStep

-----------------------------------------------------------------------------
(* The steps, for a store that leads. *)

(* What a steady store is made of, after a step. *)
LEMMA SteadyNext ==
  ASSUME setup' = setup, policy' = policy, OwnRecords(sides'[Leader]), CatchUpKnows',
         Listed(sides'[Leader], divergences', replay'), HalfWritten(sides'[Leader], call'),
         AllFollowed(sides'[Leader], sides'[Follower], divergences', replay', call')
  PROVE  SteadyHolds'
<1>1. Leader' = Leader /\ Follower' = Follower
  BY SameEnds
<1>2. OwnRecords(sides[Leader])'
  BY <1>1 DEF OwnRecords, Attained
<1>3. Listed(sides[Leader], divergences, replay)'
  BY <1>1 DEF Listed, AllAttained, Attained
<1>4. HalfWritten(sides[Leader], call)'
  BY <1>1 DEF HalfWritten, Attained
<1>5. AllFollowed(sides[Leader], sides[Follower], divergences, replay, call)'
  BY <1>1 DEF AllFollowed, Followed, Holds, Has
<1> QED
  BY <1>2, <1>3, <1>4, <1>5 DEF SteadyHolds

(* Between two divergences nothing has to be known. *)
LEMMA NothingBelieved ==
  ASSUME replay'.pc \in {"idle", "remember", "next"}
  PROVE  CatchUpKnows'
<1>1. AsRead'
  BY Zenon DEF AsRead, Working
<1>2. BelievedCovers'
  BY Zenon DEF BelievedCovers, Replaying, Working
<1>3. Restoration' /\ Caught'
  BY DEF Restoration, Caught, Compared, RestoresAll, AllRestored
<1> QED
  BY <1>1, <1>2, <1>3 DEF CatchUpKnows

(* Divergences that were written stay so. *)
LEMMA AttainedKept ==
  ASSUME NEW old, NEW nu, Sound(old), Good(old, nu),
         NEW held \in Seq(Divergence), AllAttained(old, held)
  PROVE  AllAttained(nu, held)
<1> SUFFICES ASSUME NEW i \in DOMAIN held
             PROVE  Attained(nu, held[i].subject, held[i].revision)
  BY DEF AllAttained
<1>1. held[i].subject \in Subjects /\ held[i].revision \in Nat
  <2>1. held[i] \in Divergence
    OBVIOUS
  <2> QED
    BY <2>1 DEF Divergence
<1>2. Attained(old, held[i].subject, held[i].revision)
  BY DEF AllAttained
<1> QED
  BY <1>1, <1>2, HasKept

LEMMA ListedKept ==
  ASSUME Base, NEW nu, Good(sides[Leader], nu), Listed(sides[Leader], divergences, replay)
  PROVE  Listed(nu, divergences, replay)
<1>1. /\ divergences \in Seq(Divergence) /\ replay.taken \in Seq(Divergence)
      /\ replay.todo \in Seq(Divergence) /\ replay.still \in Seq(Divergence)
  BY DEF Base, Shape, ReplayShaped
<1>2. Sound(sides[Leader])
  BY Ends DEF Base, Shape, SidesSound, Sound
<1> DEFINE st == sides[Leader]
<1>3. /\ AllAttained(st, divergences) /\ AllAttained(st, replay.taken)
      /\ AllAttained(st, replay.todo) /\ AllAttained(st, replay.still)
      /\ InHand(divergences, replay)
  BY DEF Listed
<1> HIDE DEF st
<1>4. /\ AllAttained(nu, divergences) /\ AllAttained(nu, replay.taken)
      /\ AllAttained(nu, replay.todo) /\ AllAttained(nu, replay.still)
  BY <1>1, <1>2, <1>3, AttainedKept DEF st
<1> QED
  BY <1>3, <1>4 DEF Listed

LEMMA FollowedKept ==
  ASSUME NEW leader, NEW old, NEW nu, Good(old, nu), NEW c, NEW s \in Subjects,
         Followed(leader, old, c, s)
  PROVE  Followed(leader, nu, c, s)
  BY HasKept DEF Followed

(* A write that is half done stays so. *)
LEMMA HalfKept ==
  ASSUME Base, NEW nu, Good(sides[Leader], nu), HalfWritten(sides[Leader], call)
  PROVE  HalfWritten(nu, call)
<1> SUFFICES ASSUME call.pc = "second"
             PROVE  Attained(nu, SubjectOf(call.write), RevisionOf(call.write))
  BY DEF HalfWritten
<1> DEFINE w == call.write
<1>1. w \in Write /\ Valid(w)
  BY SetupFacts DEF Base, OneAtATime, Shape
<1>2. Sound(sides[Leader])
  BY Ends DEF Base, Shape, SidesSound, Sound
<1>3. Leader \in Side
  BY Ends
<1>4. SubjectOf(w) \in Subjects /\ RevisionOf(w) \in Nat
  <2>1. DivergenceOf(w, Leader) \in Divergence
    <3> HIDE DEF w
    <3> QED
      BY <1>1, <1>3, DivergenceTyped
  <2>2. /\ DivergenceOf(w, Leader).subject = SubjectOf(w)
        /\ DivergenceOf(w, Leader).revision = RevisionOf(w)
    BY DEF DivergenceOf, RevisionOf
  <2> HIDE DEF w
  <2> QED
    BY <2>1, <2>2 DEF Divergence
<1>5. Attained(sides[Leader], SubjectOf(w), RevisionOf(w))
  BY DEF HalfWritten
<1> HIDE DEF w
<1>6. Attained(nu, SubjectOf(w), RevisionOf(w))
  BY <1>2, <1>4, <1>5, HasKept
<1> QED
  BY <1>6 DEF w

(* The lists of a catch-up that puts a divergence away. *)
LEMMA PutAwayLists ==
  ASSUME Base, replay.todo # << >>, replay.pc \notin {"idle", "remember"},
         NEW leader, Listed(leader, divergences, replay), Keep \/ Cleared
  PROVE  /\ Listed(leader, divergences, replay')
         /\ \A s : Awaited(divergences, replay, s) =>
              Awaited(divergences, replay', s) \/ s = Current.subject
         /\ Keep => About(replay'.still, Current.subject)
<1> DEFINE more == Append(replay.still, Current)
<1>1. /\ replay.todo \in Seq(Divergence) /\ replay.still \in Seq(Divergence)
      /\ Current = replay.todo[1] /\ 1 \in DOMAIN replay.todo
      /\ \A i \in DOMAIN replay.todo : i = 1 \/ i - 1 \in DOMAIN Tail(replay.todo)
      /\ \A i \in DOMAIN Tail(replay.todo) :
           i + 1 \in DOMAIN replay.todo /\ Tail(replay.todo)[i] = replay.todo[i + 1]
  BY DEF Base, Shape, ReplayShaped, Current
<1>2. /\ \A i \in DOMAIN more : \/ i \in DOMAIN replay.still /\ more[i] = replay.still[i]
                                \/ more[i] = replay.todo[1]
      /\ \A i \in DOMAIN replay.still : i \in DOMAIN more /\ more[i] = replay.still[i]
      /\ \E i \in DOMAIN more : more[i] = replay.todo[1]
  <2>1. Current \in Divergence /\ replay.still \in Seq(Divergence)
    BY <1>1
  <2>2. /\ DOMAIN more = DOMAIN replay.still \cup {Len(replay.still) + 1}
        /\ \A i \in DOMAIN replay.still : more[i] = replay.still[i]
        /\ more[Len(replay.still) + 1] = Current
    BY <2>1, AppendFacts
  <2> HIDE DEF more
  <2> QED
    BY <1>1, <2>2
<1>3. PICK still \in {replay.still, more} :
        /\ replay' = [NoReplay EXCEPT !.pc = "next", !.taken = replay.taken,
                        !.todo = Tail(replay.todo), !.still = still]
        /\ Keep => still = more
  BY DEF Keep, Cleared
<1>4. /\ replay'.pc = "next" /\ replay'.taken = replay.taken
      /\ replay'.todo = Tail(replay.todo) /\ replay'.still = still
  BY <1>3 DEF NoReplay
<1> HIDE DEF more
<1>5. /\ \A i \in DOMAIN still : \/ i \in DOMAIN replay.still /\ still[i] = replay.still[i]
                                 \/ still[i] = replay.todo[1]
      /\ \A i \in DOMAIN replay.still : i \in DOMAIN still /\ still[i] = replay.still[i]
  BY <1>2
<1>6. /\ divergences = << >> /\ AllIn(divergences, replay.taken)
      /\ AllIn(replay.todo, replay.taken) /\ AllIn(replay.still, replay.taken)
      /\ AllAttained(leader, replay.taken)
      /\ AllAttained(leader, replay.todo) /\ AllAttained(leader, replay.still)
      /\ AllAttained(leader, divergences)
  BY DEF Listed, InHand
<1>7. AllIn(Tail(replay.todo), replay.taken) /\ AllAttained(leader, Tail(replay.todo))
  BY <1>1, <1>6 DEF AllIn, AllAttained
<1>8. AllIn(still, replay.taken) /\ AllAttained(leader, still)
  <2>1. replay.todo[1] = Current /\ 1 \in DOMAIN replay.todo
    BY <1>1
  <2>2. \A i \in DOMAIN still : \/ \E j \in DOMAIN replay.still : still[i] = replay.still[j]
                                \/ \E j \in DOMAIN replay.todo : still[i] = replay.todo[j]
    BY <1>5, <2>1
  <2> HIDE DEF Current
  <2>3. AllIn(still, replay.taken)
    BY <1>6, <2>2 DEF AllIn
  <2>4. ASSUME NEW i \in DOMAIN still
        PROVE  Attained(leader, still[i].subject, still[i].revision)
    BY <1>6, <2>2 DEF AllAttained
  <2> QED
    BY <2>3, <2>4 DEF AllAttained
<1>9. Listed(leader, divergences, replay')
  BY <1>4, <1>6, <1>7, <1>8 DEF Listed, InHand
<1>10. ASSUME NEW s, Awaited(divergences, replay, s), s # Current.subject
       PROVE  Awaited(divergences, replay', s)
  <2>1. About(replay.todo, s) => About(Tail(replay.todo), s)
    <3> SUFFICES ASSUME NEW i \in DOMAIN replay.todo, replay.todo[i].subject = s
                 PROVE  About(Tail(replay.todo), s)
      BY DEF About
    <3>1. i # 1 /\ i \in Nat
      BY <1>1, <1>10
    <3>2. i - 1 \in DOMAIN Tail(replay.todo) /\ Tail(replay.todo)[i - 1] = replay.todo[i]
      BY <1>1, <3>1
    <3> QED
      BY <3>2 DEF About
  <2>2. About(replay.still, s) => About(still, s)
    BY <1>5 DEF About
  <2> QED
    BY <1>4, <1>10, <2>1, <2>2 DEF Awaited
<1>11. Keep => About(replay'.still, Current.subject)
  BY <1>1, <1>2, <1>3, <1>4 DEF About
<1> QED
  BY <1>9, <1>10, <1>11

(* A step on a divergence. *)
LEMMA CatchUpStepSteady ==
  ASSUME Base, ReplayHolds, SteadyHolds, CatchUpStep, ~Finish
  PROVE  SteadyHolds'
<1>1. Progress
  BY CatchUpProgress DEF SteadyHolds
<1>2. replay.pc \notin {"idle", "remember"} /\ replay.todo # << >>
  <2>1. replay.pc = "next" => replay.todo # << >>
    BY DEF CatchUpStep, Finish, ReadRecords, ReadObservations, ReadHeld, ReadExisting,
          ReplayRecord, CompareObservation, RestoreObservation, Restored, CommitRecord,
          LoadSource, ReadEvents, Compare, Mirror, Late, At
  <2>2. replay.pc \notin {"idle", "remember"}
    BY DEF CatchUpStep, Finish, ReadRecords, ReadObservations, ReadHeld, ReadExisting,
          ReplayRecord, CompareObservation, RestoreObservation, Restored, CommitRecord,
          LoadSource, ReadEvents, Compare, Mirror, Late, At
  <2> QED
    BY <2>1, <2>2 DEF Base, OneAtATime
<1>3. /\ sides'[Leader] = sides[Leader] /\ Unmoved
      /\ \A x \in Side : Good(sides[x], sides'[x])
  <2>1. CASE Working
    BY <2>1, LeaderStays
  <2>2. CASE ~Working
    <3>1. ReadRecords
      BY <1>2, <2>2
        DEF Working, CatchUpStep, Finish, ReadRecords, ReadObservations, ReadHeld,
          ReadExisting, ReplayRecord, CompareObservation, RestoreObservation, Restored,
          CommitRecord, LoadSource, ReadEvents, Compare, Mirror, Late, At
    <3> QED
      BY <3>1, BaseUnmoved DEF ReadRecords
  <2> QED
    BY <2>1, <2>2
<1>4. Leader \in Side /\ Follower \in Side
  BY Ends
<1>5. /\ setup' = setup /\ policy' = policy /\ divergences' = divergences /\ call' = call
      /\ OwnRecords(sides'[Leader]) /\ HalfWritten(sides'[Leader], call')
  BY <1>3 DEF Unmoved, SteadyHolds
<1>6. ASSUME NEW s \in Subjects,
             Followed(sides[Leader], sides[Follower], call, s)
      PROVE  Followed(sides'[Leader], sides'[Follower], call', s)
  BY <1>3, <1>4, <1>5, <1>6, FollowedKept
<1>7. CASE Keep \/ Cleared
  <2>1. /\ Listed(sides[Leader], divergences, replay')
        /\ \A s : Awaited(divergences, replay, s) =>
             Awaited(divergences, replay', s) \/ s = Current.subject
        /\ Keep => About(replay'.still, Current.subject)
    BY <1>2, <1>7, PutAwayLists DEF SteadyHolds
  <2>2. replay'.pc = "next"
    BY <1>2, <1>7, PutAway DEF Base
  <2>3. CatchUpKnows'
    BY <2>2, NothingBelieved
  <2>4. \/ Awaited(divergences, replay', Current.subject)
        \/ Followed(sides'[Leader], sides'[Follower], call', Current.subject)
    <3>1. CASE Keep
      BY <2>1, <3>1 DEF Awaited
    <3>2. CASE Delivered(sides[Leader], sides'[Follower], Current.subject)
      BY <1>3, <3>2 DEF Delivered, Followed
    <3>3. ~(replay'.pc \notin {"idle", "remember", "next"})
      BY <2>2
    <3> QED
      BY <1>1, <3>1, <3>2, <3>3 DEF Progress, Onward
  <2>5. AllFollowed(sides'[Leader], sides'[Follower], divergences', replay', call')
    BY <1>5, <1>6, <2>1, <2>4 DEF AllFollowed, SteadyHolds
  <2> QED
    BY <1>3, <1>5, <2>1, <2>3, <2>5, SteadyNext
<1>8. CASE Onward /\ CatchUpKnows'
  <2>1. \A s : Awaited(divergences, replay, s) => Awaited(divergences, replay', s)
    BY <1>8 DEF Onward, Awaited
  <2>2. Listed(sides'[Leader], divergences', replay')
    BY <1>2, <1>3, <1>5, <1>8 DEF Onward, Listed, InHand, SteadyHolds
  <2>3. AllFollowed(sides'[Leader], sides'[Follower], divergences', replay', call')
    BY <1>5, <1>6, <2>1 DEF AllFollowed, SteadyHolds
  <2> QED
    BY <1>5, <1>8, <2>2, <2>3, SteadyNext
<1> QED
  BY <1>1, <1>7, <1>8 DEF Progress

-----------------------------------------------------------------------------
(* The steps outside the catch-up, for a store that leads. *)

(* What the catch-up knows does not change when nothing it knows of does. *)
LEMMA KnowsStill ==
  ASSUME CatchUpKnows, UNCHANGED <<setup, policy, sides, replay>>
  PROVE  CatchUpKnows'
<1>1. /\ Leader' = Leader /\ Follower' = Follower /\ Current' = Current
      /\ sides'[Leader'] = sides[Leader] /\ sides'[Follower'] = sides[Follower]
  BY SameEnds DEF Current
<1>2. AsRead'
  BY <1>1 DEF CatchUpKnows, AsRead, Working
<1>3. BelievedCovers'
  <2>1. /\ \A e : Reaches(e)' <=> Reaches(e)
        /\ Replaying' <=> Replaying
    BY DEF Reaches, Replaying, Working
  <2> QED
    BY <1>1, <2>1 DEF CatchUpKnows, BelievedCovers
<1>4. Restoration'
  <2>1. /\ RestoresAll' <=> RestoresAll
        /\ AllRestored' <=> AllRestored
        /\ \A o : IsDue(o)' <=> IsDue(o)
    BY DEF RestoresAll, AllRestored, IsDue
  <2> QED
    BY <1>1, <2>1 DEF CatchUpKnows, Restoration
<1>5. Caught'
  <2>1. /\ Compared' <=> Compared
        /\ Alone' <=> Alone
    BY DEF Compared, Alone
  <2> QED
    BY <1>1, <2>1 DEF CatchUpKnows, Caught, CaughtUp
<1> QED
  BY <1>2, <1>3, <1>4, <1>5 DEF CatchUpKnows

(* A step that moves no side, halves no write and forgets no divergence. *)
Still ==
  /\ UNCHANGED <<setup, policy, sides>>
  /\ call' = call \/ (call.pc # "second" /\ call'.pc # "second")
  /\ \A s \in Subjects : Awaited(divergences, replay, s) => Awaited(divergences', replay', s)

LEMMA SidesStill ==
  ASSUME SteadyHolds, Still, CatchUpKnows', Listed(sides[Leader], divergences', replay')
  PROVE  SteadyHolds'
<1>1. OwnRecords(sides'[Leader]) /\ HalfWritten(sides'[Leader], call')
  BY DEF SteadyHolds, HalfWritten, Still
<1>2. ASSUME NEW s \in Subjects, Followed(sides[Leader], sides[Follower], call, s)
      PROVE  Followed(sides'[Leader], sides'[Follower], call', s)
  BY <1>2 DEF Followed, Owing, Still
<1>3. AllFollowed(sides'[Leader], sides'[Follower], divergences', replay', call')
  BY <1>2 DEF AllFollowed, SteadyHolds, Still
<1> QED
  BY <1>1, <1>3, SteadyNext DEF Still

(* Nothing but what serves or what is asked changes. *)
LEMMA AsideSteady ==
  ASSUME SteadyHolds, UNCHANGED <<setup, policy, sides, divergences, replay>>,
         call' = call \/ (call.pc # "second" /\ call'.pc # "second")
  PROVE  SteadyHolds' /\ Still
<1>1. Still
  BY DEF Still, Awaited
<1> QED
  BY <1>1, KnowsStill, SidesStill DEF SteadyHolds

(* The divergences outside a catch-up. *)
LEMMA IdleHands ==
  ASSUME NEW held, NEW x, InHand(held, x), x.pc = "idle"
  PROVE  /\ x.todo = << >> /\ x.still = << >>
         /\ \A s : Awaited(held, x, s) <=> About(held, s)
  BY DEF InHand, Awaited, About

(* What a sequence is about, a longer one is. *)
LEMMA AboutAll ==
  ASSUME NEW a, NEW b, AllIn(a, b)
  PROVE  /\ \A s : About(a, s) => About(b, s)
         /\ \A leader : AllAttained(leader, b) => AllAttained(leader, a)
  BY DEF AllIn, About, AllAttained

(* A catch-up starts with the divergences recorded. *)
LEMMA CatchUpSteady ==
  ASSUME Base, SteadyHolds, CatchUp
  PROVE  SteadyHolds' /\ Still
<1>1. /\ UNCHANGED <<setup, policy, sides, call>> /\ divergences' = << >>
      /\ replay.pc = "idle" /\ replay'.pc = "next" /\ replay'.taken = divergences
      /\ replay'.todo = divergences /\ replay'.still = << >>
  BY DEF CatchUp, Resting, NoReplay
<1>2. CatchUpKnows'
  BY <1>1, NothingBelieved
<1>3. \A s : Awaited(divergences, replay, s) <=> About(divergences, s)
  BY <1>1, IdleHands DEF SteadyHolds, Listed
<1>4. Listed(sides[Leader], divergences', replay')
  BY <1>1 DEF SteadyHolds, Listed, InHand, AllIn, AllAttained
<1>5. Still
  BY <1>1, <1>3 DEF Still, Awaited
<1> QED
  BY <1>2, <1>1, <1>4, <1>5, SidesStill

(* The catch-up is over. *)
LEMMA FinishSteady ==
  ASSUME Base, SteadyHolds, Finish
  PROVE  SteadyHolds' /\ Still
<1>1. /\ UNCHANGED <<setup, policy, sides, call>> /\ divergences' = replay.still
      /\ replay.pc = "next" /\ replay.todo = << >>
      /\ replay'.pc = "idle" /\ replay'.taken = << >>
      /\ replay'.todo = << >> /\ replay'.still = << >>
  BY DEF Finish, At, NoReplay
<1>2. CatchUpKnows'
  BY <1>1, NothingBelieved
<1>3. divergences = << >>
  BY <1>1 DEF SteadyHolds, Listed, InHand
<1>4. Listed(sides[Leader], divergences', replay')
  BY <1>1 DEF SteadyHolds, Listed, InHand, AllAttained
<1>5. Still
  BY <1>1, <1>3 DEF Still, Awaited, About
<1> QED
  BY <1>2, <1>1, <1>4, <1>5, SidesStill

(* The process stops: everything awaited had been saved. *)
LEMMA RestartSteady ==
  ASSUME Base, SteadyHolds, Restart
  PROVE  SteadyHolds' /\ Still
<1>1. /\ UNCHANGED <<setup, policy, sides, call>> /\ divergences' = << >>
  BY DEF Restart
<1>2. /\ replay'.pc \in {"idle", "remember"} /\ replay'.still = << >>
      /\ replay'.taken = Saved /\ replay'.todo = Saved
      /\ replay'.pc = "idle" => Saved = << >>
  <2>1. CASE replay' = NoReplay /\ Saved = << >>
    BY <2>1 DEF NoReplay
  <2>2. CASE replay' = [NoReplay EXCEPT !.pc = "remember", !.taken = Saved, !.todo = Saved]
    BY <2>2 DEF NoReplay
  <2> QED
    BY <2>1, <2>2 DEF Restart
<1>3. CatchUpKnows'
  BY <1>2, NothingBelieved
<1>4. \A s : Awaited(divergences, replay, s) => About(Saved, s)
  <2>1. InHand(divergences, replay)
    BY DEF SteadyHolds, Listed
  <2>2. CASE replay.pc = "idle"
    BY <2>1, <2>2, IdleHands DEF Saved
  <2>3. CASE replay.pc # "idle"
    <3>1. Saved = replay.taken
      BY <2>3 DEF Saved
    <3> QED
      BY <2>1, <2>3, <3>1, AboutAll DEF InHand, Awaited
  <2> QED
    BY <2>2, <2>3
<1>5. Listed(sides[Leader], divergences', replay')
  <2>1. AllAttained(sides[Leader], Saved)
    BY DEF SteadyHolds, Listed, Saved
  <2> QED
    BY <1>1, <1>2, <2>1 DEF Listed, InHand, AllAttained, AllIn
<1>6. \A s : Awaited(divergences, replay, s) => Awaited(divergences', replay', s)
  BY <1>2, <1>4 DEF Awaited
<1>7. Still
  BY <1>1, <1>6 DEF Still
<1> QED
  BY <1>3, <1>5, <1>7, SidesStill

(* One divergence is handed back. *)
LEMMA rememberSteady ==
  ASSUME Base, SteadyHolds, remember
  PROVE  SteadyHolds' /\ Still
<1>1. /\ UNCHANGED <<setup, policy, sides, call>> /\ replay.pc = "remember"
      /\ replay.todo # << >>
  BY DEF remember, At, Base, OneAtATime
<1>2. /\ replay.todo \in Seq(Divergence) /\ divergences \in Seq(Divergence)
      /\ Current = replay.todo[1] /\ 1 \in DOMAIN replay.todo
  BY <1>1 DEF Base, Shape, ReplayShaped, Current
<1>3. /\ \A i \in DOMAIN replay.todo : i = 1 \/ i - 1 \in DOMAIN Tail(replay.todo)
      /\ \A i \in DOMAIN Tail(replay.todo) :
           i + 1 \in DOMAIN replay.todo /\ Tail(replay.todo)[i] = replay.todo[i + 1]
  BY <1>1, <1>2
<1>4. /\ \A i \in DOMAIN divergences' :
           divergences'[i] = Current \/ \E j \in DOMAIN divergences : divergences'[i] = divergences[j]
      /\ AllIn(divergences, divergences')
      /\ \E i \in DOMAIN divergences' : divergences'[i] = Current
  <2>1. CASE Current \in ToSet(divergences) /\ divergences' = divergences
    BY <2>1 DEF ToSet, AllIn
  <2>2. CASE divergences' = Append(divergences, Current)
    BY <1>2, <2>2 DEF AllIn
  <2> QED
    BY <2>1, <2>2 DEF remember
<1>5. /\ replay'.pc \in {"idle", "remember"} /\ replay'.still = << >>
      /\ replay'.todo = Tail(replay.todo)
      /\ replay'.pc = "idle" => replay'.taken = << >> /\ replay'.todo = << >>
      /\ replay'.pc = "remember" => replay'.taken = replay.taken
  <2>1. replay.still = << >>
    BY <1>1 DEF SteadyHolds, Listed, InHand
  <2>2. CASE Tail(replay.todo) = << >> /\ replay' = NoReplay
    BY <2>2 DEF NoReplay
  <2>3. CASE replay' = [replay EXCEPT !.todo = Tail(@)]
    BY <1>1, <2>1, <2>3 DEF Base, Shape, ReplayShaped, Fields
  <2> QED
    BY <2>2, <2>3 DEF remember
<1>6. CatchUpKnows'
  BY <1>5, NothingBelieved
<1>7. AllIn(replay'.todo, replay.todo)
  BY <1>3, <1>5 DEF AllIn
<1>8. /\ InHand(divergences, replay) /\ AllAttained(sides[Leader], divergences)
      /\ AllAttained(sides[Leader], replay.todo) /\ AllAttained(sides[Leader], replay.taken)
      /\ replay.still = << >>
  BY <1>1 DEF SteadyHolds, Listed, InHand
<1>9. Listed(sides[Leader], divergences', replay')
  <2>1. AllAttained(sides[Leader], divergences')
    BY <1>2, <1>4, <1>8 DEF AllAttained
  <2>2. AllAttained(sides[Leader], replay'.todo)
    BY <1>7, <1>8, AboutAll
  <2>3. AllAttained(sides[Leader], replay'.taken) /\ AllAttained(sides[Leader], replay'.still)
    BY <1>5, <1>8 DEF AllAttained
  <2>4. InHand(divergences', replay')
    <3>1. AllIn(divergences', replay.taken) /\ AllIn(replay'.todo, replay.taken)
      BY <1>1, <1>2, <1>4, <1>7, <1>8 DEF InHand, AllIn
    <3> QED
      BY <1>5, <3>1 DEF InHand, AllIn
  <2> QED
    BY <2>1, <2>2, <2>3, <2>4 DEF Listed
<1>10. ASSUME NEW s, Awaited(divergences, replay, s)
       PROVE  Awaited(divergences', replay', s)
  <2>1. CASE About(divergences, s)
    BY <1>4, <2>1, AboutAll DEF Awaited
  <2>2. CASE About(replay.todo, s)
    <3>1. PICK i \in DOMAIN replay.todo : replay.todo[i].subject = s
      BY <2>2 DEF About
    <3>2. CASE i = 1
      BY <1>2, <1>4, <3>1, <3>2 DEF Awaited, About
    <3>3. CASE i # 1
      <4>1. /\ i - 1 \in DOMAIN replay'.todo /\ replay'.todo[i - 1] = replay.todo[(i - 1) + 1]
            /\ (i - 1) + 1 = i
        BY <1>2, <1>3, <1>5, <3>1, <3>3
      <4> QED
        BY <3>1, <4>1 DEF Awaited, About
    <3> QED
      BY <3>2, <3>3
  <2> QED
    BY <1>8, <1>10, <2>1, <2>2 DEF Awaited, About
<1>11. Still
  BY <1>1, <1>10 DEF Still
<1> QED
  BY <1>6, <1>9, <1>11, SidesStill

(* A write that the leader takes keeps its records its own. *)
LEMMA LeaderWrites ==
  ASSUME NEW st, Sound(st), OwnRecords(st), NoSuffix, NEW w \in setup.writes,
         w \in Write, Forward(w), Perform(st, w).outcome = "ok"
  PROVE  /\ OwnRecords(Perform(st, w).store)
         /\ Attained(Perform(st, w).store, SubjectOf(w), RevisionOf(w))
<1> DEFINE nu == Perform(st, w).store
           z  == SubjectOf(w)
           d  == w.document
<1>1. Adds(st, w, nu) /\ Good(st, nu) /\ Done(st, w, nu)
  BY WriteDone
<1>2. /\ w.kind \in {"commit", "commit_recorded", "observe"} /\ z \in Subjects
      /\ w.kind # "observe" => d.instance \in Instance /\ z = d.instance.subject
      /\ w.kind = "observe" => z = d.subject /\ d.revision \in Nat
  <2>1. CASE w.kind = "commit"
    BY <2>1, InstanceFacts DEF Write, Decision, SubjectOf, Instance
  <2>2. CASE w.kind = "commit_recorded"
    BY <2>2, InstanceFacts DEF Write, RecordedCommit, SubjectOf, Instance
  <2>3. CASE w.kind = "observe"
    BY <2>3 DEF Write, RecordedObservation, SubjectOf
  <2> QED
    BY <2>1, <2>2, <2>3 DEF Write
<1>3. Shaped(st) /\ Covered(st) /\ None \notin Instance
  BY KernelAssumption DEF Sound
<1> HIDE DEF nu, z, d
<1>4. ASSUME NEW s \in Subjects, st.records[s] # << >>
      PROVE  st.instances[s] # None
  <2>1. st.records[s] \in Seq(Envelope)
    BY <1>3, ShapedFacts
  <2>2. 1 \in DOMAIN st.records[s]
    BY <1>4, <2>1
  <2> QED
    BY <1>3, <2>2 DEF Covered, NotPast
<1>5. w.kind = "commit" => /\ st.records[z] = << >>
                           /\ nu.instances[z] = d.instance /\ nu.records = st.records
                           /\ nu.observations = st.observations
  <2> SUFFICES ASSUME w.kind = "commit"
               PROVE  /\ st.records[z] = << >>
                      /\ nu.instances[z] = d.instance /\ nu.records = st.records
                      /\ nu.observations = st.observations
    OBVIOUS
  <2>1. /\ check(w.expect, revision_of(st, z)) /\ nu.instances[z] = d.instance
        /\ nu.records = st.records /\ nu.observations = st.observations
    BY <1>1 DEF Done, z, d
  <2>2. ASSUME st.records[z] # << >>
        PROVE  FALSE
    <3>1. PICK i \in DOMAIN st.records[z] : TRUE
      BY <1>2, <2>2 DEF OwnRecords
    <3>2. PICK v \in setup.writes : v.kind = "commit_recorded" /\ SubjectOf(v) = z
      BY <1>2, <3>1 DEF OwnRecords
    <3>3. w.expect = Absent
      BY <3>2 DEF NoSuffix, z
    <3>4. st.instances[z] # None /\ st.instances[z].revision \in Nat
      BY <1>2, <1>3, <1>4, <2>2, ShapedFacts, InstanceFacts
    <3> QED
      BY <2>1, <3>3, <3>4, StoreAssumption DEF check, revision_of
  <2> QED
    BY <2>1, <2>2
<1>6. w.kind = "commit_recorded" =>
        /\ Holds(nu, z, d.envelope) /\ d.envelope.result = d.instance
        /\ NotPast(d.instance, nu.instances[z]) /\ nu.observations = st.observations
        /\ nu = st \/ nu.instances[z] = d.instance
  BY <1>1 DEF Done, CommitValid, z, d
<1>7. w.kind = "observe" =>
        /\ Has(nu, z, d) /\ nu.instances = st.instances /\ nu.records = st.records
        /\ nu = st \/ check(d.revision, revision_of(st, z))
  BY <1>1 DEF Done, z, d
<1>8. ASSUME NEW s \in Subjects, NEW i \in DOMAIN nu.records[s]
      PROVE  \E v \in setup.writes :
               /\ v.kind = "commit_recorded" /\ SubjectOf(v) = s
               /\ v.document.envelope = nu.records[s][i]
  BY <1>1, <1>8 DEF Adds, OwnRecords, z, d
<1>9. ASSUME NEW s \in Subjects, nu.records[s] # << >>
      PROVE  \E i \in DOMAIN nu.records[s] : nu.records[s][i].result = nu.instances[s]
  <2>1. ASSUME st.records[s] # << >>, nu.instances[s] = st.instances[s]
        PROVE  \E i \in DOMAIN nu.records[s] : nu.records[s][i].result = nu.instances[s]
    <3>1. PICK i \in DOMAIN st.records[s] : st.records[s][i].result = st.instances[s]
      BY <2>1 DEF OwnRecords
    <3>2. Holds(nu, s, st.records[s][i])
      BY <1>1, HasKept DEF Holds
    <3> QED
      BY <2>1, <3>1, <3>2 DEF Holds
  <2>2. CASE s # z
    <3>1. nu.instances[s] = st.instances[s]
      BY <1>1, <2>2 DEF Adds, z
    <3>2. st.records[s] # << >>
      <4>1. nu.records[s] \in Seq(Envelope)
        BY <1>1, ShapedFacts DEF Good, Sound
      <4>2. 1 \in DOMAIN nu.records[s]
        BY <1>9, <4>1
      <4>3. \E j \in DOMAIN st.records[s] : nu.records[s][1] = st.records[s][j]
        BY <1>1, <2>2, <4>2 DEF Adds, z
      <4> QED
        BY <4>3
    <3> QED
      BY <2>1, <3>1, <3>2
  <2>3. CASE s = z /\ w.kind = "commit_recorded"
    <3>1. CASE nu = st
      BY <1>9, <2>1, <3>1
    <3>2. CASE nu.instances[z] = d.instance
      BY <1>6, <2>3, <3>2 DEF Holds
    <3> QED
      BY <1>6, <2>3, <3>1, <3>2
  <2>4. CASE s = z /\ w.kind = "observe"
    BY <1>7, <1>9, <2>1, <2>4
  <2>5. CASE s = z /\ w.kind = "commit"
    BY <1>5, <1>9, <2>5
  <2> QED
    BY <1>2, <2>2, <2>3, <2>4, <2>5
<1>10. ASSUME NEW s \in Subjects, NEW n \in Nat, Attained(st, s, n)
       PROVE  Attained(nu, s, n)
  BY <1>1, <1>10, HasKept
<1>11. ASSUME w.kind = "observe"
       PROVE  Attained(nu, z, d.revision)
  <2>1. nu.instances = st.instances
    BY <1>7, <1>11
  <2>2. CASE nu = st
    <3>1. PICK i \in DOMAIN st.observations[z] : st.observations[z][i] = d
      BY <1>7, <1>11, <2>2 DEF Has
    <3> QED
      BY <1>2, <2>2, <3>1 DEF OwnRecords
  <2>3. CASE check(d.revision, revision_of(st, z))
    <3>1. d.revision \in Nat
      BY <1>2, <1>11
    <3>2. st.instances[z] # None /\ st.instances[z].revision = d.revision
      BY <2>3, <3>1, StoreAssumption DEF check, revision_of
    <3> QED
      BY <2>1, <3>1, <3>2 DEF Attained
  <2> QED
    BY <1>7, <1>11, <2>2, <2>3
<1>12. ASSUME NEW s \in Subjects, NEW i \in DOMAIN nu.observations[s]
       PROVE  Attained(nu, s, nu.observations[s][i].revision)
  <2>1. CASE \E j \in DOMAIN st.observations[s] : nu.observations[s][i] = st.observations[s][j]
    <3>1. PICK j \in DOMAIN st.observations[s] : nu.observations[s][i] = st.observations[s][j]
      BY <2>1
    <3>2. Attained(st, s, st.observations[s][j].revision)
      BY DEF OwnRecords
    <3>3. st.observations[s] \in Seq(RecordedObservation)
      BY <1>3, ShapedFacts
    <3>4. st.observations[s][j] \in RecordedObservation
      BY <3>3
    <3>5. st.observations[s][j].revision \in Nat
      BY <3>4 DEF RecordedObservation
    <3> QED
      BY <1>10, <3>1, <3>2, <3>5
  <2>2. CASE w.kind = "observe" /\ s = z /\ nu.observations[s][i] = d
    BY <1>11, <2>2
  <2> QED
    BY <1>1, <1>12, <2>1, <2>2 DEF Adds, z, d
<1>13. OwnRecords(nu)
  BY <1>8, <1>9, <1>12 DEF OwnRecords
<1>14. Attained(nu, z, RevisionOf(w))
  <2>1. CASE w.kind = "observe"
    BY <1>11, <2>1 DEF RevisionOf, d
  <2>2. CASE w.kind = "commit"
    <3>1. nu.instances[z] = d.instance /\ d.instance # None /\ d.instance.revision \in Nat
      BY <1>2, <1>3, <1>5, <2>2, InstanceFacts
    <3> QED
      BY <2>2, <3>1 DEF RevisionOf, d, Attained
  <2>3. CASE w.kind = "commit_recorded"
    BY <1>6, <2>3 DEF RevisionOf, d, Attained, NotPast
  <2> QED
    BY <1>2, <2>1, <2>2, <2>3
<1> QED
  BY <1>13, <1>14 DEF nu, z

(* A leader that does not accept a write has not taken it. *)
LEMMA NotAccepted ==
  ASSUME Base, Steady, NEW w \in setup.writes,
         NEW result \in Attempts(Leader, Perform(sides[Leader], w)),
         Took(Leader, result), result.outcome # "ok"
  PROVE  sides' = sides
<1>1. w \in Write
  BY SetupFacts DEF Base, Shape
<1>2. result.store = sides[Leader]
  <2>1. CASE serving[Leader]
    BY <1>1, <2>1, RefusedLeaves DEF Attempts
  <2>2. CASE ~serving[Leader] /\ Leader = "local"
    BY <2>2 DEF Attempts, Answer
  <2>3. CASE ~serving[Leader] /\ Leader # "local"
    BY <2>3 DEF Attempts, Answer, Steady
  <2> QED
    BY <2>1, <2>2, <2>3
<1> QED
  BY <1>2 DEF Took, Base, Shape

(* The leader is asked. *)
LEMMA FirstSteady ==
  ASSUME Base, Steady, SteadyHolds, First
  PROVE  SteadyHolds'
<1>1. /\ call.pc = "first" /\ UNCHANGED <<setup, policy, serving, divergences, replay>>
  BY DEF First
<1>2. call.write \in setup.writes /\ Valid(call.write) /\ replay.pc = "idle"
  BY <1>1 DEF Base, OneAtATime
<1>3. PICK result \in Attempts(Leader, Perform(sides[Leader], call.write)) :
        /\ Took(Leader, result)
        /\ IF result.outcome = "ok" THEN call' = [call EXCEPT !.pc = "second"]
                                    ELSE Respond(result.outcome)
  BY DEF First, Leader
<1>4. CASE result.outcome # "ok"
  <2>1. sides' = sides
    BY <1>2, <1>3, <1>4, NotAccepted
  <2>2. call'.pc = "idle"
    BY <1>3, <1>4, Responded
  <2> QED
    BY <1>1, <2>1, <2>2, AsideSteady
<1>5. CASE result.outcome = "ok"
  <2> DEFINE w  == call.write
             st == sides[Leader]
             nu == sides'[Leader]
  <2>1. /\ w \in Write /\ Forward(w) /\ Sound(st) /\ sides'[Follower] = sides[Follower]
        /\ nu = Perform(st, w).store /\ Perform(st, w).outcome = "ok"
        /\ Good(st, nu)
    BY <1>2, <1>3, <1>5, AttemptGives, Ends
  <2>2. OwnRecords(nu) /\ Attained(nu, SubjectOf(w), RevisionOf(w)) /\ Adds(st, w, nu)
    BY <1>2, <2>1, LeaderWrites, WriteDone DEF Steady, SteadyHolds
  <2>3. call'.pc = "second" /\ call'.write = w
    BY <1>3, <1>5 DEF Base, Shape
  <2>4. CatchUpKnows'
    BY <1>1, <1>2, NothingBelieved
  <2>5. Listed(nu, divergences', replay') /\ HalfWritten(nu, call')
    BY <1>1, <2>1, <2>2, <2>3, ListedKept DEF SteadyHolds, HalfWritten
  <2> HIDE DEF w, st, nu
  <2>6. ASSUME NEW s \in Subjects, Followed(st, sides[Follower], call, s)
        PROVE  Followed(nu, sides'[Follower], call', s)
    <3>1. \A i \in DOMAIN nu.records[s] :
            \/ Holds(sides'[Follower], s, nu.records[s][i])
            \/ Owing(call', "commit_recorded", nu.records[s][i])
      BY <1>1, <2>1, <2>2, <2>3, <2>6 DEF Followed, Owing, Adds
    <3>2. \A i \in DOMAIN nu.observations[s] :
            \/ Has(sides'[Follower], s, nu.observations[s][i])
            \/ Owing(call', "observe", nu.observations[s][i])
      BY <1>1, <2>1, <2>2, <2>3, <2>6 DEF Followed, Owing, Adds
    <3> QED
      BY <3>1, <3>2 DEF Followed
  <2>7. AllFollowed(nu, sides'[Follower], divergences', replay', call')
    BY <1>1, <2>6 DEF AllFollowed, SteadyHolds, st
  <2> QED
    BY <1>1, <2>2, <2>4, <2>5, <2>7, SteadyNext DEF nu
<1> QED
  BY <1>4, <1>5

(* An entry that is owing is of the subject that is written. *)
LEMMA OwingSubject ==
  ASSUME NEW leader, IndexIsExact(leader), NEW s \in Subjects, NEW c,
         c.pc = "second" => Valid(c.write)
  PROVE  /\ \A i \in DOMAIN leader.records[s] :
              Owing(c, "commit_recorded", leader.records[s][i]) =>
                s = SubjectOf(c.write) /\ leader.records[s][i] = c.write.document.envelope
         /\ \A i \in DOMAIN leader.observations[s] :
              Owing(c, "observe", leader.observations[s][i]) =>
                s = SubjectOf(c.write) /\ leader.observations[s][i] = c.write.document
<1>1. ASSUME NEW i \in DOMAIN leader.records[s],
             Owing(c, "commit_recorded", leader.records[s][i])
      PROVE  s = SubjectOf(c.write) /\ leader.records[s][i] = c.write.document.envelope
  <2>1. /\ c.write.kind = "commit_recorded" /\ c.pc = "second"
        /\ leader.records[s][i] = c.write.document.envelope
    BY <1>1 DEF Owing
  <2>2. leader.records[s][i].result.subject = s
    BY DEF IndexIsExact, RecordIndexed
  <2>3. c.write.document.envelope.result = c.write.document.instance
    BY <2>1 DEF Valid, CommitValid
  <2> QED
    BY <2>1, <2>2, <2>3 DEF SubjectOf
<1>2. ASSUME NEW i \in DOMAIN leader.observations[s],
             Owing(c, "observe", leader.observations[s][i])
      PROVE  s = SubjectOf(c.write) /\ leader.observations[s][i] = c.write.document
  BY <1>2 DEF Owing, IndexIsExact, ObservationIndexed, SubjectOf
<1> QED
  BY <1>1, <1>2

(* The follower is asked. *)
LEMMA SecondSteady ==
  ASSUME Base, SteadyHolds, Second
  PROVE  SteadyHolds'
<1> DEFINE w == call.write
           z == SubjectOf(w)
<1>1. call.pc = "second" /\ UNCHANGED <<setup, policy, serving, replay>>
  BY DEF Second
<1>2. w \in setup.writes /\ Valid(w) /\ replay.pc = "idle"
  BY <1>1 DEF Base, OneAtATime
<1>3. PICK result \in Attempts(Follower, Perform(sides[Follower], w)) :
        /\ Took(Follower, result)
        /\ IF result.outcome = "ok"
           THEN Respond("ok") /\ UNCHANGED divergences
           ELSE /\ divergences' = Diverged(w)
                /\ Respond(IF WriteOrder[1] = "local" THEN "ok" ELSE result.outcome)
  BY DEF Second, Follower
<1>4. call'.pc = "idle"
  BY <1>3, Responded
<1>5. /\ sides'[Leader] = sides[Leader] /\ Good(sides[Follower], sides'[Follower])
      /\ w \in Write /\ Forward(w) /\ Sound(sides[Follower])
      /\ result.outcome = "ok" =>
           /\ sides'[Follower] = Perform(sides[Follower], w).store
           /\ Perform(sides[Follower], w).outcome = "ok"
  BY <1>2, <1>3, AttemptGives, Ends
<1>6. /\ OwnRecords(sides'[Leader]) /\ CatchUpKnows' /\ HalfWritten(sides'[Leader], call')
  BY <1>1, <1>2, <1>4, <1>5, NothingBelieved DEF SteadyHolds, HalfWritten
<1>7. IndexIsExact(sides[Leader])
  BY Ends DEF Base, SidesSound
<1> HIDE DEF w, z
<1>8. ASSUME NEW s \in Subjects, Followed(sides[Leader], sides[Follower], call, s),
             s = z => result.outcome = "ok"
      PROVE  Followed(sides'[Leader], sides'[Follower], call', s)
  <2>1. ASSUME NEW i \in DOMAIN sides[Leader].records[s]
        PROVE  Holds(sides'[Follower], s, sides[Leader].records[s][i])
    <3>1. CASE Holds(sides[Follower], s, sides[Leader].records[s][i])
      BY <1>5, <3>1, HasKept
    <3>2. CASE Owing(call, "commit_recorded", sides[Leader].records[s][i])
      <4>1. s = z /\ sides[Leader].records[s][i] = w.document.envelope
        BY <1>2, <1>7, <3>2, OwingSubject DEF w, z
      <4>2. w.kind = "commit_recorded"
        BY <3>2 DEF Owing, w
      <4>3. Done(sides[Follower], w, sides'[Follower])
        BY <1>5, <1>8, <4>1, WriteDone
      <4> QED
        BY <4>1, <4>2, <4>3 DEF Done, z
    <3> QED
      BY <1>8, <3>1, <3>2 DEF Followed
  <2>2. ASSUME NEW i \in DOMAIN sides[Leader].observations[s]
        PROVE  Has(sides'[Follower], s, sides[Leader].observations[s][i])
    <3>1. CASE Has(sides[Follower], s, sides[Leader].observations[s][i])
      BY <1>5, <3>1, HasKept
    <3>2. CASE Owing(call, "observe", sides[Leader].observations[s][i])
      <4>1. s = z /\ sides[Leader].observations[s][i] = w.document
        BY <1>2, <1>7, <3>2, OwingSubject DEF w, z
      <4>2. w.kind = "observe"
        BY <3>2 DEF Owing, w
      <4>3. Done(sides[Follower], w, sides'[Follower])
        BY <1>5, <1>8, <4>1, WriteDone
      <4> QED
        BY <4>1, <4>2, <4>3 DEF Done, z
    <3> QED
      BY <1>8, <3>1, <3>2 DEF Followed
  <2> QED
    BY <1>5, <2>1, <2>2 DEF Followed
<1>9. CASE result.outcome = "ok"
  <2>1. divergences' = divergences
    BY <1>3, <1>9
  <2>2. Listed(sides'[Leader], divergences', replay')
    BY <1>1, <1>5, <2>1 DEF SteadyHolds
  <2>3. AllFollowed(sides'[Leader], sides'[Follower], divergences', replay', call')
    BY <1>1, <1>8, <1>9, <2>1 DEF SteadyHolds, AllFollowed
  <2> QED
    BY <1>1, <1>6, <2>2, <2>3, SteadyNext
<1>10. CASE result.outcome # "ok"
  <2> DEFINE d == DivergenceOf(w, WriteOrder[1])
  <2>1. divergences' = Append(divergences, d) /\ divergences \in Seq(Divergence)
    BY <1>3, <1>10 DEF Diverged, Base, Shape
  <2>2. d.subject = z /\ d.revision = RevisionOf(w)
    BY DEF DivergenceOf, RevisionOf, z
  <2>3. Attained(sides[Leader], d.subject, d.revision)
    BY <1>1, <2>2 DEF SteadyHolds, HalfWritten, w, z
  <2> HIDE DEF d
  <2>4. /\ \A i \in DOMAIN divergences' :
             divergences'[i] = d \/ (i \in DOMAIN divergences /\ divergences'[i] = divergences[i])
        /\ Len(divergences) + 1 \in DOMAIN divergences'
        /\ divergences'[Len(divergences) + 1] = d
        /\ \A i \in DOMAIN divergences :
             i \in DOMAIN divergences' /\ divergences'[i] = divergences[i]
    BY <2>1
  <2>5. Listed(sides'[Leader], divergences', replay')
    BY <1>1, <1>2, <1>5, <2>3, <2>4 DEF SteadyHolds, Listed, AllAttained, InHand
  <2>6. \A s : Awaited(divergences, replay, s) \/ s = z => Awaited(divergences', replay', s)
    BY <1>1, <2>2, <2>4 DEF Awaited, About
  <2>7. AllFollowed(sides'[Leader], sides'[Follower], divergences', replay', call')
    BY <1>8, <2>6 DEF SteadyHolds, AllFollowed
  <2> QED
    BY <1>1, <1>6, <2>5, <2>7, SteadyNext
<1> QED
  BY <1>9, <1>10

(* Another client moves the follower. *)
LEMMA OtherClientSteady ==
  ASSUME Base, ReplayHolds, Steady, SteadyHolds, NEW v \in setup.rivals, OtherClient(v)
  PROVE  SteadyHolds'
<1>1. UNCHANGED <<setup, policy, serving, divergences, call, replay>>
  BY DEF OtherClient
<1>2. ~Alone /\ Leader = "local" /\ Follower = "remote"
  BY Ends DEF Alone, Steady
<1>3. /\ sides'[Leader] = sides[Leader] /\ Good(sides[Follower], sides'[Follower])
      /\ \A x \in Side : Good(sides[x], sides'[x])
  <2>1. Good(sides["local"], sides["local"])
    BY SameIsGood DEF Base, Shape, SidesSound, Sound, Side
  <2> QED
    BY <1>2, <2>1, OtherClientHolds DEF Side
<1>4. Adds(sides[Follower], v, sides'[Follower])
  <2>1. v \in Write /\ Forward(v) /\ Sound(sides[Follower])
    BY SetupFacts, Ends DEF Base, Shape, SidesSound, Sound
  <2>2. sides'["remote"] = Perform(sides["remote"], v).store
    BY DEF OtherClient, Base, Shape, Side
  <2> QED
    BY <1>2, <2>1, <2>2, WriteDone
<1>5. CatchUpKnows'
  <2>1. CASE ~Working
    <3>1. replay'.pc \in {"idle", "remember", "next"}
      BY <1>1, <2>1 DEF Working
    <3> QED
      BY <3>1, NothingBelieved
  <2>2. CASE Working
    <3>1. AsRead'
      BY <1>1, <1>3, <2>2, AsReadKept DEF SteadyHolds, CatchUpKnows
    <3>2. Restoration'
      <4>1. (RestoresAll' => RestoresAll) /\ (AllRestored' => AllRestored)
        BY <1>1 DEF RestoresAll, AllRestored
      <4> QED
        BY <1>1, <1>3, <2>2, <4>1, RestorationKept DEF SteadyHolds, CatchUpKnows
    <3>3. Caught'
      <4>1. Compared' => Compared
        BY <1>1 DEF Compared
      <4> QED
        BY <1>1, <1>2, <1>3, <2>2, <4>1, CaughtKept DEF SteadyHolds, CatchUpKnows
    <3>4. BelievedCovers'
      <4>1. CASE replay.pc # "existing"
        BY <1>1, <2>2, <4>1, CoversKept DEF SteadyHolds, CatchUpKnows
      <4>2. CASE replay.pc = "existing" /\ ~Replaying
        BY <1>1, <4>2 DEF BelievedCovers, Replaying, Working
      <4>3. CASE replay.pc = "existing" /\ Replaying
        <5> DEFINE s == Current.subject
        <5>1. s \in Subjects /\ replay.records = sides[Leader].records[s]
          BY <2>2, Ends DEF SteadyHolds, CatchUpKnows, AsRead
        <5>2. \A j \in DOMAIN replay.records :
                Holds(sides[Follower], s, replay.records[j]) => Reaches(replay.records[j])
          BY <4>3 DEF SteadyHolds, CatchUpKnows, BelievedCovers
        <5>3. Current' = Current /\ Follower' = Follower
          BY <1>1, SameEnds DEF Current
        <5> HIDE DEF s
        <5>4. ASSUME NEW j \in DOMAIN replay.records,
                     Holds(sides'[Follower], s, replay.records[j])
              PROVE  Reaches(replay.records[j])
          <6>1. PICK i \in DOMAIN sides'[Follower].records[s] :
                  sides'[Follower].records[s][i] = replay.records[j]
            BY <5>4 DEF Holds
          <6>2. CASE \E k \in DOMAIN sides[Follower].records[s] :
                       sides'[Follower].records[s][i] = sides[Follower].records[s][k]
            BY <5>2, <6>1, <6>2 DEF Holds
          <6>3. CASE /\ v.kind = "commit_recorded"
                     /\ sides'[Follower].records[s][i] = v.document.envelope
            <7>1. PICK w \in setup.writes :
                    /\ w.kind = "commit_recorded"
                    /\ w.document.envelope = replay.records[j]
              BY <5>1, <5>4 DEF SteadyHolds, OwnRecords
            <7> QED
              BY <6>1, <6>3, <7>1 DEF Steady, Apart
          <6> QED
            BY <1>4, <5>1, <6>1, <6>2, <6>3 DEF Adds
        <5>5. \A e : Reaches(e)' <=> Reaches(e)
          BY <1>1 DEF Reaches
        <5> QED
          BY <1>1, <4>3, <5>3, <5>4, <5>5 DEF BelievedCovers, s
      <4> QED
        BY <4>1, <4>2, <4>3
    <3> QED
      BY <3>1, <3>2, <3>3, <3>4 DEF CatchUpKnows
  <2> QED
    BY <2>1, <2>2
<1>6. /\ OwnRecords(sides'[Leader]) /\ HalfWritten(sides'[Leader], call')
      /\ Listed(sides'[Leader], divergences', replay')
  BY <1>1, <1>3 DEF SteadyHolds
<1>7. AllFollowed(sides'[Leader], sides'[Follower], divergences', replay', call')
  BY <1>1, <1>3, FollowedKept DEF SteadyHolds, AllFollowed
<1> QED
  BY <1>1, <1>5, <1>6, <1>7, SteadyNext

(* At the start. *)
LEMMA SteadyInit == Init => SteadyInvariant
<1> SUFFICES ASSUME Init, Steady
             PROVE  SteadyHolds
  BY DEF SteadyInvariant
<1>1. /\ replay.pc = "idle" /\ replay.todo = << >>
      /\ replay.taken = << >> /\ replay.still = << >> /\ call.pc = "idle"
      /\ divergences = << >>
  BY DEF Init, NoReplay, Idle
<1>2. Leader \in Side /\ Follower \in Side
  BY InvariantInit, Ends DEF HybridInvariant
<1>3. sides[Leader] = EmptyStore /\ sides[Follower] = EmptyStore
  BY <1>2 DEF Init
<1>4. \A s \in Subjects : EmptyStore.records[s] = << >> /\ EmptyStore.observations[s] = << >>
  BY DEF EmptyStore
<1>5. OwnRecords(sides[Leader])
  <2>1. \A s \in Subjects :
          sides[Leader].records[s] = << >> /\ sides[Leader].observations[s] = << >>
    BY <1>3, <1>4
  <2>2. DOMAIN << >> = {}
    OBVIOUS
  <2> QED
    BY <2>1, <2>2, Zenon DEF OwnRecords
<1>6. CatchUpKnows
  <2>1. ~Working
    BY <1>1 DEF Working
  <2> QED
    BY <1>1, <2>1
      DEF CatchUpKnows, AsRead, BelievedCovers, Replaying, Restoration, RestoresAll,
        AllRestored, Caught, Compared
<1>7. Listed(sides[Leader], divergences, replay) /\ HalfWritten(sides[Leader], call)
  <2>1. /\ AllAttained(sides[Leader], << >>)
        /\ HalfWritten(sides[Leader], call)
    BY <1>1 DEF AllAttained, HalfWritten
  <2>2. InHand(divergences, replay)
    BY <1>1 DEF InHand
  <2> QED
    BY <1>1, <2>1, <2>2 DEF Listed
<1>8. AllFollowed(sides[Leader], sides[Follower], divergences, replay, call)
  <2>1. \A s \in Subjects :
          sides[Leader].records[s] = << >> /\ sides[Leader].observations[s] = << >>
    BY <1>3, <1>4
  <2>2. DOMAIN << >> = {}
    OBVIOUS
  <2> QED
    BY <2>1, <2>2, Zenon DEF AllFollowed, Followed
<1> QED
  BY <1>5, <1>6, <1>7, <1>8 DEF SteadyHolds

(* Who leads, and what is written, is fixed. *)
LEMMA Fixed ==
  ASSUME [Next]_vars
  PROVE  setup' = setup /\ policy' = policy
<1>1. CASE UNCHANGED vars
  BY <1>1 DEF vars
<1>2. CASE CatchUpStep
  BY <1>2
    DEF CatchUpStep, Finish, ReadRecords, ReadObservations, ReadHeld, ReadExisting,
      ReplayRecord, CompareObservation, RestoreObservation, Restored, CommitRecord,
      LoadSource, ReadEvents, Compare, Mirror, Late, Unmoved
<1>3. CASE Next /\ ~CatchUpStep
  BY <1>3
    DEF Next, Flip, Begin, First, Second, OtherClient, CatchUp, Restart, remember
<1> QED
  BY <1>1, <1>2, <1>3

(* Every step keeps what a store that leads keeps. *)
LEMMA SteadyKept == HybridInvariant /\ SteadyInvariant /\ [Next]_vars => SteadyInvariant'
<1> SUFFICES ASSUME Base, ReplayHolds, SteadyInvariant, [Next]_vars, Steady
             PROVE  SteadyHolds'
  BY Fixed, SameSteady DEF SteadyInvariant, HybridInvariant
<1>2. SteadyHolds
  BY DEF SteadyInvariant
<1>3. ASSUME NEW side \in Side, Flip(side)
      PROVE  SteadyHolds'
  BY <1>2, <1>3, AsideSteady DEF Flip
<1>4. ASSUME NEW w \in setup.writes, Begin(w)
      PROVE  SteadyHolds'
  <2>1. call.pc = "idle"
    BY <1>4 DEF Begin, Resting
  <2>2. UNCHANGED <<setup, policy, sides, divergences, replay>> /\ call'.pc # "second"
    BY <1>4, BeginHolds DEF Begin
  <2> QED
    BY <1>2, <2>1, <2>2, AsideSteady
<1>5. CASE First
  BY <1>2, <1>5, FirstSteady
<1>6. CASE Second
  BY <1>2, <1>6, SecondSteady
<1>7. ASSUME NEW w \in setup.rivals, OtherClient(w)
      PROVE  SteadyHolds'
  BY <1>2, <1>7, OtherClientSteady
<1>8. CASE CatchUp
  BY <1>2, <1>8, CatchUpSteady
<1>9. CASE CatchUpStep
  BY <1>2, <1>9, CatchUpStepSteady, FinishSteady
<1>10. CASE Restart
  BY <1>2, <1>10, RestartSteady
<1>11. CASE remember
  BY <1>2, <1>11, rememberSteady
<1>12. CASE UNCHANGED vars
  BY <1>2, <1>12, AsideSteady DEF vars
<1> QED
  BY <1>3, <1>4, <1>5, <1>6, <1>7, <1>8, <1>9, <1>10, <1>11, <1>12, Zenon DEF Next

-----------------------------------------------------------------------------
(* What a store that leads has for its callers. *)

(* A divergence that waits is outstanding. *)
LEMMA AwaitedIsOutstanding ==
  ASSUME Base, NEW s, Awaited(divergences, replay, s)
  PROVE  Outstanding(s, {WriteOrder[1]})
<1>1. /\ divergences \in Seq(Divergence) /\ replay.todo \in Seq(Divergence)
      /\ replay.still \in Seq(Divergence)
      /\ AllFrom(divergences) /\ AllFrom(replay.todo) /\ AllFrom(replay.still)
  BY DEF Base, Shape, ReplayShaped, OneWay
<1> DEFINE a == divergences
           b == replay.todo
           c == replay.still
<1>2. /\ \A i \in DOMAIN a : \E k \in DOMAIN (a \o b \o c) : (a \o b \o c)[k] = a[i]
      /\ \A i \in DOMAIN b : \E k \in DOMAIN (a \o b \o c) : (a \o b \o c)[k] = b[i]
      /\ \A i \in DOMAIN c : \E k \in DOMAIN (a \o b \o c) : (a \o b \o c)[k] = c[i]
  <2>1. ASSUME NEW x \in Seq(Divergence), NEW y \in Seq(Divergence)
        PROVE  /\ \A i \in DOMAIN x : i \in DOMAIN (x \o y) /\ (x \o y)[i] = x[i]
               /\ \A i \in DOMAIN y : Len(x) + i \in DOMAIN (x \o y)
                                      /\ (x \o y)[Len(x) + i] = y[i]
    OBVIOUS
  <2>2. a \in Seq(Divergence) /\ b \in Seq(Divergence) /\ c \in Seq(Divergence)
        /\ a \o b \in Seq(Divergence)
    BY <1>1
  <2> HIDE DEF a, b, c
  <2>3. /\ \A i \in DOMAIN (a \o b) : \E k \in DOMAIN ((a \o b) \o c) : ((a \o b) \o c)[k] = (a \o b)[i]
        /\ \A i \in DOMAIN c : \E k \in DOMAIN ((a \o b) \o c) : ((a \o b) \o c)[k] = c[i]
    <3> DEFINE p == a \o b
    <3>1. p \in Seq(Divergence)
      BY <2>2
    <3> HIDE DEF p
    <3>2. /\ \A i \in DOMAIN p : i \in DOMAIN (p \o c) /\ (p \o c)[i] = p[i]
          /\ \A i \in DOMAIN c : Len(p) + i \in DOMAIN (p \o c)
                                  /\ (p \o c)[Len(p) + i] = c[i]
      BY <2>1, <2>2, <3>1
    <3> QED
      BY <3>2, Zenon DEF p
  <2>4. /\ \A i \in DOMAIN a : \E k \in DOMAIN (a \o b) : (a \o b)[k] = a[i]
        /\ \A i \in DOMAIN b : \E k \in DOMAIN (a \o b) : (a \o b)[k] = b[i]
    <3>1. /\ \A i \in DOMAIN a : i \in DOMAIN (a \o b) /\ (a \o b)[i] = a[i]
          /\ \A i \in DOMAIN b : Len(a) + i \in DOMAIN (a \o b)
                                  /\ (a \o b)[Len(a) + i] = b[i]
      BY <2>1, <2>2
    <3> QED
      BY <3>1, Zenon
  <2> DEFINE p == a \o b
             q == p \o c
  <2>5. /\ \A i \in DOMAIN p : \E k \in DOMAIN q : q[k] = p[i]
        /\ \A i \in DOMAIN c : \E k \in DOMAIN q : q[k] = c[i]
        /\ \A i \in DOMAIN a : \E k \in DOMAIN p : p[k] = a[i]
        /\ \A i \in DOMAIN b : \E k \in DOMAIN p : p[k] = b[i]
    BY <2>3, <2>4, Zenon
  <2> HIDE DEF p, q
  <2>6. /\ \A i \in DOMAIN a : \E k \in DOMAIN q : q[k] = a[i]
        /\ \A i \in DOMAIN b : \E k \in DOMAIN q : q[k] = b[i]
        /\ \A i \in DOMAIN c : \E k \in DOMAIN q : q[k] = c[i]
    BY <2>5
  <2> QED
    BY <2>6, Zenon DEF p, q
<1>3. PICK d : d.subject = s /\ d.source = WriteOrder[1] /\
               \E k \in DOMAIN (a \o b \o c) : (a \o b \o c)[k] = d
  BY <1>1, <1>2 DEF Awaited, About, AllFrom
<1> HIDE DEF a, b, c
<1>4. d \in ToSet(a \o b \o c)
  BY <1>3 DEF ToSet
<1> QED
  BY <1>3, <1>4 DEF Outstanding, a, b, c

(* What has not followed is a divergence, or under way. *)
LEMMA SteadyNeverSilent ==
  ASSUME Base, SteadyHolds, WriteOrder[1] = "local"
  PROVE  NeverSilent
<1>1. Leader = "local" /\ Follower = "remote" /\ IndexIsExact(sides[Leader])
  BY Ends DEF Leader, Base, SidesSound, Side
<1> SUFFICES ASSUME NEW s \in Subjects, Missing(s, "local", "remote"), ~Pending(s)
             PROVE  Outstanding(s, {"local"})
  BY DEF NeverSilent
<1>2. ~Followed(sides[Leader], sides[Follower], call, s)
  <2> SUFFICES ASSUME Followed(sides[Leader], sides[Follower], call, s)
               PROVE  FALSE
    OBVIOUS
  <2>1. call.pc = "second" => Valid(call.write)
    BY DEF Base, OneAtATime
  <2>2. \A i \in DOMAIN sides["local"].records[s] :
          Holds(sides["remote"], s, sides["local"].records[s][i])
    BY <1>1, <2>1, OwingSubject DEF Followed, Pending, Owing
  <2>3. \A i \in DOMAIN sides["local"].observations[s] :
          Has(sides["remote"], s, sides["local"].observations[s][i])
    BY <1>1, <2>1, OwingSubject DEF Followed, Pending, Owing
  <2>4. Within(s, sides["local"], sides["remote"])
    BY <2>2, <2>3 DEF Within, AllIn, Holds, Has
  <2> QED
    BY <2>4, WithinIs
<1>3. Awaited(divergences, replay, s)
  BY <1>2 DEF SteadyHolds, AllFollowed
<1> QED
  BY <1>3, AwaitedIsOutstanding

(* A divergence is cleared by a step on it. *)
LEMMA ClearsWorking ==
  ASSUME Base, SteadyHolds, Next, ClearsOne
  PROVE  CatchUpStep /\ ~Finish
<1>1. replay.todo \in Seq(Divergence) /\ replay.todo # << >>
  BY DEF ClearsOne, Base, Shape, ReplayShaped
<1>2. replay' # replay
  <2>1. Tail(replay.todo) # replay.todo
    <3> DEFINE a == replay.todo
    <3>1. a \in Seq(Divergence) /\ a # << >>
      BY <1>1
    <3> HIDE DEF a
    <3>2. Len(a) \in Nat \ {0}
      BY <3>1
    <3>3. \A i \in DOMAIN Tail(a) : i + 1 \in DOMAIN a
      BY <3>1
    <3>4. Len(a) \in DOMAIN a /\ Len(a) + 1 \notin DOMAIN a
      BY <3>1, <3>2
    <3>5. Tail(a) # a
      BY <3>3, <3>4
    <3> QED
      BY <3>5 DEF a
  <2> QED
    BY <2>1 DEF ClearsOne
<1>3. ~CatchUp
  BY <1>1 DEF CatchUp, Resting, SteadyHolds, Listed, InHand
<1>4. ~Restart
  <2>1. Restart => replay'.pc # "next"
    <3>1. NoReplay.pc = "idle"
      BY DEF NoReplay
    <3>2. [NoReplay EXCEPT !.pc = "remember", !.taken = Saved, !.todo = Saved].pc = "remember"
      BY DEF NoReplay
    <3> QED
      BY <3>1, <3>2 DEF Restart
  <2> QED
    BY <2>1 DEF ClearsOne
<1>5. ~remember
  <2>1. remember => replay'.pc # "next"
    <3>1. NoReplay.pc = "idle"
      BY DEF NoReplay
    <3>2. [replay EXCEPT !.todo = Tail(@)].pc = replay.pc
      BY DEF Base, Shape, ReplayShaped, Fields
    <3> QED
      BY <3>1, <3>2 DEF remember, At
  <2> QED
    BY <2>1 DEF ClearsOne
<1>6. CatchUpStep
  BY <1>2, <1>3, <1>4, <1>5 DEF Next, Flip, Begin, First, Second, OtherClient
<1> QED
  BY <1>1, <1>6 DEF Finish

(* What is cleared was delivered. *)
LEMMA ClearsDelivered ==
  ASSUME Base, ReplayHolds, SteadyHolds, Next, ClearsOne
  PROVE  LET s  == Current.subject
             to == sides'[Destination]
         IN /\ to.instances[s] # None
            /\ Current.revision <= to.instances[s].revision
            /\ Current.record_id # None =>
                 /\ to.record_ids[Current.record_id] # None
                 /\ to.record_ids[Current.record_id]
                      = sides[Source].record_ids[Current.record_id]
<1> DEFINE s  == Current.subject
           to == sides'[Follower]
           st == sides[Leader]
<1>1. CatchUpStep /\ ~Finish
  BY ClearsWorking
<1>2. Progress
  BY <1>1, CatchUpProgress DEF SteadyHolds
<1>3. ~Keep
  <2>1. replay.still \in Seq(Divergence)
    BY DEF Base, Shape, ReplayShaped
  <2>2. Append(replay.still, Current) # replay.still
    <3>1. Len(Append(replay.still, Current)) = Len(replay.still) + 1 /\ Len(replay.still) \in Nat
      BY <2>1
    <3> QED
      BY <3>1
  <2>3. Keep => replay'.still = Append(replay.still, Current)
    BY DEF Keep, NoReplay
  <2> QED
    BY <2>2, <2>3 DEF ClearsOne
<1>4. NamesHeld(Current, st) /\ Delivered(st, to, s)
  BY <1>2, <1>3 DEF Progress, Onward, ClearsOne
<1>5. /\ replay.todo \in Seq(Divergence) /\ replay.todo # << >>
      /\ 1 \in DOMAIN replay.todo /\ Current = replay.todo[1]
  BY DEF ClearsOne, Base, Shape, ReplayShaped, Current
<1>6. Source = Leader /\ Destination = Follower /\ Current \in Divergence /\ s \in Subjects
  <2>1. Source = Leader
    BY <1>5 DEF Base, OneWay, AllFrom, Source, Leader
  <2>2. /\ Current \in Divergence /\ s \in Subjects
        /\ Source \in Side /\ Destination \in Side /\ Source # Destination
    BY <1>5, CurrentFacts DEF Base
  <2> QED
    BY <2>1, <2>2, Ends DEF Side
<1>7. Attained(st, s, Current.revision)
  BY <1>5 DEF SteadyHolds, Listed, AllAttained
<1>8. Sound(st) /\ Sound(to)
  <2>1. Base'
    BY <1>1, CatchUpStepHolds
  <2>2. Shape' /\ SidesSound'
    BY <2>1 DEF Base
  <2>3. Shaped(to) /\ IndexIsExact(to) /\ Covered(to) /\ Placed(to)
    BY <2>2, Ends DEF Shape, SidesSound
  <2> QED
    BY <2>3, Ends DEF Base, Shape, SidesSound, Sound
<1> HIDE DEF s, to, st
<1>9. to.instances[s] # None /\ Current.revision <= to.instances[s].revision
  <2>1. st.instances[s] \in Instance /\ to.instances[s] # None /\ to.instances[s] \in Instance
    BY <1>4, <1>6, <1>8, ShapedFacts DEF Delivered, CaughtUp, Attained, Sound
  <2>2. st.instances[s].revision \in Nat /\ to.instances[s].revision \in Nat
    BY <2>1, InstanceFacts
  <2>3. Current.revision \in Nat
    BY <1>6 DEF Divergence
  <2> QED
    BY <1>4, <1>7, <2>1, <2>2, <2>3 DEF Delivered, CaughtUp, Attained
<1>10. ASSUME Current.record_id # None
       PROVE  /\ to.record_ids[Current.record_id] # None
              /\ to.record_ids[Current.record_id] = st.record_ids[Current.record_id]
  <2> DEFINE r == Current.record_id
  <2>1. HoldsRecord(st.records[s], st.observations[s], r)
    BY <1>4, <1>10 DEF NamesHeld, s
  <2> HIDE DEF r
  <2>2. ASSUME NEW i \in DOMAIN st.records[s], st.records[s][i].record_id = r
        PROVE  to.record_ids[r] # None /\ to.record_ids[r] = st.record_ids[r]
    <3> DEFINE e == st.records[s][i]
    <3>1. e \in Envelope /\ e.result \in Instance
      BY <1>6, <1>8, ShapedFacts DEF Sound
    <3>2. st.record_ids[r] = [instance |-> e.result, envelope |-> e]
      BY <1>6, <1>8, <2>2 DEF Sound, IndexIsExact, RecordIndexed
    <3>3. PICK j \in DOMAIN to.records[s] : to.records[s][j] = e
      BY <1>4 DEF Delivered, Holds
    <3>4. to.record_ids[r] = [instance |-> e.result, envelope |-> e]
      BY <1>6, <1>8, <2>2, <3>3 DEF Sound, IndexIsExact, RecordIndexed
    <3> HIDE DEF e
    <3>5. [instance |-> e.result, envelope |-> e] \in RecordedCommit
      BY <3>1 DEF RecordedCommit
    <3> QED
      BY <3>2, <3>4, <3>5, StoreAssumption DEF Document
  <2>3. ASSUME NEW i \in DOMAIN st.observations[s], st.observations[s][i].record_id = r
        PROVE  to.record_ids[r] # None /\ to.record_ids[r] = st.record_ids[r]
    <3> DEFINE o == st.observations[s][i]
    <3>1. o \in RecordedObservation
      <4>1. st.observations[s] \in Seq(RecordedObservation)
        BY <1>6, <1>8, ShapedFacts DEF Sound
      <4> QED
        BY <4>1
    <3>2. st.record_ids[r] = o
      BY <1>6, <1>8, <2>3 DEF Sound, IndexIsExact, ObservationIndexed
    <3>3. PICK j \in DOMAIN to.observations[s] : to.observations[s][j] = o
      BY <1>4 DEF Delivered, Has
    <3>4. to.record_ids[r] = o
      BY <1>6, <1>8, <2>3, <3>3 DEF Sound, IndexIsExact, ObservationIndexed
    <3> QED
      BY <3>1, <3>2, <3>4, StoreAssumption DEF Document
  <2> QED
    BY <2>1, <2>2, <2>3 DEF HoldsRecord, r
<1> QED
  BY <1>6, <1>9, <1>10 DEF s, to, st

(* What a store that leads keeps holds throughout. *)
THEOREM SteadyInductive == Spec => []SteadyInvariant
  BY Inductive, SteadyInit, SteadyKept, PTL DEF Spec

(* A write that lost is never silent, in either order of the two sides,    *)
(* while no other client writes a recorded decision of this store's own    *)
(* and no unrecorded decision follows a recorded one: whatever the local   *)
(* side holds and the remote lacks is a divergence, or the write is under  *)
(* way (Hybrid::write, Hybrid::catch_up, Hybrid::remember).                *)
THEOREM NoSilentLoss == Spec /\ Apart /\ NoSuffix => []NeverSilent
<1>1. Apart /\ NoSuffix /\ [Next]_vars => (Apart /\ NoSuffix)'
  BY Fixed DEF Apart, NoSuffix
<1>2. HybridInvariant /\ SteadyInvariant /\ Apart /\ NoSuffix => NeverSilent
  <2> SUFFICES ASSUME HybridInvariant, SteadyInvariant, Apart, NoSuffix
               PROVE  NeverSilent
    OBVIOUS
  <2>1. Base
    BY DEF HybridInvariant
  <2>2. CASE WriteOrder[1] = "remote"
    BY <2>2 DEF HybridInvariant, NeverAhead, NeverSilent
  <2>3. CASE WriteOrder[1] = "local"
    <3>1. SteadyHolds
      BY <2>3 DEF SteadyInvariant, Steady, Leader
    <3> QED
      BY <2>1, <2>3, <3>1, SteadyNeverSilent
  <2> QED
    BY <2>1, <2>2, <2>3, OrderFacts DEF Base, Side
<1> QED
  BY <1>1, <1>2, Inductive, SteadyInductive, PTL DEF Spec

(* catch_up clears a divergence only when the destination holds the very   *)
(* record it names and has reached its revision, when the side written     *)
(* first is this store's alone and answers for what it did                 *)
(* (Hybrid::reconcile_divergence, Hybrid::catch_up).                       *)
THEOREM ClearedWasReplicated == Spec /\ Steady => ClearedIsReplicated
<1>1. Steady /\ [Next]_vars => Steady'
  BY Fixed, SameSteady
<1>2. HybridInvariant /\ SteadyInvariant /\ Steady /\ [Next]_vars =>
        [ClearsOne =>
           LET s  == Current.subject
               to == sides'[Destination]
           IN /\ to.instances[s] # None
              /\ Current.revision <= to.instances[s].revision
              /\ Current.record_id # None =>
                   /\ to.record_ids[Current.record_id] # None
                   /\ to.record_ids[Current.record_id]
                        = sides[Source].record_ids[Current.record_id]]_vars
  BY ClearsDelivered, Zenon DEF HybridInvariant, SteadyInvariant
<1> QED
  BY <1>1, <1>2, Inductive, SteadyInductive, PTL DEF Spec, ClearedIsReplicated

-----------------------------------------------------------------------------
(* Two stores that agree, when nobody else writes and no reply is lost. *)

Quiet == Alone /\ ~setup.replies_lost /\ NoSuffix

(* The follower holds no decision of its own. *)
Backed(leader, follower) == \A s \in Subjects : AllIn(follower.records[s], leader.records[s])

(* The first half of a recorded decision is an entry of the leader. *)
HalfHeld(leader, c) ==
  c.pc = "second" /\ c.write.kind = "commit_recorded" =>
    Holds(leader, SubjectOf(c.write), c.write.document.envelope)

(* A write between its halves has moved the leader, unless it is a retry   *)
(* of a decision that both sides hold.                                     *)
HalfMoved(leader, follower, w, s) ==
  \/ /\ w.kind = "commit_recorded" /\ leader.instances[s] = follower.instances[s]
     /\ Holds(follower, s, w.document.envelope)
  \/ /\ leader.instances[s] = w.document.instance
     /\ w.kind = "commit_recorded" => ~Holds(follower, s, w.document.envelope)

Agrees(leader, follower, c, s) ==
  IF c.pc = "second" /\ SubjectOf(c.write) = s /\ c.write.kind # "observe"
  THEN HalfMoved(leader, follower, c.write, s)
  ELSE leader.instances[s] = follower.instances[s]

AllAgree(leader, follower, held, x, c) ==
  \A s \in Subjects : Awaited(held, x, s) \/ Agrees(leader, follower, c, s)

QuietHolds ==
  /\ Backed(sides[Leader], sides[Follower]) /\ HalfHeld(sides[Leader], call)
  /\ AllAgree(sides[Leader], sides[Follower], divergences, replay, call)

QuietInvariant == Quiet => QuietHolds

(* Nobody else writes: the store leads. *)
LEMMA QuietSteady ==
  ASSUME Quiet
  PROVE  Steady
  BY DEF Quiet, Steady, Alone, Apart

(* What has to be shown of the next state, in the words of this one. *)
LEMMA QuietNext ==
  ASSUME setup' = setup, policy' = policy, Backed(sides'[Leader], sides'[Follower]),
         HalfHeld(sides'[Leader], call'),
         AllAgree(sides'[Leader], sides'[Follower], divergences', replay', call')
  PROVE  QuietHolds'
<1>1. Leader' = Leader /\ Follower' = Follower
  BY SameEnds
<1>2. Backed(sides[Leader], sides[Follower])' /\ HalfHeld(sides[Leader], call)'
  BY <1>1 DEF Backed, HalfHeld, AllIn, Holds
<1>3. AllAgree(sides[Leader], sides[Follower], divergences, replay, call)'
  BY <1>1 DEF AllAgree, Awaited, About, Agrees, HalfMoved, Holds
<1> QED
  BY <1>2, <1>3 DEF QuietHolds

(* A step that moves no side, halves no write and forgets no divergence. *)
LEMMA StillQuiet ==
  ASSUME QuietHolds, Still
  PROVE  QuietHolds'
<1>1. HalfHeld(sides'[Leader], call') /\ Backed(sides'[Leader], sides'[Follower])
  BY DEF QuietHolds, HalfHeld, Still
<1>2. AllAgree(sides'[Leader], sides'[Follower], divergences', replay', call')
  BY DEF QuietHolds, AllAgree, Agrees, Still
<1> QED
  BY <1>1, <1>2, QuietNext DEF Still

(* A decision that a store holds already leaves it alone. *)
LEMMA HeldLeaves ==
  ASSUME NEW st, Sound(st), NEW w \in Write, w.kind = "commit_recorded", Valid(w),
         Holds(st, SubjectOf(w), w.document.envelope)
  PROVE  Perform(st, w).store = st
<1> DEFINE d == w.document
           r == d.envelope.record_id
           s == SubjectOf(w)
<1>1. /\ d \in RecordedCommit /\ s = d.instance.subject /\ CommitValid(d) /\ s \in Subjects
      /\ d.envelope.result = d.instance
  BY DEF Write, SubjectOf, RecordedCommit, Instance, Valid, CommitValid
<1>2. PICK i \in DOMAIN st.records[s] : st.records[s][i] = d.envelope
  BY DEF Holds
<1>3. st.record_ids[r] = [instance |-> d.instance, envelope |-> d.envelope]
  BY <1>1, <1>2 DEF Sound, IndexIsExact, RecordIndexed
<1>4. st.record_ids[r] # None
  <2>1. [instance |-> d.instance, envelope |-> d.envelope] \in RecordedCommit
    BY <1>1 DEF RecordedCommit
  <2> QED
    BY <1>3, <2>1, StoreAssumption DEF Document
<1>5. Perform(st, w) = commit_recorded(st, d, w.expect)
  BY DEF Perform
<1> QED
  BY <1>1, <1>4, <1>5 DEF commit_recorded, Remembered, SameOrConflict, Answer

(* What a write that is answered ok does to the instance held. *)
LEMMA WriteMoves ==
  ASSUME NEW st, Sound(st), NEW w \in Write, Forward(w), Valid(w),
         Perform(st, w).outcome = "ok"
  PROVE  LET nu == Perform(st, w).store
             s  == SubjectOf(w)
         IN /\ s \in Subjects
            /\ w.kind = "observe" => nu.instances = st.instances /\ nu.records = st.records
            /\ w.kind = "commit" => /\ nu.instances[s] = w.document.instance
                                    /\ nu.records = st.records
            /\ w.kind = "commit_recorded" =>
                 /\ Holds(nu, s, w.document.envelope)
                 /\ IF Holds(st, s, w.document.envelope)
                    THEN nu = st ELSE nu.instances[s] = w.document.instance
<1> DEFINE nu == Perform(st, w).store
           s  == SubjectOf(w)
<1>1. Done(st, w, nu)
  BY WriteDone
<1>2. s \in Subjects
  BY DEF Write, SubjectOf, Decision, RecordedCommit, RecordedObservation, Instance
<1>3. w.kind = "commit_recorded" /\ Holds(st, s, w.document.envelope) => nu = st
  BY HeldLeaves
<1>4. w.kind = "commit_recorded" =>
        Holds(nu, s, w.document.envelope) /\ (nu = st \/ nu.instances[s] = w.document.instance)
  BY <1>1 DEF Done
<1> HIDE DEF nu, s
<1>5. /\ w.kind = "observe" => nu.instances = st.instances /\ nu.records = st.records
      /\ w.kind = "commit" => nu.instances[s] = w.document.instance /\ nu.records = st.records
  BY <1>1 DEF Done, s
<1> QED
  BY <1>2, <1>3, <1>4, <1>5 DEF nu, s

(* The leader is asked. *)
LEMMA FirstQuiet ==
  ASSUME Base, Quiet, SteadyHolds, QuietHolds, First
  PROVE  QuietHolds'
<1>1. /\ call.pc = "first" /\ UNCHANGED <<setup, policy, serving, divergences, replay>>
  BY DEF First
<1>2. call.write \in setup.writes /\ Valid(call.write)
  BY <1>1 DEF Base, OneAtATime
<1>3. PICK result \in Attempts(Leader, Perform(sides[Leader], call.write)) :
        /\ Took(Leader, result)
        /\ IF result.outcome = "ok" THEN call' = [call EXCEPT !.pc = "second"]
                                    ELSE Respond(result.outcome)
  BY DEF First, Leader
<1>4. CASE result.outcome # "ok"
  <2>1. sides' = sides
    BY <1>2, <1>3, <1>4, NotAccepted, QuietSteady
  <2>2. call'.pc = "idle"
    BY <1>3, <1>4, Responded
  <2>3. Still
    BY <1>1, <2>1, <2>2 DEF Still, Awaited
  <2> QED
    BY <2>3, StillQuiet
<1>5. CASE result.outcome = "ok"
  <2> DEFINE w  == call.write
             st == sides[Leader]
             nu == sides'[Leader]
             fo == sides[Follower]
             z  == SubjectOf(w)
  <2>1. /\ w \in Write /\ Forward(w) /\ Sound(st) /\ sides'[Follower] = fo
        /\ nu = Perform(st, w).store /\ Perform(st, w).outcome = "ok"
        /\ Good(st, nu) /\ Valid(w)
    BY <1>2, <1>3, <1>5, AttemptGives, Ends
  <2>2. Adds(st, w, nu)
    BY <2>1, WriteDone
  <2>3. call'.pc = "second" /\ call'.write = w
    BY <1>3, <1>5 DEF Base, Shape
  <2>4. /\ z \in Subjects
        /\ w.kind = "observe" => nu.instances = st.instances /\ nu.records = st.records
        /\ w.kind = "commit" => nu.instances[z] = w.document.instance
        /\ w.kind = "commit_recorded" =>
             /\ Holds(nu, z, w.document.envelope)
             /\ IF Holds(st, z, w.document.envelope)
                THEN nu = st ELSE nu.instances[z] = w.document.instance
    BY <2>1, WriteMoves
  <2>5. Backed(st, fo) /\ AllAgree(st, fo, divergences, replay, call)
    BY DEF QuietHolds
  <2>6. AllFollowed(st, fo, divergences, replay, call)
    BY DEF SteadyHolds
  <2>7. w.kind \in {"commit", "commit_recorded", "observe"}
    BY <2>1 DEF Write
  <2> HIDE DEF w, st, nu, fo, z
  <2>8. ASSUME NEW s \in Subjects, ~Awaited(divergences, replay, s)
        PROVE  st.instances[s] = fo.instances[s] /\ Followed(st, fo, call, s)
    BY <1>1, <2>5, <2>6, <2>8 DEF AllAgree, AllFollowed, Agrees
  <2>9. ASSUME NEW s \in Subjects, ~Awaited(divergences, replay, s)
        PROVE  Agrees(nu, fo, call', s)
    <3>1. CASE s # z
      <4>1. nu.instances[s] = st.instances[s]
        BY <2>2, <3>1 DEF Adds, z
      <4> QED
        BY <2>3, <2>8, <2>9, <3>1, <4>1 DEF Agrees, z
    <3>2. CASE s = z /\ w.kind = "observe"
      BY <2>3, <2>4, <2>8, <2>9, <3>2 DEF Agrees
    <3>3. CASE s = z /\ w.kind = "commit"
      BY <2>3, <2>4, <3>3 DEF Agrees, HalfMoved, z
    <3>4. CASE s = z /\ w.kind = "commit_recorded"
      <4>1. CASE Holds(st, z, w.document.envelope)
        <5>1. Holds(fo, z, w.document.envelope)
          BY <1>1, <2>8, <2>9, <3>4, <4>1 DEF Followed, Owing, Holds
        <5> QED
          BY <2>3, <2>4, <2>8, <2>9, <3>4, <4>1, <5>1 DEF Agrees, HalfMoved, z
      <4>2. CASE ~Holds(st, z, w.document.envelope)
        <5>1. ~Holds(fo, z, w.document.envelope)
          BY <2>4, <2>5, <4>2 DEF Backed, AllIn, Holds
        <5> QED
          BY <2>3, <2>4, <3>4, <4>2, <5>1 DEF Agrees, HalfMoved, z
      <4> QED
        BY <4>1, <4>2
    <3> QED
      BY <2>7, <3>1, <3>2, <3>3, <3>4
  <2>10. AllAgree(nu, fo, divergences', replay', call')
    BY <1>1, <2>9 DEF AllAgree
  <2>11. HalfHeld(nu, call')
    BY <2>3, <2>4 DEF HalfHeld, z
  <2>12. Backed(nu, fo)
    BY <2>1, <2>5 DEF Backed, AllIn, Good, Continues, Keeps
  <2> QED
    BY <1>1, <2>1, <2>10, <2>11, <2>12, QuietNext DEF nu, fo
<1> QED
  BY <1>4, <1>5

(* The follower is asked. *)
LEMMA SecondQuiet ==
  ASSUME Base, QuietHolds, Second
  PROVE  QuietHolds'
<1> DEFINE w  == call.write
           z  == SubjectOf(w)
           st == sides[Leader]
           fo == sides[Follower]
           nu == sides'[Follower]
<1>1. call.pc = "second" /\ UNCHANGED <<setup, policy, serving, replay>>
  BY DEF Second
<1>2. w \in setup.writes /\ Valid(w)
  BY <1>1 DEF Base, OneAtATime
<1>3. PICK result \in Attempts(Follower, Perform(fo, w)) :
        /\ Took(Follower, result)
        /\ IF result.outcome = "ok"
           THEN Respond("ok") /\ UNCHANGED divergences
           ELSE /\ divergences' = Diverged(w)
                /\ Respond(IF WriteOrder[1] = "local" THEN "ok" ELSE result.outcome)
  BY DEF Second, Follower
<1>4. call'.pc = "idle"
  BY <1>3, Responded
<1>5. /\ sides'[Leader] = st /\ w \in Write /\ Forward(w) /\ Sound(fo)
      /\ nu = fo \/ nu = Perform(fo, w).store
      /\ result.outcome = "ok" => /\ nu = Perform(fo, w).store
                                  /\ Perform(fo, w).outcome = "ok"
  BY <1>2, <1>3, AttemptGives, Ends
<1>6. nu = fo \/ Adds(fo, w, nu)
  BY <1>5, WriteDone
<1>7. /\ Backed(st, fo) /\ HalfHeld(st, call)
      /\ AllAgree(st, fo, divergences, replay, call)
  BY DEF QuietHolds
<1>8. w.kind \in {"commit", "commit_recorded", "observe"}
  BY <1>5 DEF Write
<1>9. result.outcome = "ok" =>
        /\ w.kind = "observe" => nu.instances = fo.instances
        /\ w.kind = "commit" => nu.instances[z] = w.document.instance
        /\ w.kind = "commit_recorded" =>
             IF Holds(fo, z, w.document.envelope)
             THEN nu = fo ELSE nu.instances[z] = w.document.instance
  BY <1>2, <1>5, WriteMoves
<1>10. divergences \in Seq(Divergence)
  BY DEF Base, Shape
<1> DEFINE d == DivergenceOf(w, WriteOrder[1])
<1>11. d.subject = z
  BY DEF DivergenceOf
<1>12. divergences' = divergences \/ divergences' = Append(divergences, d)
  BY <1>3 DEF Diverged
<1>13. result.outcome # "ok" => divergences' = Append(divergences, d)
  BY <1>3 DEF Diverged
<1> HIDE DEF w, z, st, fo, nu, d
<1>14. /\ \A s : Awaited(divergences, replay, s) => Awaited(divergences', replay', s)
       /\ result.outcome # "ok" => Awaited(divergences', replay', z)
  <2>1. ASSUME divergences' = Append(divergences, d)
        PROVE  /\ \A i \in DOMAIN divergences :
                    i \in DOMAIN divergences' /\ divergences'[i] = divergences[i]
               /\ \E i \in DOMAIN divergences' : divergences'[i] = d
    BY <1>10, <2>1
  <2> QED
    BY <1>1, <1>11, <1>12, <1>13, <2>1 DEF Awaited, About
<1>15. ASSUME NEW s \in Subjects, ~Awaited(divergences', replay', s)
       PROVE  st.instances[s] = nu.instances[s]
  <2>1. Agrees(st, fo, call, s)
    BY <1>7, <1>14, <1>15 DEF AllAgree
  <2>2. CASE s # z
    <3>1. nu.instances[s] = fo.instances[s]
      BY <1>6, <2>2 DEF Adds, z
    <3> QED
      BY <2>1, <2>2, <3>1 DEF Agrees, w, z
  <2>3. CASE s = z
    <3>1. result.outcome = "ok"
      BY <1>14, <1>15, <2>3
    <3>2. CASE w.kind = "observe"
      BY <1>9, <2>1, <2>3, <3>1, <3>2 DEF Agrees, w
    <3>3. CASE w.kind = "commit"
      <4>1. HalfMoved(st, fo, w, s)
        BY <1>1, <2>1, <2>3, <3>3 DEF Agrees, w, z
      <4> QED
        BY <1>9, <2>3, <3>1, <3>3, <4>1 DEF HalfMoved
    <3>4. CASE w.kind = "commit_recorded"
      <4>1. HalfMoved(st, fo, w, s)
        BY <1>1, <2>1, <2>3, <3>4 DEF Agrees, w, z
      <4> QED
        BY <1>9, <2>3, <3>1, <3>4, <4>1 DEF HalfMoved
    <3> QED
      BY <1>8, <3>2, <3>3, <3>4
  <2> QED
    BY <2>2, <2>3
<1>16. AllAgree(st, nu, divergences', replay', call')
  BY <1>4, <1>15 DEF AllAgree, Agrees
<1>17. Backed(st, nu)
  <2> SUFFICES ASSUME NEW s \in Subjects, NEW i \in DOMAIN nu.records[s]
               PROVE  \E j \in DOMAIN st.records[s] : nu.records[s][i] = st.records[s][j]
    BY DEF Backed, AllIn
  <2>1. CASE \E j \in DOMAIN fo.records[s] : nu.records[s][i] = fo.records[s][j]
    BY <1>7, <2>1 DEF Backed, AllIn
  <2>2. CASE /\ w.kind = "commit_recorded" /\ s = z
             /\ nu.records[s][i] = w.document.envelope
    BY <1>1, <1>7, <2>2 DEF HalfHeld, Holds, w, z
  <2>3. CASE nu = fo
    BY <2>1, <2>3
  <2> QED
    BY <1>6, <2>1, <2>2, <2>3 DEF Adds, z
<1>18. HalfHeld(st, call')
  BY <1>4 DEF HalfHeld
<1> QED
  BY <1>1, <1>5, <1>16, <1>17, <1>18, QuietNext DEF st, nu

(* A write of one subject leaves the instances of the others alone. *)
LEMMA OthersHeld ==
  ASSUME NEW st, Shaped(st), NEW d, NEW expect, NEW z \in Subjects, z # d.instance.subject
  PROVE  /\ commit(st, d, expect).store.instances[z] = st.instances[z]
         /\ commit_recorded(st, d, expect).store.instances[z] = st.instances[z]
<1>1. DOMAIN st = DOMAIN EmptyStore
  BY DEF Shaped
<1>2. st.instances \in [Subjects -> Instance \cup {None}]
  BY <1>1, ShapedFields
<1>3. Recorded(st, d).instances[z] = st.instances[z]
  <2>1. Recorded(st, d).instances = [st.instances EXCEPT ![d.instance.subject] = d.instance]
    BY <1>1 DEF Recorded, EmptyStore
  <2> QED
    BY <1>2, <2>1
<1>4. Committed(st, d).instances[z] = st.instances[z]
  <2>1. Committed(st, d).instances = [st.instances EXCEPT ![d.instance.subject] = d.instance]
    BY <1>1, CommittedFields
  <2> QED
    BY <1>2, <2>1
<1>5. commit(st, d, expect).store \in {st, Committed(st, d)}
  BY CommitCases
<1>6. commit_recorded(st, d, expect).store \in {st, Recorded(st, d)}
  BY CommitRecordedCases
<1> QED
  BY <1>3, <1>4, <1>5, <1>6

(* The catch-up moves the subject in hand and no other. *)
LEMMA OthersStay ==
  ASSUME Base, ReplayHolds, CatchUpStep, NEW z \in Subjects, z # Current.subject
  PROVE  \A x \in Side : sides'[x].instances[z] = sides[x].instances[z]
<1>1. ASSUME Working
      PROVE  /\ Current.subject \in Subjects /\ Source \in Side /\ Destination \in Side
             /\ Source # Destination /\ Shaped(sides[Destination])
             /\ \A x \in Side : x = Source \/ x = Destination
  <2>1. /\ Current.subject \in Subjects /\ Source \in Side /\ Destination \in Side
        /\ Source # Destination
    BY <1>1, WorkingFacts DEF Base
  <2> QED
    BY <2>1 DEF Base, Shape, Side
<1>2. CASE RestoreObservation
  <2>1. Working
    BY <1>2 DEF RestoreObservation, At, Working
  <2>2. /\ sides'[Source] = sides[Source]
        /\ sides'[Destination].instances = sides[Destination].instances
    BY <1>2, RestoreGives
  <2> QED
    BY <1>1, <2>1, <2>2
<1>3. CASE CommitRecord
  <2> DEFINE e  == replay.records[replay.at]
             d  == [instance |-> e.result, envelope |-> e]
             st == sides[Destination]
  <2>1. Working /\ replay.pc = "commit"
    BY <1>3 DEF CommitRecord, At, Working
  <2>2. sides'[Source] = sides[Source]
    BY <1>3, CommitGives
  <2>3. d.instance.subject = Current.subject
    BY <2>1, CommitFacts
  <2>4. PICK result \in Attempts(Destination, commit_recorded(st, d, Expected)) :
          Took(Destination, result)
    BY <1>3 DEF CommitRecord
  <2>5. sides'[Destination] = result.store
    BY <1>1, <2>1, <2>4 DEF Took, Base, Shape
  <2>6. result.store \in {st, commit_recorded(st, d, Expected).store}
    BY <2>4, AttemptFacts
  <2> HIDE DEF d
  <2>7. commit_recorded(st, d, Expected).store.instances[z] = st.instances[z]
    BY <1>1, <2>1, <2>3, OthersHeld
  <2> QED
    BY <1>1, <2>1, <2>2, <2>5, <2>6, <2>7
<1>4. CASE Mirror
  <2> DEFINE d  == legacy_import(replay.instance, replay.events, Reached)
             st == sides[Destination]
  <2>1. Working /\ replay.pc = "mirror"
    BY <1>4 DEF Mirror, At, Working
  <2>2. sides'[Source] = sides[Source]
    BY <1>4, MirrorGives
  <2>3. d.instance.subject = Current.subject
    BY <2>1 DEF legacy_import, ReplayHolds, Loaded
  <2>4. PICK result \in Attempts(Destination, commit(st, d, Expected)) :
          Took(Destination, result)
    BY <1>4 DEF Mirror
  <2>5. sides'[Destination] = result.store
    BY <1>1, <2>1, <2>4 DEF Took, Base, Shape
  <2>6. result.store \in {st, commit(st, d, Expected).store}
    BY <2>4, AttemptFacts
  <2> HIDE DEF d
  <2>7. commit(st, d, Expected).store.instances[z] = st.instances[z]
    BY <1>1, <2>1, <2>3, OthersHeld
  <2> QED
    BY <1>1, <2>1, <2>2, <2>5, <2>6, <2>7
<1>5. CASE ~RestoreObservation /\ ~CommitRecord /\ ~Mirror
  <2>1. sides' = sides
    BY <1>5
      DEF CatchUpStep, Finish, ReadRecords, ReadObservations, ReadHeld, ReadExisting,
        ReplayRecord, CompareObservation, Restored, LoadSource, ReadEvents, Compare, Late
  <2> QED
    BY <2>1
<1> QED
  BY <1>2, <1>3, <1>4, <1>5

(* A step on a divergence gives the follower nothing that is not the       *)
(* leader's.                                                               *)
LEMMA CatchUpBacked ==
  ASSUME Base, ReplayHolds, SteadyHolds, CatchUpStep, Backed(sides[Leader], sides[Follower])
  PROVE  Backed(sides'[Leader], sides'[Follower])
<1>1. CASE ~Working \/ (~RestoreObservation /\ ~CommitRecord /\ ~Mirror)
  <2>1. sides' = sides
    BY <1>1
      DEF CatchUpStep, Finish, ReadRecords, ReadObservations, ReadHeld, ReadExisting,
        ReplayRecord, CompareObservation, Restored, LoadSource, ReadEvents, Compare, Late,
        RestoreObservation, CommitRecord, Mirror, At, Working
  <2> QED
    BY <2>1
<1>2. ASSUME Working
      PROVE  /\ Source = Leader /\ Destination = Follower /\ Current.subject \in Subjects
             /\ sides'[Leader] = sides[Leader]
             /\ replay.records = sides[Leader].records[Current.subject]
  BY <1>2, Ends, LeaderStays DEF SteadyHolds, CatchUpKnows, AsRead
<1>3. CASE Working /\ RestoreObservation
  BY <1>2, <1>3, RestoreGives DEF Backed
<1>4. CASE Working /\ Mirror
  BY <1>2, <1>4, MirrorGives DEF Backed
<1>5. CASE Working /\ CommitRecord
  <2> DEFINE st == sides[Leader]
             fo == sides[Follower]
             to == sides'[Follower]
             s  == Current.subject
             e  == replay.records[replay.at]
  <2>1. \A z \in Subjects : \A i \in DOMAIN to.records[z] :
          \/ \E j \in DOMAIN fo.records[z] : to.records[z][i] = fo.records[z][j]
          \/ z = s /\ to.records[z][i] = e
    BY <1>2, <1>5, CommitGives
  <2>2. replay.at \in DOMAIN replay.records
    BY <1>5, CommitFacts DEF CommitRecord, At
  <2>3. replay.at \in DOMAIN st.records[s] /\ st.records[s][replay.at] = e
    BY <1>2, <1>5, <2>2
  <2> HIDE DEF st, fo, to, s, e
  <2>4. Backed(st, fo)
    BY DEF st, fo
  <2>5. Backed(st, to)
    BY <2>1, <2>3, <2>4 DEF Backed, AllIn
  <2> QED
    BY <1>2, <1>5, <2>5 DEF st, to
<1> QED
  BY <1>1, <1>3, <1>4, <1>5

(* A step on a divergence. *)
LEMMA CatchUpStepQuiet ==
  ASSUME Base, ReplayHolds, Quiet, SteadyHolds, QuietHolds, CatchUpStep, ~Finish
  PROVE  QuietHolds'
<1>1. Progress
  BY CatchUpProgress DEF SteadyHolds
<1>2. replay.pc \notin {"idle", "remember"} /\ replay.todo # << >>
  <2>1. replay.pc = "next" => replay.todo # << >>
    BY DEF CatchUpStep, Finish, ReadRecords, ReadObservations, ReadHeld, ReadExisting,
          ReplayRecord, CompareObservation, RestoreObservation, Restored, CommitRecord,
          LoadSource, ReadEvents, Compare, Mirror, Late, At
  <2>2. replay.pc \notin {"idle", "remember"}
    BY DEF CatchUpStep, Finish, ReadRecords, ReadObservations, ReadHeld, ReadExisting,
          ReplayRecord, CompareObservation, RestoreObservation, Restored, CommitRecord,
          LoadSource, ReadEvents, Compare, Mirror, Late, At
  <2> QED
    BY <2>1, <2>2 DEF Base, OneAtATime
<1>3. /\ UNCHANGED <<setup, policy, divergences, call>> /\ call.pc = "idle"
      /\ sides'[Leader] = sides[Leader]
  <2>1. CASE Working
    BY <2>1, <1>2, LeaderStays DEF Unmoved, Base, OneAtATime
  <2>2. CASE ~Working
    <3>1. ReadRecords
      BY <1>2, <2>2
        DEF Working, CatchUpStep, Finish, ReadRecords, ReadObservations, ReadHeld,
          ReadExisting, ReplayRecord, CompareObservation, RestoreObservation, Restored,
          CommitRecord, LoadSource, ReadEvents, Compare, Mirror, Late, At
    <3> QED
      BY <1>2, <3>1 DEF ReadRecords, Unmoved, Base, OneAtATime
  <2> QED
    BY <2>1, <2>2
<1>4. ASSUME NEW s \in Subjects, ~Awaited(divergences', replay', s)
      PROVE  sides'[Leader].instances[s] = sides'[Follower].instances[s]
  <2>1. CASE s # Current.subject
    <3>1. ~Awaited(divergences, replay, s)
      <4>1. CASE Keep \/ Cleared
        BY <1>2, <1>3, <1>4, <2>1, <4>1, PutAwayLists DEF SteadyHolds
      <4>2. CASE Onward
        BY <1>3, <1>4, <4>2 DEF Onward, Awaited
      <4> QED
        BY <1>1, <4>1, <4>2 DEF Progress
    <3>2. sides[Leader].instances[s] = sides[Follower].instances[s]
      BY <1>3, <3>1 DEF QuietHolds, AllAgree, Agrees
    <3>3. sides'[Follower].instances[s] = sides[Follower].instances[s]
      BY <2>1, OthersStay, Ends
    <3> QED
      BY <1>3, <3>2, <3>3
  <2>2. CASE s = Current.subject
    <3>1. ~Keep
      BY <1>2, <1>4, <2>2, PutAwayLists DEF SteadyHolds, Awaited
    <3>2. ~Onward
      <4>1. About(replay.todo, s)
        <5>1. replay.todo \in Seq(Divergence)
          BY DEF Base, Shape, ReplayShaped
        <5>2. 1 \in DOMAIN replay.todo /\ Current = replay.todo[1]
          BY <1>2, <5>1 DEF Current
        <5> QED
          BY <2>2, <5>2 DEF About
      <4> QED
        BY <1>4, <4>1 DEF Onward, Awaited
    <3>3. CaughtUp(sides[Leader], sides'[Follower], s)
      BY <1>1, <2>2, <3>1, <3>2 DEF Progress, Delivered
    <3> QED
      BY <1>3, <3>3 DEF CaughtUp, Quiet
  <2> QED
    BY <2>1, <2>2
<1>5. AllAgree(sides'[Leader], sides'[Follower], divergences', replay', call')
  BY <1>3, <1>4 DEF AllAgree, Agrees
<1>6. HalfHeld(sides'[Leader], call')
  BY <1>3 DEF HalfHeld
<1>7. Backed(sides'[Leader], sides'[Follower])
  BY CatchUpBacked DEF QuietHolds
<1> QED
  BY <1>3, <1>5, <1>6, <1>7, QuietNext

(* At the start. *)
LEMMA QuietInit == Init => QuietInvariant
<1> SUFFICES ASSUME Init
             PROVE  QuietHolds
  BY DEF QuietInvariant
<1>1. call.pc = "idle"
  BY DEF Init, Idle
<1>2. Leader \in Side /\ Follower \in Side
  BY InvariantInit, Ends DEF HybridInvariant
<1>3. sides[Leader] = sides[Follower]
  BY <1>2 DEF Init
<1> QED
  BY <1>1, <1>3 DEF QuietHolds, Backed, AllIn, HalfHeld, AllAgree, Agrees

(* Every step keeps what two stores that agree keep. *)
LEMMA QuietKept ==
  HybridInvariant /\ SteadyInvariant /\ QuietInvariant /\ [Next]_vars => QuietInvariant'
<1>1. ASSUME [Next]_vars
      PROVE  Quiet' <=> Quiet
  BY <1>1, Fixed DEF Quiet, Alone, NoSuffix
<1> SUFFICES ASSUME Base, ReplayHolds, SteadyInvariant, QuietInvariant, [Next]_vars, Quiet
             PROVE  QuietHolds'
  BY <1>1 DEF QuietInvariant, HybridInvariant
<1>2. SteadyHolds /\ QuietHolds /\ Steady
  BY QuietSteady DEF SteadyInvariant, QuietInvariant
<1>3. ASSUME NEW side \in Side, Flip(side)
      PROVE  QuietHolds'
  BY <1>2, <1>3, AsideSteady, StillQuiet DEF Flip
<1>4. ASSUME NEW w \in setup.writes, Begin(w)
      PROVE  QuietHolds'
  <2>1. call.pc = "idle"
    BY <1>4 DEF Begin, Resting
  <2>2. UNCHANGED <<setup, policy, sides, divergences, replay>> /\ call'.pc # "second"
    BY <1>4, BeginHolds DEF Begin
  <2> QED
    BY <1>2, <2>1, <2>2, AsideSteady, StillQuiet
<1>5. CASE First
  BY <1>2, <1>5, FirstQuiet
<1>6. CASE Second
  BY <1>2, <1>6, SecondQuiet
<1>7. ASSUME NEW w \in setup.rivals, OtherClient(w)
      PROVE  QuietHolds'
  BY <1>7 DEF Quiet, Alone
<1>8. CASE CatchUp
  BY <1>2, <1>8, CatchUpSteady, StillQuiet
<1>9. CASE CatchUpStep
  BY <1>2, <1>9, CatchUpStepQuiet, FinishSteady, StillQuiet
<1>10. CASE Restart
  BY <1>2, <1>10, RestartSteady, StillQuiet
<1>11. CASE remember
  BY <1>2, <1>11, rememberSteady, StillQuiet
<1>12. CASE UNCHANGED vars
  BY <1>2, <1>12, AsideSteady, StillQuiet DEF vars
<1> QED
  BY <1>3, <1>4, <1>5, <1>6, <1>7, <1>8, <1>9, <1>10, <1>11, <1>12, Zenon DEF Next

(* Without other clients and lost replies, and when no unrecorded decision *)
(* follows a recorded one, two sides that disagree on a subject have a     *)
(* divergence recorded about it whenever nothing is under way, whatever    *)
(* failed and restarted before (Hybrid::write, Hybrid::catch_up,           *)
(* Hybrid::remember).                                                      *)
THEOREM DisagreementRecorded == Spec /\ NoSuffix => []DisagreementIsRecorded
<1>1. NoSuffix /\ [Next]_vars => NoSuffix'
  BY Fixed DEF NoSuffix
<1>2. HybridInvariant /\ QuietInvariant /\ NoSuffix => DisagreementIsRecorded
  <2> SUFFICES ASSUME Base, QuietHolds, Resting, NEW s \in Subjects,
                      sides["local"].instances[s] # sides["remote"].instances[s]
               PROVE  Outstanding(s, Side)
    BY DEF HybridInvariant, QuietInvariant, Quiet, DisagreementIsRecorded
  <2>1. Awaited(divergences, replay, s)
    <3>1. sides[Leader].instances[s] # sides[Follower].instances[s]
      BY Ends DEF Side
    <3> QED
      BY <3>1 DEF QuietHolds, AllAgree, Agrees, Resting
  <2> QED
    BY <2>1, AwaitedIsOutstanding, OrderFacts DEF Outstanding, Base
<1>3. QuietInvariant /\ HybridInvariant /\ SteadyInvariant /\ [Next]_vars => QuietInvariant'
  BY QuietKept
<1> QED
  BY <1>1, <1>2, <1>3, QuietInit, Inductive, SteadyInductive, PTL DEF Spec

=============================================================================
