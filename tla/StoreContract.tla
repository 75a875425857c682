---------------------------- MODULE StoreContract ----------------------------
(***************************************************************************)
(* What a store provider promises (crates/entity-store/src/lib.rs), as the *)
(* reference provider computes it (crates/entity-store/src/memory.rs).     *)
(* A store is one value, so that a composition may hold several of them.   *)
(* Every operation returns the store it leaves and the answer it gives.    *)
(***************************************************************************)
EXTENDS Kernel, SequencesExt

CONSTANTS
  RecordIds,   \* caller supplied record ids
  Blank,       \* a record id the envelope refuses
  Notes,       \* observation documents
  Absent       \* Expect::Absent

RecordId == RecordIds \cup {Blank}

(* Envelope<DecisionRecord>.  The record's entity, id, revision and        *)
(* to_state are those of its result.                                       *)
Envelope == [record_id : RecordId, result : Instance,
             command : Commands, events : Seq(Event)]

RecordedCommit == [instance : Instance, envelope : Envelope]

RecordedObservation == [subject : Subjects, revision : Nat,
                        record_id : RecordId, note : Notes]

Document == RecordedCommit \cup RecordedObservation

ASSUME StoreAssumption ==
  /\ Blank \notin RecordIds
  /\ Absent \notin Nat
  /\ None \notin Nat
  /\ None \notin Document

Store ==
  [instances    : [Subjects -> Instance \cup {None}],
   events       : [Subjects -> Seq(Event)],
   records      : [Subjects -> Seq(Envelope)],
   observations : [Subjects -> Seq(RecordedObservation)],
   record_ids   : [RecordIds -> Document \cup {None}]]

EmptyStore ==
  [instances    |-> [s \in Subjects |-> None],
   events       |-> [s \in Subjects |-> << >>],
   records      |-> [s \in Subjects |-> << >>],
   observations |-> [s \in Subjects |-> << >>],
   record_ids   |-> [r \in RecordIds |-> None]]

Refusals == {"backend", "record_conflict", "revision_conflict"}

Answer(store, outcome) == [store |-> store, outcome |-> outcome]

-----------------------------------------------------------------------------
(* Reads. *)

ids(store) == {s \in Subjects : store.instances[s] # None}

revision_of(store, s) ==
  IF store.instances[s] = None THEN None ELSE store.instances[s].revision

AtRevision(events, r) ==
  LET At(event) == event.revision = r IN SelectSeq(events, At)

EventsOf_Unsorted(store, s) ==
  store.events[s] \o
    FlattenSeq([i \in DOMAIN store.records[s] |-> store.records[s][i].events])

(* EventProvider::events: unrecorded events, then those of every envelope, *)
(* stably sorted by revision.                                              *)
EventsOf(store, s) ==
  LET unsorted == store.events[s] \o
        FlattenSeq([i \in DOMAIN store.records[s] |-> store.records[s][i].events])
  IN FlattenSeq([r \in Revisions |-> AtRevision(unsorted, r)])

-----------------------------------------------------------------------------
(* Writes. *)

check_AnyRevision(expect, found) ==
  \/ expect = Absent /\ found = None
  \/ expect \in Nat /\ found # None

(* check: Absent agrees with nothing held, a revision with that revision.  *)
check(expect, found) ==
  \/ expect = Absent /\ found = None
  \/ expect \in Nat /\ found = expect

(* Recording::seal *)
Seal(decision, record_id) ==
  [instance |-> decision.instance,
   envelope |-> [record_id |-> record_id, result |-> decision.instance,
                 command |-> decision.command, events |-> decision.events]]

CommitValid(commit) ==
  /\ commit.envelope.record_id # Blank
  /\ commit.envelope.result = commit.instance

ObservationValid(observation) ==
  /\ observation.record_id # Blank
  /\ observation.revision > 0

(* Store::commit: state and events as one step, without an envelope. *)
commit(store, decision, expect) ==
  LET s == decision.instance.subject IN
  IF ~check(expect, revision_of(store, s))
  THEN Answer(store, "revision_conflict")
  ELSE Answer([store EXCEPT !.instances[s] = decision.instance,
                            !.events[s] = @ \o decision.events], "ok")

(* The record a subject holds under a record id, when the id index has     *)
(* none: the reference provider looks a second time, by subject.           *)
HeldRecord(store, s, r) ==
  {i \in DOMAIN store.records[s] : store.records[s][i].record_id = r}

HeldObservation(store, s, r) ==
  {i \in DOMAIN store.observations[s] : store.observations[s][i].record_id = r}

Remembered_Nothing(store, r) == None

(* The id index: what a record id was first given to. *)
Remembered(store, r) == store.record_ids[r]

SameOrConflict_NotCompared(store, same) == Answer(store, "ok")

(* A retry of the same bytes is success without a second append. *)
SameOrConflict(store, same) ==
  Answer(store, IF same THEN "ok" ELSE "record_conflict")

commit_recorded(store, recorded, expect) ==
  LET s    == recorded.instance.subject
      r    == recorded.envelope.record_id
      held == HeldRecord(store, s, r)
  IN
  IF ~CommitValid(recorded) THEN Answer(store, "backend")
  ELSE IF Remembered(store, r) # None
       THEN SameOrConflict(store, Remembered(store, r) = recorded)
  ELSE IF held # {}
       THEN LET first == CHOOSE i \in held : \A j \in held : i <= j
            IN SameOrConflict(store,
                 /\ store.records[s][first] = recorded.envelope
                 /\ store.instances[s] = recorded.instance)
  ELSE IF ~check(expect, revision_of(store, s))
       THEN Answer(store, "revision_conflict")
  ELSE Answer([store EXCEPT !.instances[s] = recorded.instance,
                            !.records[s] = Append(@, recorded.envelope),
                            !.record_ids[r] = recorded], "ok")

observe(store, observation) ==
  LET s    == observation.subject
      r    == observation.record_id
      held == HeldObservation(store, s, r)
  IN
  IF ~ObservationValid(observation) THEN Answer(store, "backend")
  ELSE IF Remembered(store, r) # None
       THEN SameOrConflict(store, Remembered(store, r) = observation)
  ELSE IF held # {}
       THEN LET first == CHOOSE i \in held : \A j \in held : i <= j
            IN SameOrConflict(store, store.observations[s][first] = observation)
  ELSE IF ~check(observation.revision, revision_of(store, s))
       THEN Answer(store, "revision_conflict")
  ELSE Answer([store EXCEPT !.observations[s] = Append(@, observation),
                            !.record_ids[r] = observation], "ok")

(* The three writes of the Store trait, as one document each. *)
Write ==
  [kind : {"commit"}, document : Decision, expect : Nat \cup {Absent}]
  \cup
  [kind : {"commit_recorded"}, document : RecordedCommit, expect : Nat \cup {Absent}]
  \cup
  [kind : {"observe"}, document : RecordedObservation, expect : {None}]

Perform(store, w) ==
  CASE w.kind = "commit"          -> commit(store, w.document, w.expect)
    [] w.kind = "commit_recorded" -> commit_recorded(store, w.document, w.expect)
    [] w.kind = "observe"         -> observe(store, w.document)

SubjectOf(w) ==
  IF w.kind = "observe" THEN w.document.subject ELSE w.document.instance.subject

-----------------------------------------------------------------------------

(* The decision at place i of a subject's history is the one its id names. *)
RecordIndexed(store, s, i) ==
  LET e == store.records[s][i] IN
  /\ e.record_id \in RecordIds
  /\ e.result.subject = s
  /\ store.record_ids[e.record_id] = [instance |-> e.result, envelope |-> e]
  /\ \A j \in DOMAIN store.records[s] :
       store.records[s][j].record_id = e.record_id => i = j

(* The same for an observation. *)
ObservationIndexed(store, s, i) ==
  LET o == store.observations[s][i] IN
  /\ o.record_id \in RecordIds
  /\ o.subject = s
  /\ store.record_ids[o.record_id] = o
  /\ \A j \in DOMAIN store.observations[s] :
       store.observations[s][j].record_id = o.record_id => i = j

(* A document the index names is an entry of its subject. *)
NameHeld(store, r) ==
  LET d == store.record_ids[r] IN
  /\ d \in RecordedCommit =>
       /\ d.envelope.record_id = r
       /\ d.envelope.result = d.instance
       /\ \E i \in DOMAIN store.records[d.instance.subject] :
            store.records[d.instance.subject][i] = d.envelope
  /\ d \in RecordedObservation =>
       /\ d.record_id = r
       /\ \E i \in DOMAIN store.observations[d.subject] :
            store.observations[d.subject][i] = d

(* The id index of a store and the histories of its subjects say the same. *)
IndexIsExact(store) ==
  /\ \A s \in Subjects : \A i \in DOMAIN store.records[s] :
       RecordIndexed(store, s, i)
  /\ \A s \in Subjects : \A i \in DOMAIN store.observations[s] :
       ObservationIndexed(store, s, i)
  /\ \A r \in RecordIds : NameHeld(store, r)

(* A decision's instance is not past the one held, and is it at its        *)
(* revision.                                                               *)
NotPast(here, held) ==
  /\ held # None
  /\ here.revision <= held.revision
  /\ here.revision = held.revision => here = held

(* The next decision is at a later revision, and one kernel step away when *)
(* that is the next one.                                                   *)
LeadsTo(here, after) ==
  /\ here.revision < after.result.revision
  /\ after.result.revision = here.revision + 1 =>
       /\ Admits(here, after.command)
       /\ after.result = execute(here, after.command).instance

(* The decision at place i of a subject's history. *)
OnKernelPath(store, s, i) ==
  /\ NotPast(store.records[s][i].result, store.instances[s])
  /\ i + 1 \in DOMAIN store.records[s] =>
       LeadsTo(store.records[s][i].result, store.records[s][i + 1])

Placed(store) ==
  \A s \in Subjects : store.instances[s] # None => store.instances[s].subject = s

IsKernelPath(store) ==
  /\ Placed(store)
  /\ \A s \in Subjects : \A i \in DOMAIN store.records[s] : OnKernelPath(store, s, i)

Keeps(old, new) == \A i \in DOMAIN old : i \in DOMAIN new /\ new[i] = old[i]

(* Every history of `new` continues the one of `old`, and no record id is  *)
(* given to another document.                                              *)
Extends(old, new) ==
  /\ \A s \in Subjects :
       /\ Keeps(old.events[s], new.events[s])
       /\ Keeps(old.records[s], new.records[s])
       /\ Keeps(old.observations[s], new.observations[s])
  /\ \A r \in RecordIds :
       old.record_ids[r] # None => new.record_ids[r] = old.record_ids[r]

(* No instance of `new` is behind `old`, or another one at its revision.   *)
Advances(old, new) ==
  \A s \in Subjects : old.instances[s] # None =>
    /\ new.instances[s] # None
    /\ old.instances[s].revision <= new.instances[s].revision
    /\ old.instances[s].revision = new.instances[s].revision =>
         old.instances[s] = new.instances[s]

=============================================================================
