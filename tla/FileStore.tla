----------------------------- MODULE FileStore -----------------------------
(***************************************************************************)
(* File Store v2 (crates/entity-store/src/file.rs): handles of several     *)
(* processes over one directory.  A write holds an exclusive advisory lock *)
(* from the epoch byte to the directory sync; the subject document is      *)
(* staged in a temporary file and installed by rename.  Each handle caches *)
(* where record ids live, and trusts the cache while the length of the     *)
(* lock file is the epoch it remembers.                                    *)
(***************************************************************************)
EXTENDS StoreContract

CONSTANTS
  Handles,          \* open FileStore handles
  Entity,           \* [Subjects -> entities]: a directory for each entity
  Legacy,           \* what migrate_file_store_v1 may have published, or None
  Setups,           \* what callers write and which failures they meet
  AncestorsDurable, \* whether syncing a directory also makes it reachable
  MaxEpoch          \* bound: bytes in the lock file

(* Where a write may meet an error: syncing the epoch byte, publishing the *)
(* marker, writing the temporary file, renaming it, or syncing the         *)
(* directory after the rename.                                             *)
IOFaults == {"epoch", "marker", "stage", "install", "directory"}

(* What callers write, the I/O errors, whether a process may die with its  *)
(* handle, and whether the machine may lose power.                         *)
Setup == [writes : SUBSET Write, faults : SUBSET IOFaults,
          process_crashes : BOOLEAN, power_cuts : BOOLEAN]

(* StoredSubject *)
StoredSubject ==
  [instance : Instance, events : Seq(Event), records : Seq(Envelope),
   observations : Seq(RecordedObservation)]

(* RecordLocation *)
Location == [subject : Subjects, observation : BOOLEAN]

(* migrate_file_store_v1 publishes documents without records. *)
Migrated(old) ==
  /\ old \in [Subjects -> StoredSubject \cup {None}]
  /\ \A s \in Subjects : old[s] # None =>
       /\ old[s].instance.subject = s
       /\ old[s].records = << >> /\ old[s].observations = << >>

(* A decision is past the revision its caller expects. *)
Later(w) ==
  w.kind # "observe" /\ w.expect # Absent => w.expect < w.document.instance.revision

ASSUME FileAssumption ==
  /\ \A one \in Setups :
       /\ DOMAIN one = {"writes", "faults", "process_crashes", "power_cuts"}
       /\ one.writes \subseteq Write
       /\ one.faults \subseteq IOFaults
       /\ {one.process_crashes, one.power_cuts} \subseteq BOOLEAN
       /\ \A w \in one.writes : Later(w)
  /\ AncestorsDurable \in BOOLEAN
  /\ MaxEpoch \in Nat
  /\ Legacy # {} /\ \A old \in Legacy \ {None} : Migrated(old)
  /\ None \notin Handles \cup Write \cup StoredSubject \cup Location
  /\ None \notin [RecordIds -> Location \cup {None}]

VARIABLES
  setup,     \* the callers and failures of this behaviour, fixed
  marker,    \* the root carries the v2 format marker
  subjects,  \* the subject documents processes see
  durable,   \* the documents a power cut is sure to leave
  stale,     \* subjects with an abandoned temporary file
  epoch,     \* length of the lock file; 0 before it exists
  writer,    \* the handle that holds the lock exclusively, or None
  readers,   \* the handles that hold it shared
  handles,   \* each handle's record index and remembered epoch
  calls,     \* the operation each handle runs
  acked      \* history: the writes answered with success

vars == <<setup, marker, subjects, durable, stale, epoch, writer, readers,
          handles, calls, acked>>

disk == <<setup, marker, subjects, durable, stale>>
lock == <<epoch, writer, readers>>

Handle == [index : [RecordIds -> Location \cup {None}] \cup {None},
           epoch : Nat \cup {None}]

(* FileStore::open: no index, and an epoch (u64::MAX) no lock file has. *)
Opened == [index |-> None, epoch |-> None]

Call == [pc     : {"idle", "lock", "decide", "stage", "install", "sync", "acquire"},
         write  : Write \cup {None},
         stored : StoredSubject \cup {None},
         todo   : SUBSET Subjects,
         taken  : [Subjects -> StoredSubject \cup {None}],
         answer : {"none", "ok"} \cup Refusals]

Idle == [pc |-> "idle", write |-> None, stored |-> None, todo |-> {},
         taken |-> [s \in Subjects |-> None], answer |-> "none"]

TypeOK ==
  /\ setup \in Setups
  /\ marker \in BOOLEAN
  /\ subjects \in [Subjects -> StoredSubject \cup {None}]
  /\ durable \in [Subjects -> StoredSubject \cup {None}]
  /\ stale \subseteq Subjects
  /\ epoch \in 0 .. MaxEpoch
  /\ writer \in Handles \cup {None}
  /\ readers \subseteq Handles
  /\ handles \in [Handles -> Handle]
  /\ calls \in [Handles -> Call]
  /\ acked \subseteq setup.writes

(* A root nobody wrote, or one the migration published: its marker is      *)
(* there and its lock file is not.                                         *)
Init ==
  /\ setup \in Setups
  /\ \E old \in Legacy :
       /\ marker = (old # None)
       /\ subjects = IF old = None THEN [s \in Subjects |-> None] ELSE old
  /\ durable = subjects
  /\ stale = {}
  /\ epoch = 0
  /\ writer = None
  /\ readers = {}
  /\ handles = [h \in Handles |-> Opened]
  /\ calls = [h \in Handles |-> Idle]
  /\ acked = {}

-----------------------------------------------------------------------------
(* The record index. *)

Under(r, entry) == entry.record_id = r

FindRecord(stored, r) == SelectInSeq(stored.records, LAMBDA e : Under(r, e))

FindObservation(stored, r) == SelectInSeq(stored.observations, LAMBDA o : Under(r, o))

Holding(docs, r) ==
  {s \in Subjects : /\ docs[s] # None
                    /\ FindRecord(docs[s], r) + FindObservation(docs[s], r) > 0}

(* scan_records: one location for each record id.  When several subjects   *)
(* hold an id the last one the directory lists stays.                      *)
ScanMay(docs, index) ==
  \A r \in RecordIds :
    IF Holding(docs, r) = {} THEN index[r] = None
    ELSE \E s \in Holding(docs, r) :
           index[r] = [subject |-> s, observation |-> FindObservation(docs[s], r) > 0]

(* record_document: what the store holds under a record id, as far as the  *)
(* index knows; nothing before the root is marked.                         *)
record_document(index, r) ==
  IF ~marker \/ index[r] = None \/ subjects[index[r].subject] = None THEN None
  ELSE LET stored == subjects[index[r].subject]
           o      == FindObservation(stored, r)
           e      == FindRecord(stored, r)
       IN IF index[r].observation
          THEN IF o = 0 THEN None ELSE stored.observations[o]
          ELSE IF e = 0 THEN None
               ELSE [instance |-> stored.records[e].result,
                     envelope |-> stored.records[e]]

remember(handle, r, s, observation) ==
  IF handle.index = None THEN handle
  ELSE [handle EXCEPT !.index[r] = [subject |-> s, observation |-> observation]]

-----------------------------------------------------------------------------
(* What the writes decide once the lock is held. *)

Fresh(instance) ==
  [instance |-> instance, events |-> << >>, records |-> << >>, observations |-> << >>]

held_revision(stored) == IF stored = None THEN None ELSE stored.instance.revision

(* "write" asks for the document to be installed. *)
Verdict(outcome, stored) == [outcome |-> outcome, stored |-> stored]

SameOr_NotCompared(same) == Verdict("ok", None)

SameOr(same) == Verdict(IF same THEN "ok" ELSE "record_conflict", None)

DecideCommit_DropsHistory(stored, decision, expect) ==
  IF ~check(expect, held_revision(stored)) THEN Verdict("revision_conflict", None)
  ELSE Verdict("write", [Fresh(decision.instance) EXCEPT !.events = @ \o decision.events])

DecideCommit(stored, decision, expect) ==
  IF ~check(expect, held_revision(stored)) THEN Verdict("revision_conflict", None)
  ELSE LET base == IF stored = None THEN Fresh(decision.instance) ELSE stored
       IN Verdict("write", [base EXCEPT !.instance = decision.instance,
                                        !.events = @ \o decision.events])

DecideRecorded(existing, stored, recorded, expect) ==
  LET r == recorded.envelope.record_id IN
  IF existing # None THEN SameOr(existing = recorded)
  ELSE IF stored # None /\ FindRecord(stored, r) # 0
       THEN SameOr(/\ stored.records[FindRecord(stored, r)] = recorded.envelope
                   /\ stored.instance = recorded.instance)
  ELSE IF stored # None /\ FindObservation(stored, r) # 0
       THEN Verdict("record_conflict", None)
  ELSE IF ~check(expect, held_revision(stored)) THEN Verdict("revision_conflict", None)
  ELSE LET base == IF stored = None THEN Fresh(recorded.instance) ELSE stored
       IN Verdict("write", [base EXCEPT !.instance = recorded.instance,
                                        !.records = Append(@, recorded.envelope)])

DecideObserve(existing, stored, observation) ==
  LET r == observation.record_id IN
  IF existing # None THEN SameOr(existing = observation)
  ELSE IF stored = None THEN Verdict("revision_conflict", None)
  ELSE IF FindObservation(stored, r) # 0
       THEN SameOr(stored.observations[FindObservation(stored, r)] = observation)
  ELSE IF FindRecord(stored, r) # 0 THEN Verdict("record_conflict", None)
  ELSE IF ~check(observation.revision, held_revision(stored))
       THEN Verdict("revision_conflict", None)
  ELSE Verdict("write", [stored EXCEPT !.observations = Append(@, observation)])

Decide(index, w) ==
  LET stored == subjects[SubjectOf(w)] IN
  CASE w.kind = "commit" -> DecideCommit(stored, w.document, w.expect)
    [] w.kind = "commit_recorded" ->
         DecideRecorded(record_document(index, w.document.envelope.record_id),
                        stored, w.document, w.expect)
    [] w.kind = "observe" ->
         DecideObserve(record_document(index, w.document.record_id),
                       stored, w.document)

-----------------------------------------------------------------------------
(* The steps of a write. *)

Goto(h, pc) == calls' = [calls EXCEPT ![h].pc = pc]

(* The operation returns, and its guard drops the lock. *)
Return(h, answer) ==
  /\ calls' = [calls EXCEPT ![h] = [Idle EXCEPT !.answer = answer]]
  /\ writer' = IF writer = h THEN None ELSE writer
  /\ readers' = readers \ {h}
  /\ acked' = IF answer = "ok" /\ calls[h].write # None
              THEN acked \cup {calls[h].write} ELSE acked

Valid(w) ==
  CASE w.kind = "commit" -> TRUE
    [] w.kind = "commit_recorded" -> CommitValid(w.document)
    [] w.kind = "observe" -> ObservationValid(w.document)

Begin(h, w) ==
  /\ calls[h].pc = "idle" /\ epoch < MaxEpoch
  /\ calls' = [calls EXCEPT ![h] =
       IF Valid(w) THEN [Idle EXCEPT !.pc = "lock", !.write = w]
                   ELSE [Idle EXCEPT !.answer = "backend"]]
  /\ UNCHANGED <<disk, lock, handles, acked>>

KeptIndex_Trusting(handle) == handle.index

(* The index survives only the handle's own writes. *)
KeptIndex(handle) == IF handle.epoch = epoch THEN handle.index ELSE None

LockFree_SharesIgnored == writer = None

(* lock_exclusive: nobody writes and nobody acquires. *)
LockFree == writer = None /\ readers = {}

(* write_guard.  A byte that is written but not synced still advances the  *)
(* lock file; the handle then keeps the epoch it had, and the index.       *)
Lock(h) ==
  /\ calls[h].pc = "lock" /\ LockFree /\ epoch < MaxEpoch
  /\ epoch' = epoch + 1
  /\ \/ /\ handles' = [handles EXCEPT ![h] = [index |-> KeptIndex(handles[h]),
                                              epoch |-> epoch + 1]]
        /\ writer' = h
        /\ Goto(h, "decide")
        /\ UNCHANGED <<readers, acked>>
     \/ /\ "epoch" \in setup.faults
        /\ handles' = [handles EXCEPT ![h].index = KeptIndex(handles[h])]
        /\ Return(h, "backend")
  /\ UNCHANGED disk

(* Lookup, revision check and the new document, under the lock.  A         *)
(* recorded write builds the index first when there is none.               *)
DecideWrite(h) ==
  /\ calls[h].pc = "decide"
  /\ LET w     == calls[h].write
         looks == marker /\ w.kind # "commit"
     IN \E index \in [RecordIds -> Location \cup {None}] :
          /\ IF looks /\ handles[h].index = None THEN ScanMay(subjects, index)
             ELSE index = IF handles[h].index = None
                          THEN [r \in RecordIds |-> None] ELSE handles[h].index
          /\ handles' = IF looks THEN [handles EXCEPT ![h].index = index] ELSE handles
          /\ LET verdict == Decide(index, w) IN
             IF verdict.outcome = "write"
             THEN /\ calls' = [calls EXCEPT ![h].pc = "stage",
                                            ![h].stored = verdict.stored]
                  /\ UNCHANGED <<writer, readers, acked>>
             ELSE Return(h, verdict.outcome)
  /\ UNCHANGED <<disk, epoch>>

(* prepare publishes the marker of a root that has none; then the          *)
(* temporary file is written and synced.  An error removes it.             *)
Stage(h) ==
  /\ calls[h].pc = "stage"
  /\ \/ marker' = TRUE /\ Goto(h, "install") /\ UNCHANGED <<writer, readers, acked>>
     \/ "marker" \in setup.faults /\ ~marker /\ marker' \in BOOLEAN /\ Return(h, "backend")
     \/ "stage" \in setup.faults /\ marker' = TRUE /\ Return(h, "backend")
  /\ UNCHANGED <<setup, subjects, durable, stale, epoch, handles>>

(* The rename: the whole document at once. *)
Install(h) ==
  /\ calls[h].pc = "install"
  /\ \/ /\ subjects' = [subjects EXCEPT ![SubjectOf(calls[h].write)] = calls[h].stored]
        /\ Goto(h, "sync")
        /\ UNCHANGED <<writer, readers, acked>>
     \/ "install" \in setup.faults /\ Return(h, "backend") /\ UNCHANGED subjects
  /\ UNCHANGED <<setup, marker, durable, stale, epoch, handles>>

sync_directory_Nothing(entity) == durable

(* Syncing an entity's directory makes the documents in it durable. *)
sync_directory(entity) ==
  [s \in Subjects |-> IF Entity[s] = entity THEN subjects[s] ELSE durable[s]]

(* What a handle knows once its write is done. *)
Learned(handle, w) ==
  CASE w.kind = "commit" -> handle
    [] w.kind = "commit_recorded" ->
         remember(handle, w.document.envelope.record_id, SubjectOf(w), FALSE)
    [] w.kind = "observe" ->
         remember(handle, w.document.record_id, SubjectOf(w), TRUE)

(* sync_directory, then remember.  After an error the document stays       *)
(* installed and the index does not learn of it.                           *)
Sync(h) ==
  /\ calls[h].pc = "sync"
  /\ \/ /\ durable' = sync_directory(Entity[SubjectOf(calls[h].write)])
        /\ handles' = [handles EXCEPT ![h] = Learned(@, calls[h].write)]
        /\ Return(h, "ok")
     \/ /\ "directory" \in setup.faults
        /\ Return(h, "backend")
        /\ UNCHANGED <<durable, handles>>
  /\ UNCHANGED <<setup, marker, subjects, stale, epoch>>

-----------------------------------------------------------------------------
(* Acquisition by the importer, handles and failures. *)

Here == {s \in Subjects : subjects[s] # None}

(* acquire_legacy, read_guard: a shared lock on the lock file, which a     *)
(* root that was only migrated does not have.  An unmarked root is empty.  *)
Acquire(h) ==
  /\ calls[h].pc = "idle"
  /\ calls' = [calls EXCEPT ![h] =
       IF ~marker THEN [Idle EXCEPT !.answer = "ok"]
       ELSE IF epoch = 0 THEN [Idle EXCEPT !.answer = "backend"]
       ELSE [Idle EXCEPT !.pc = "acquire", !.todo = Here \cup stale]]
  /\ IF marker /\ epoch > 0
     THEN writer = None /\ readers' = readers \cup {h}
     ELSE UNCHANGED readers
  /\ UNCHANGED <<disk, epoch, writer, handles, acked>>

(* One directory entry of the walk; an abandoned temporary file ends it. *)
AcquireSubject(h, s) ==
  /\ calls[h].pc = "acquire" /\ s \in calls[h].todo
  /\ IF s \in stale THEN Return(h, "backend")
     ELSE /\ calls' = [calls EXCEPT ![h].todo = @ \ {s}, ![h].taken[s] = subjects[s]]
          /\ UNCHANGED <<writer, readers, acked>>
  /\ UNCHANGED <<disk, epoch, handles>>

Acquired(h) ==
  /\ calls[h].pc = "acquire" /\ calls[h].todo = {}
  /\ Return(h, "ok")
  /\ UNCHANGED <<disk, epoch, handles>>

(* Clone: the copy knows what the original knew. *)
Clone(h, g) ==
  /\ h # g /\ calls[h].pc = "idle" /\ calls[g].pc = "idle"
  /\ handles' = [handles EXCEPT ![g] = handles[h]]
  /\ UNCHANGED <<disk, lock, calls, acked>>

Abandoned(h) ==
  IF calls[h].pc = "install" THEN {SubjectOf(calls[h].write)} ELSE {}

(* The process dies and another opens the root: the lock is free again,    *)
(* and a staged temporary file stays.                                      *)
Crash(h) ==
  /\ setup.process_crashes /\ calls[h].pc # "idle"
  /\ handles' = [handles EXCEPT ![h] = Opened]
  /\ calls' = [calls EXCEPT ![h] = Idle]
  /\ writer' = IF writer = h THEN None ELSE writer
  /\ readers' = readers \ {h}
  /\ stale' = stale \cup Abandoned(h)
  /\ UNCHANGED <<setup, marker, subjects, durable, epoch, acked>>

(* Every process dies.  An unsynced rename may be undone; where a synced   *)
(* directory does not make its ancestors durable, it may be unreachable.   *)
PowerCut ==
  /\ setup.power_cuts /\ \E h \in Handles : handles[h] # Opened \/ calls[h] # Idle
  /\ \E lost \in SUBSET Subjects, gone \in SUBSET {Entity[s] : s \in Subjects} :
       /\ AncestorsDurable => gone = {}
       /\ subjects' = [s \in Subjects |-> IF Entity[s] \in gone THEN None
                                          ELSE IF s \in lost THEN durable[s]
                                          ELSE subjects[s]]
  /\ durable' = subjects'
  /\ stale' = stale \cup UNION {Abandoned(h) : h \in Handles}
  /\ handles' = [h \in Handles |-> Opened]
  /\ calls' = [h \in Handles |-> Idle]
  /\ writer' = None /\ readers' = {}
  /\ UNCHANGED <<setup, marker, epoch, acked>>

Step(h) ==
  \/ Lock(h) \/ DecideWrite(h) \/ Stage(h) \/ Install(h) \/ Sync(h)
  \/ \E s \in Subjects : AcquireSubject(h, s)
  \/ Acquired(h)

Next ==
  \/ \E h \in Handles :
       \/ \E w \in setup.writes : Begin(h, w)
       \/ Step(h)
       \/ Acquire(h)
       \/ \E g \in Handles : Clone(h, g)
       \/ Crash(h)
  \/ PowerCut

Spec == Init /\ [][Next]_vars

-----------------------------------------------------------------------------
(* The directory as a store of the contract. *)

Documents(stored) ==
  IF stored = None THEN {}
  ELSE ToSet(stored.observations)
       \cup {[instance |-> e.result, envelope |-> e] : e \in ToSet(stored.records)}

NamedBy(document) ==
  IF "note" \in DOMAIN document THEN document.record_id ELSE document.envelope.record_id

AsStore(docs) ==
  [instances    |-> [s \in Subjects |->
                       IF docs[s] = None THEN None ELSE docs[s].instance],
   events       |-> [s \in Subjects |->
                       IF docs[s] = None THEN << >> ELSE docs[s].events],
   records      |-> [s \in Subjects |->
                       IF docs[s] = None THEN << >> ELSE docs[s].records],
   observations |-> [s \in Subjects |->
                       IF docs[s] = None THEN << >> ELSE docs[s].observations],
   record_ids   |->
     LET all == UNION {Documents(docs[s]) : s \in Subjects} IN
     [r \in RecordIds |->
        IF \E d \in all : NamedBy(d) = r THEN CHOOSE d \in all : NamedBy(d) = r
        ELSE None]]

Visible == AsStore(subjects)

Contract == INSTANCE AtomicStore WITH
  store <- Visible,
  settled <- AsStore(durable),
  Writes <- UNION {one.writes : one \in Setups},
  InitialStores <- {IF old = None THEN EmptyStore ELSE AsStore(old) : old \in Legacy}

(* Handles of several processes, crashing, failing and cloned, together    *)
(* behave as one provider that performs writes one at a time: a document   *)
(* is installed whole, with the effect the contract gives that write on    *)
(* what the directory held at that moment, and a power cut takes back only *)
(* what was not synced yet.                                                *)
ImplementsContract == Contract!Spec

(* What a handle answers is what the contract answers at that moment: a    *)
(* write refused or recognised as a retry under the lock, and a write that *)
(* is installed, although the lookup trusted an index cached earlier.      *)
AnswersFollowContract ==
  [][\A h \in Handles :
       LET due == Perform(Visible, calls[h].write) IN
       /\ calls[h].pc = "decide" /\ calls'[h].pc = "idle" /\ calls'[h].answer # "none"
            => calls'[h].answer = due.outcome
       /\ calls[h].pc = "install" /\ calls'[h].pc = "sync"
            => due.outcome = "ok" /\ Visible' = due.store]_vars

(* A record id is given to one entry of one subject. *)
IdsGlobal(docs) ==
  \A s, t \in Subjects : docs[s] # None /\ docs[t] # None =>
    /\ \A i \in DOMAIN docs[s].records, j \in DOMAIN docs[t].records :
         docs[s].records[i].record_id = docs[t].records[j].record_id => s = t /\ i = j
    /\ \A i \in DOMAIN docs[s].observations, j \in DOMAIN docs[t].observations :
         docs[s].observations[i].record_id = docs[t].observations[j].record_id
           => s = t /\ i = j
    /\ \A i \in DOMAIN docs[s].records, j \in DOMAIN docs[t].observations :
         docs[s].records[i].record_id # docs[t].observations[j].record_id

(* A record id is given to one entry of one subject in the whole store,    *)
(* whichever handles wrote (R-88).                                         *)
RecordIdsGlobal == IdsGlobal(subjects)

(* A subject document holds a write, or what came after it. *)
Kept(stored, w) ==
  /\ stored # None
  /\ w.kind = "commit" => w.document.instance.revision <= stored.instance.revision
  /\ w.kind = "commit_recorded" => w.document.envelope \in ToSet(stored.records)
  /\ w.kind = "observe" => w.document \in ToSet(stored.observations)

(* A write answered with success stays in the store, through process       *)
(* crashes and power cuts.                                                 *)
AcknowledgedSurvives == \A w \in acked : Kept(subjects[SubjectOf(w)], w)

(* An acquisition reads its subjects one by one, yet what it has taken and *)
(* what it will take belong to one moment of the store.                    *)
AcquisitionIsSnapshot ==
  \A h \in Handles : calls[h].pc = "acquire" =>
    \A s \in Subjects :
      IF s \in calls[h].todo THEN calls[h].taken[s] = None
      ELSE calls[h].taken[s] = subjects[s]
-----------------------------------------------------------------------------
(* The inductive invariant. *)

(* Where a handle holds the lock exclusively. *)
Writing == {"decide", "stage", "install", "sync"}

(* A handle holds the lock exactly where its call says, and nobody shares  *)
(* it with a writer.                                                       *)
LockHolds ==
  /\ writer # None => readers = {}
  /\ \A h \in Handles :
       /\ (calls[h].pc \in Writing) <=> (writer = h)
       /\ (calls[h].pc = "acquire") <=> (h \in readers)

(* A write under way is a valid one of the callers'. *)
CallHolds ==
  \A h \in Handles :
    IF calls[h].pc \in {"idle", "acquire"} THEN calls[h].write = None
    ELSE calls[h].write \in setup.writes /\ Valid(calls[h].write)

(* No handle is ahead of the lock file, and the one that writes is alone   *)
(* with its epoch.                                                         *)
EpochHolds ==
  \A h \in Handles :
    /\ handles[h].epoch # None => handles[h].epoch <= epoch
    /\ writer = h =>
         /\ handles[h].epoch = epoch
         /\ \A g \in Handles \ {h} : handles[g].epoch # epoch

(* The marker comes before the first document. *)
MarkerHolds ==
  /\ ~marker => \A s \in Subjects : subjects[s] = None
  /\ \A h \in Handles : calls[h].pc \in {"install", "sync"} => marker

(* A document holds entries of its own subject only. *)
PlacedIn(stored, s) ==
  stored # None =>
    /\ stored.instance.subject = s
    /\ \A i \in DOMAIN stored.records :
         /\ stored.records[i].record_id \in RecordIds
         /\ stored.records[i].result.subject = s
    /\ \A i \in DOMAIN stored.observations :
         /\ stored.observations[i].record_id \in RecordIds
         /\ stored.observations[i].subject = s

DocumentsPlaced ==
  \A s \in Subjects : PlacedIn(subjects[s], s) /\ PlacedIn(durable[s], s)

(* One document continues another. *)
Continues(old, new) ==
  old # None =>
    /\ new # None
    /\ old.instance.revision <= new.instance.revision
    /\ Keeps(old.records, new.records)
    /\ Keeps(old.observations, new.observations)

(* What is not durable yet was added to what is. *)
DurableHolds == \A s \in Subjects : Continues(durable[s], subjects[s])

(* The document a write makes of the one held. *)
Written(stored, w) ==
  LET base == IF stored = None THEN Fresh(w.document.instance) ELSE stored IN
  CASE w.kind = "commit" ->
         [base EXCEPT !.instance = w.document.instance,
                      !.events = @ \o w.document.events]
    [] w.kind = "commit_recorded" ->
         [base EXCEPT !.instance = w.document.instance,
                      !.records = Append(@, w.document.envelope)]
    [] w.kind = "observe" -> [base EXCEPT !.observations = Append(@, w.document)]

Expects(w) == IF w.kind = "observe" THEN w.document.revision ELSE w.expect

(* The document to install was made, under the lock, of the one it         *)
(* replaces.                                                               *)
StagedHolds ==
  \A h \in Handles : calls[h].pc \in {"stage", "install"} =>
    LET w == calls[h].write
        s == SubjectOf(w)
    IN /\ calls[h].stored = Written(subjects[s], w)
       /\ check(Expects(w), held_revision(subjects[s]))

BaseInvariant ==
  /\ TypeOK /\ LockHolds /\ CallHolds /\ EpochHolds /\ MarkerHolds
  /\ DocumentsPlaced /\ DurableHolds /\ StagedHolds

(* Every directory is synced after a rename. *)
Synced == "directory" \notin setup.faults

(* The record id of a recorded write. *)
IdOf(w) ==
  IF w.kind = "observe" THEN w.document.record_id ELSE w.document.envelope.record_id

(* What a handle knows, its write under way included. *)
Knows(h) ==
  IF calls[h].pc = "sync" THEN Learned(handles[h], calls[h].write) ELSE handles[h]

(* An index a handle would trust is a scan of the documents. *)
IndexHolds ==
  \A h \in Handles :
    Knows(h).index # None /\ Knows(h).epoch = epoch => ScanMay(subjects, Knows(h).index)

(* The id of the entry to install is in no document. *)
FreshHolds ==
  \A h \in Handles :
    calls[h].pc \in {"stage", "install"} /\ calls[h].write.kind # "commit" =>
      Holding(subjects, IdOf(calls[h].write)) = {}

IdInvariant ==
  BaseInvariant /\ (Synced => RecordIdsGlobal /\ IndexHolds /\ FreshHolds)

(* What a power cut may take back is known to the process that syncs it.   *)
Recoverable ==
  setup.power_cuts => AncestorsDurable /\ Synced /\ ~setup.process_crashes

SettledHolds ==
  setup.power_cuts =>
    \A s \in Subjects : subjects[s] # durable[s] =>
      \E h \in Handles : calls[h].pc = "sync" /\ SubjectOf(calls[h].write) = s

(* Acknowledged writes are in the documents, and in the durable ones where *)
(* power may be lost; a write that syncs is in the documents.              *)
KeptHolds ==
  /\ \A w \in acked :
       /\ Kept(subjects[SubjectOf(w)], w)
       /\ setup.power_cuts => Kept(durable[SubjectOf(w)], w)
  /\ \A h \in Handles : calls[h].pc = "sync" =>
       Kept(subjects[SubjectOf(calls[h].write)], calls[h].write)

KeptInvariant ==
  BaseInvariant /\ (Recoverable => SettledHolds /\ KeptHolds)

=============================================================================
