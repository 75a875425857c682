---------------------------- MODULE EventlogModel ----------------------------
(***************************************************************************)
(* The verified model a handle of the recorded adapter builds from one     *)
(* capture of its tenant (crates/entity-eventlog/src/adapter.rs, with      *)
(* adapter/memory.rs and adapter/shared.rs): whole, or by advancing the    *)
(* model of an earlier capture.  Streams have one branch: no subject is    *)
(* forked.                                                                 *)
(***************************************************************************)
EXTENDS Eventlog

(* TenantCapture: the log at one instant. *)

(* CaptureHeld: what the tenant holds, as a handle counts it. *)
NothingHeld == [events |-> 0, blobs |-> 0, rows |-> 0, digests |-> {}]

capture_held(capture) ==
  [events |-> Len(capture.events), blobs |-> Cardinality(capture.blobs),
   rows |-> RowCount(capture.rows), digests |-> capture.blobs]

(* CapturedModel.  binding and the anchors are positions, 0 for none; the  *)
(* digests an index row repeats are those of the events it names.          *)
EmptyModel ==
  [ok        |-> TRUE,
   held      |-> NothingHeld,
   binding   |-> 0,
   histories |-> EmptyState.histories,
   terminals |-> EmptyState.instances,
   records   |-> EmptyState.records,
   batches   |-> EmptyState.batches,
   physical  |-> [r \in RecordIds |-> 0],
   anchors   |-> [s \in Subjects |-> 0],
   refusals  |-> << >>]

Corrupt == [ok |-> FALSE]

-----------------------------------------------------------------------------
(* Admitting one event. *)

(* The only member of a set of one. *)
Only(places) == CHOOSE i \in places : TRUE

Under(events, places, name) == {i \in places : events[i].body.name = name}

Anchoring(events, places) == Under(events, places, "er.import_anchor")

ImportAt(events, i) == events[i].body.import

(* The ids an import's evidence goes by. *)
IdsOf(import) == {r \in RecordIds : \E e \in ToSet(import.evidence) : EntryId(e) = r}

(* build_import: the subject has no other origin, its evidence no id the   *)
(* model knows by then.                                                    *)
build_import(model, events, places, i) ==
  LET import == ImportAt(events, i)
      before == {ImportAt(events, j) : j \in {x \in Anchoring(events, places) : x < i}}
  IN /\ ~HasHistory(model.histories[import.anchor.subject])
     /\ \A other \in before :
          /\ other.anchor.subject # import.anchor.subject
          /\ IdsOf(other) \cap IdsOf(import) = {}
     /\ \A r \in IdsOf(import) :
          /\ model.records[r] = None
          /\ \A m, n \in DOMAIN import.evidence :
               EntryId(import.evidence[m]) = r /\ EntryId(import.evidence[n]) = r => m = n

(* admit_event: the blobs are bound and verify, the authority is the one   *)
(* this handle answers for, and a binding is the first and only one.       *)
Admissible(authority, capture, model, places, i) ==
  LET body == capture.events[i].body IN
  /\ BlobsOf(body) \subseteq capture.blobs
  /\ body.authority = authority
  /\ body.name = "er.binding" =>
       /\ model.binding = 0
       /\ \A j \in Under(capture.events, places, "er.binding") : i <= j
       /\ VersionAt(capture.events, i) = 1
  /\ body.name = "er.refused_request" => VersionAt(capture.events, i) = 1
  /\ body.name = "er.import_anchor" => build_import(model, capture.events, places, i)

(* The events at some places of the log, in its order: what the model held *)
(* and what they add.  A recorded entry waits for its batch.               *)
Admitted(authority, capture, model, places) ==
  LET events     == capture.events
      bindings   == Under(events, places, "er.binding")
      refused    == InOrder(Under(events, places, "er.refused_request"))
      Origins(s) == {i \in Anchoring(events, places) : ImportAt(events, i).anchor.subject = s}
      Naming(r)  == {i \in Anchoring(events, places) : r \in IdsOf(ImportAt(events, i))}
      Origin(s)  == ImportAt(events, Only(Origins(s)))
      Saved(r)   == CHOOSE e \in ToSet(ImportAt(events, Only(Naming(r))).evidence) : EntryId(e) = r
  IN IF ~model.ok \/ \E i \in places : ~Admissible(authority, capture, model, places, i)
     THEN Corrupt
     ELSE [model EXCEPT
            !.binding   = IF bindings = {} THEN @ ELSE Only(bindings),
            !.histories = [s \in Subjects |->
              IF Origins(s) = {} THEN @[s]
              ELSE [origin |-> Origin(s).anchor, evidence |-> Origin(s).evidence,
                    records |-> << >>]],
            !.terminals = [s \in Subjects |-> IF Origins(s) = {} THEN @[s] ELSE Origin(s).anchor],
            !.anchors   = [s \in Subjects |-> IF Origins(s) = {} THEN @[s] ELSE Only(Origins(s))],
            !.records   = [r \in RecordIds |->
              IF Naming(r) = {} THEN @[r] ELSE [kind |-> "imported", entry |-> Saved(r)]],
            !.physical  = [r \in RecordIds |-> IF Naming(r) = {} THEN @[r] ELSE Only(Naming(r))],
            !.refusals  = @ \o [n \in DOMAIN refused |-> events[refused[n]].body.refusal]]

-----------------------------------------------------------------------------
(* Committed groups. *)

(* PendingRecord: the recorded entries among some places. *)
Pending(events, places) == Under(events, places, "er.recorded_entry")

(* One stored record: its position is the event's. *)
StoredFrom(events, i) ==
  LET body  == events[i].body
      entry == MemberOf(body).entry
  IN [entry   |-> entry,
      expect  |-> MemberOf(body).expect,
      receipt |-> [record_id    |-> EntryId(entry),
                   subject      |-> EntrySubject(entry),
                   revision     |-> EntryRevision(entry),
                   position     |-> [subject |-> VersionAt(events, i), store |-> i],
                   batch_key    |-> body.key,
                   member_index |-> body.member_index]]

(* The group of one key, in the order of the log.  The code sorts it by    *)
(* member index and has the places ascend.                                 *)
GroupOf(events, pending, key) == InOrder({i \in pending : events[i].body.key = key})

(* The references reproduce the batch they name, each member once and at   *)
(* its index.                                                              *)
GroupComplete(events, group) ==
  LET members == events[group[1]].body.members IN
  /\ Len(group) = Len(members)
  /\ \A i \in DOMAIN group :
       /\ events[group[i]].body.member_index = i - 1
       /\ MemberOf(events[group[i]].body).entry = members[i].entry

StoredIn(events, pending, s) ==
  LET places == InOrder({i \in pending : EntrySubject(MemberOf(events[i].body).entry) = s})
  IN [n \in DOMAIN places |-> StoredFrom(events, places[n])]

insert_committed(model, events, pending) ==
  LET keys     == {events[i].body.key : i \in pending}
      Naming(r) == {i \in pending : EntryId(MemberOf(events[i].body).entry) = r}
  IN IF \/ ~model.ok
        \/ \E k \in keys : \/ ~GroupComplete(events, GroupOf(events, pending, k))
                           \/ model.batches[k] # << >>
        \/ \E r \in RecordIds : \/ Cardinality(Naming(r)) > 1
                                \/ Naming(r) # {} /\ model.records[r] # None
     THEN Corrupt
     ELSE [model EXCEPT
            !.histories = [s \in Subjects |->
              [@[s] EXCEPT !.records = @ \o StoredIn(events, pending, s)]],
            !.records = [r \in RecordIds |->
              IF Naming(r) = {} THEN @[r]
              ELSE [kind |-> "committed",
                    record |-> StoredFrom(events, CHOOSE i \in Naming(r) : TRUE)]],
            !.physical = [r \in RecordIds |->
              IF Naming(r) = {} THEN @[r] ELSE CHOOSE i \in Naming(r) : TRUE],
            !.batches = [k \in Key |->
              IF k \notin keys THEN @[k]
              ELSE LET group == GroupOf(events, pending, k)
                   IN [n \in DOMAIN group |-> StoredFrom(events, group[n])]]]

(* settle_history with a prefix verified before: only the records after it *)
(* are verified, from the state it reached.                                *)
SettlesFrom(s, history, n) ==
  /\ n = 0 /\ history.origin # None => BoundaryValid(history.origin, history.evidence)
  /\ \A i \in n + 1 .. Len(history.records) :
       /\ CoordinatesValid(s, history.records, i)
       /\ validate_entry(history.records[i], StateAt(history, i - 1)) = "ok"
       /\ \A j \in 1 .. i - 1 :
            EntryId(history.records[i].entry) # EntryId(history.records[j].entry)
  /\ StateAt(history, Len(history.records)) # None

(* The subjects settle, each from the prefix it was verified to. *)
Settles(model, subjects, prefix) ==
  IF ~model.ok THEN Corrupt
  ELSE IF \E s \in subjects : ~SettlesFrom(s, model.histories[s], prefix[s]) THEN Corrupt
  ELSE [model EXCEPT !.terminals = [s \in Subjects |->
          IF s \in subjects
          THEN StateAt(model.histories[s], Len(model.histories[s].records)) ELSE @[s]]]

-----------------------------------------------------------------------------
(* The rows a model says the projector wrote. *)

ExpectedRecordRow(model, events, r) ==
  LET lookup == model.records[r]
      at     == model.physical[r]
  IN IF lookup = None THEN None
     ELSE IF lookup.kind = "committed"
     THEN [kind |-> "committed", subject |-> lookup.record.receipt.subject,
           revision |-> lookup.record.receipt.revision,
           batch |-> LET key == lookup.record.receipt.batch_key IN
                     BatchBlob(key, [i \in DOMAIN model.batches[key] |->
                                       [expect |-> model.batches[key][i].expect,
                                        entry |-> model.batches[key][i].entry]]),
           member_index |-> lookup.record.receipt.member_index,
           blob |-> RecordBlob(lookup.record.entry), at |-> at]
     ELSE LET s == EntrySubject(lookup.entry)
              evidence == model.histories[s].evidence
              body == events[model.anchors[s]].body
          IN [kind |-> "imported", subject |-> s, revision |-> EntryRevision(lookup.entry),
              anchor |-> AnchorBlob(body.authority, body.import),
              evidence_index |-> (CHOOSE i \in DOMAIN evidence : EntryId(evidence[i]) = r) - 1,
              blob |-> RecordBlob(lookup.entry), at |-> at]

ExpectedBatchRow(model, events, k) ==
  IF model.batches[k] = << >> THEN None
  ELSE [i \in DOMAIN model.batches[k] |->
          ExpectedRecordRow(model, events, model.batches[k][i].receipt.record_id)]

ExpectedSubjectRow(model, events, s) ==
  LET history   == model.histories[s]
      decisions == {i \in DOMAIN history.records : IsDecision(history.records[i].entry)}
      at        == model.anchors[s]
      anchor    == AnchorBlob(events[at].body.authority, events[at].body.import)
  IN IF ~HasHistory(history) THEN None
     ELSE SubjectRow(
            IF at = 0 THEN None ELSE [anchor |-> anchor, at |-> at],
            model.terminals[s].revision,
            IF decisions # {} THEN RecordBlob(history.records[Max(decisions)].entry)
                              ELSE anchor,
            IF history.records # << >> THEN Last(history.records).receipt.position.store
                                       ELSE at)

expected_projection_rows(authority, model, events) ==
  [binding  |-> IF model.binding = 0 THEN None
                ELSE [authority |-> authority, at |-> model.binding],
   records  |-> [r \in RecordIds |-> ExpectedRecordRow(model, events, r)],
   batches  |-> [k \in Key |-> ExpectedBatchRow(model, events, k)],
   subjects |-> [s \in Subjects |-> ExpectedSubjectRow(model, events, s)]]

(* validate_projection_sets *)
Validated(authority, capture, model) ==
  IF model.ok /\ expected_projection_rows(authority, model, capture.events) = capture.rows
  THEN model ELSE Corrupt

-----------------------------------------------------------------------------
(* Building and advancing. *)

(* build_model_events: the events at some places admitted, every group     *)
(* they name complete, every history they make verified.  Events without a *)
(* binding are nobody's.                                                   *)
build_model_events(authority, capture, places) ==
  LET held     == [EmptyModel EXCEPT !.held = capture_held(capture)]
      admitted == Admitted(authority, capture, held, places)
      inserted == insert_committed(admitted, capture.events, Pending(capture.events, places))
      listed   == {s \in Subjects : HasHistory(inserted.histories[s])}
      whole    == [s \in Subjects |-> 0]
  IN IF \/ ~admitted.ok
        \/ admitted.binding = 0 /\ places # {}
        \/ ~inserted.ok
     THEN Corrupt
     ELSE Settles(inserted, listed, whole)

(* build_model: every event of a capture, and its rows held against them. *)
build_model(authority, capture) ==
  Validated(authority, capture,
            build_model_events(authority, capture, DOMAIN capture.events))

Recounted_Never(model, capture) == model

Recounted(model, capture) == [model EXCEPT !.held = capture_held(capture)]

(* advance_model: the events after `from` admitted on top of a model of    *)
(* those before; the subjects they touch settle from what was verified.    *)
advance_model(authority, capture, model, from) ==
  LET held     == Recounted(model, capture)
      places   == from + 1 .. Len(capture.events)
      admitted == Admitted(authority, capture, held, places)
      pending  == Pending(capture.events, places)
      inserted == insert_committed(admitted, capture.events, pending)
      imported == {s \in Subjects : admitted.anchors[s] > from}
      touched  == imported \cup {EntrySubject(MemberOf(capture.events[i].body).entry) : i \in pending}
      prefix   == [s \in Subjects |->
                     IF s \in imported THEN 0 ELSE Len(model.histories[s].records)]
  IN IF \/ ~admitted.ok
        \/ admitted.binding = 0 /\ capture.events # << >>
        \/ ~inserted.ok
     THEN Corrupt
     ELSE Validated(authority, capture, Settles(inserted, touched, prefix))

=============================================================================
