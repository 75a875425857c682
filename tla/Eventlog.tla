------------------------------ MODULE Eventlog ------------------------------
(***************************************************************************)
(* What the recorded adapter keeps in an event log: reference events, the  *)
(* content-addressed blobs they name (crates/entity-eventlog/src/          *)
(* encoding.rs) and the index rows its inline projector writes in the      *)
(* append's own transaction (projection.rs).  The log itself is external:  *)
(* streams with expected versions, guarded groups, recorded commands.      *)
(***************************************************************************)
EXTENDS RecordedStore

CONSTANTS
  Authorities,    \* logical scopes that may claim the tenant
  RefusedRequests \* refusals an executor may record

-----------------------------------------------------------------------------
(* Blobs.  A digest frames its domain into the hash of the bytes, so a     *)
(* blob's identity is its domain with what the bytes encode.               *)

BindingBlob(authority) == <<"binding", authority>>

RecordBlob(entry) == <<"record", entry>>

RequestBlob(entry) == <<"request", RequestOf(entry)>>

BatchBlob(key, members) == <<"batch", key, members>>

EntryBlob(authority, key, members, i) == <<"entry", authority, key, members, i>>

(* import-anchor/1, or /2 with the source it was acquired from. *)
AnchorBlob(authority, import) == <<"anchor", authority, import>>

RefusalBlob(authority, refusal) == <<"refusal", authority, refusal>>

-----------------------------------------------------------------------------
(* Reference events.  A body names its blob; the others are named there.   *)

BindingBody(authority) == [name |-> "er.binding", authority |-> authority]

EntryBody(authority, key, members, i) ==
  [name |-> "er.recorded_entry", authority |-> authority, key |-> key,
   members |-> members, member_index |-> i - 1]

AnchorBody(authority, import) ==
  [name |-> "er.import_anchor", authority |-> authority, import |-> import]

RefusalBody(authority, refusal) ==
  [name |-> "er.refused_request", authority |-> authority, refusal |-> refusal]

MemberOf(body) == body.members[body.member_index + 1]

(* The blobs an event binds: its reference and what the reference names. *)
BlobsOf(body) ==
  CASE body.name = "er.binding" -> {BindingBlob(body.authority)}
    [] body.name = "er.recorded_entry" ->
         {EntryBlob(body.authority, body.key, body.members, body.member_index + 1),
          RecordBlob(MemberOf(body).entry), RequestBlob(MemberOf(body).entry),
          BatchBlob(body.key, body.members)}
    [] body.name = "er.import_anchor" ->
         {AnchorBlob(body.authority, body.import)}
           \cup {RecordBlob(e) : e \in ToSet(body.import.evidence)}
    [] body.name = "er.refused_request" -> {RefusalBlob(body.authority, body.refusal)}

(* subject_stream_id, and the streams of the other events: a refusal has   *)
(* one of its own, named by its digest.                                    *)
StreamOf(body) ==
  CASE body.name = "er.binding" -> <<"er.binding">>
    [] body.name = "er.recorded_entry" -> <<"er.subject", body.authority, EntrySubject(MemberOf(body).entry)>>
    [] body.name = "er.import_anchor" -> <<"er.subject", body.authority, body.import.anchor.subject>>
    [] body.name = "er.refused_request" -> <<"er.refusal", RefusalBlob(body.authority, body.refusal)>>

(* An event as the log keeps it: identity minted by the provider, the      *)
(* command it was written under, and the request that issued it.           *)
NewEvent(id, command, hash, request_id, body) ==
  [id |-> id, command |-> command, hash |-> hash, request_id |-> request_id, body |-> body]

OfStream(events, stream) == {i \in DOMAIN events : StreamOf(events[i].body) = stream}

(* stream_version *)
VersionAt(events, i) ==
  Cardinality({j \in OfStream(events, StreamOf(events[i].body)) : j <= i})

(* PhysicalRef: the event's identity and global position. *)
Physical(events, i) == [id |-> events[i].id, at |-> i]

-----------------------------------------------------------------------------
(* The inline projector: four indexes, each row naming what wrote it. *)

EmptyRows ==
  [binding  |-> None,
   records  |-> [r \in RecordIds |-> None],
   batches  |-> [k \in Key |-> None],
   subjects |-> [s \in Subjects |-> None]]

RowCount(rows) ==
  Cardinality({r \in RecordIds : rows.records[r] # None})
    + Cardinality({k \in Key : rows.batches[k] # None})
    + Cardinality({s \in Subjects : rows.subjects[s] # None})
    + (IF rows.binding = None THEN 0 ELSE 1)

BindingRow(body, at) == [authority |-> body.authority, at |-> at]

CommittedRow(body, at) ==
  LET entry == MemberOf(body).entry IN
  [kind |-> "committed", subject |-> EntrySubject(entry), revision |-> EntryRevision(entry),
   batch |-> BatchBlob(body.key, body.members), member_index |-> body.member_index,
   blob |-> RecordBlob(entry), at |-> at]

ImportedRow(body, i, at) ==
  LET entry == body.import.evidence[i] IN
  [kind |-> "imported", subject |-> EntrySubject(entry), revision |-> EntryRevision(entry),
   anchor |-> AnchorBlob(body.authority, body.import), evidence_index |-> i - 1,
   blob |-> RecordBlob(entry), at |-> at]

(* origin is None at genesis. *)
SubjectRow(origin, revision, source, head) ==
  [origin |-> origin, revision |-> revision, state_source |-> source, physical_head |-> head]

(* The batch row repeats its members' record rows. *)
BatchRow(records, members) ==
  [i \in DOMAIN members |-> records[EntryId(members[i].entry)]]

(* upsert_once: the same row again, or none yet. *)
UpsertsOnce(held, row) == held \in {None, row}

fold_subject_source_ByEveryEntry(prior, entry, at) ==
  IF prior = None THEN SubjectRow(None, 1, RecordBlob(entry), at)
  ELSE SubjectRow(prior.origin, EntryRevision(entry), RecordBlob(entry), at)

(* fold_subject_source: the row follows decisions; an observation moves    *)
(* only the physical head.                                                 *)
fold_subject_source(prior, entry, at) ==
  IF prior = None THEN SubjectRow(None, 1, RecordBlob(entry), at)
  ELSE IF IsDecision(entry)
  THEN SubjectRow(prior.origin, EntryRevision(entry), RecordBlob(entry), at)
  ELSE SubjectRow(prior.origin, prior.revision, prior.state_source, at)

Invalid == [ok |-> FALSE]

apply_binding(rows, body, version, at) ==
  IF version = 1 /\ UpsertsOnce(rows.binding, BindingRow(body, at))
  THEN [ok |-> TRUE, rows |-> [rows EXCEPT !.binding = BindingRow(body, at)]]
  ELSE Invalid

(* Members are rows before their batch is: the last one writes the batch,  *)
(* from the rows of all.                                                   *)
apply_recorded_entry(rows, body, at) ==
  LET entry   == MemberOf(body).entry
      s       == EntrySubject(entry)
      row     == CommittedRow(body, at)
      records == [rows.records EXCEPT ![EntryId(entry)] = row]
      last    == body.member_index + 1 = Len(body.members)
      batch   == BatchRow(records, body.members)
  IN IF /\ body.key.kind = "single" => Len(body.members) = 1 /\ body.key.id = EntryId(entry)
        /\ EntryRevision(entry) \in Revisions
        /\ UpsertsOnce(rows.records[EntryId(entry)], row)
        /\ rows.subjects[s] = None => IsDecision(entry) /\ EntryRevision(entry) = 1
        /\ last => /\ \A i \in DOMAIN batch :
                        /\ batch[i] # None
                        /\ batch[i].kind = "committed"
                        /\ batch[i].member_index = i - 1
                        /\ batch[i].batch = row.batch
                   /\ UpsertsOnce(rows.batches[body.key], batch)
     THEN [ok   |-> TRUE,
           rows |-> [rows EXCEPT
                      !.records = records,
                      !.subjects[s] = fold_subject_source(@, entry, at),
                      !.batches[body.key] = IF last THEN batch ELSE @]]
     ELSE Invalid

apply_import_anchor(rows, body, at) ==
  LET s        == body.import.anchor.subject
      evidence == body.import.evidence
      anchor   == AnchorBlob(body.authority, body.import)
      Named(r) == {i \in DOMAIN evidence : EntryId(evidence[i]) = r}
      row      == SubjectRow([anchor |-> anchor, at |-> at],
                             body.import.anchor.revision, anchor, at)
  IN IF /\ \A i \in DOMAIN evidence :
             /\ EntrySubject(evidence[i]) = s
             /\ UpsertsOnce(rows.records[EntryId(evidence[i])], ImportedRow(body, i, at))
        /\ UpsertsOnce(rows.subjects[s], row)
     THEN [ok   |-> TRUE,
           rows |-> [rows EXCEPT
                      !.records = [r \in RecordIds |->
                        IF Named(r) = {} THEN @[r]
                        ELSE ImportedRow(body, CHOOSE i \in Named(r) : TRUE, at)],
                      !.subjects[s] = row]]
     ELSE Invalid

(* Projector::apply of the event at one position, its blobs being bound.   *)
(* A refusal projects no row.                                              *)
apply(rows, blobs, events, at) ==
  LET body == events[at].body IN
  IF ~(BlobsOf(body) \subseteq blobs) THEN Invalid
  ELSE CASE body.name = "er.binding" ->
              apply_binding(rows, body, VersionAt(events, at), at)
         [] body.name = "er.recorded_entry" -> apply_recorded_entry(rows, body, at)
         [] body.name = "er.import_anchor" -> apply_import_anchor(rows, body, at)
         [] body.name = "er.refused_request" -> [ok |-> TRUE, rows |-> rows]

(* Every event from one position on, in order; the first refusal refuses. *)
Projected(rows, blobs, events, from) ==
  LET Step(acc, at) == IF acc.ok THEN apply(acc.rows, blobs, events, at) ELSE acc
  IN FoldLeft(Step, [ok |-> TRUE, rows |-> rows],
              [i \in 1 .. Len(events) - from |-> from + i])

-----------------------------------------------------------------------------
(* The log's own operations, as the adapter relies on them. *)

EmptyLog == [events |-> << >>, blobs |-> {}, rows |-> EmptyRows]

(* A group: what it appends, each with the version its stream must have. *)
Group(command, hash, appends) == [command |-> command, hash |-> hash, appends |-> appends]

Append1(body, expected) == [body |-> body, expected |-> expected]

put_blobs(log, blobs) == [log EXCEPT !.blobs = @ \cup blobs]

RecordedUnder(log, command) ==
  {i \in DOMAIN log.events : log.events[i].command = command}

(* Every append meets its stream at the version it names, the earlier      *)
(* appends of the group counted.                                           *)
VersionsAgree(log, appends) ==
  \A i \in DOMAIN appends :
    appends[i].expected =
      Cardinality(OfStream(log.events, StreamOf(appends[i].body)))
        + Cardinality({j \in 1 .. i - 1 : StreamOf(appends[j].body) = StreamOf(appends[i].body)})

Settled(log, answer, at) == [log |-> log, answer |-> answer, at |-> at]

(* A recorded command answers with its first result, or as a mismatch. *)
Answered(log, group) ==
  LET mine == RecordedUnder(log, group.command) IN
  IF \E i \in mine : log.events[i].hash # group.hash
  THEN Settled(log, "idempotency_mismatch", << >>)
  ELSE Settled(log, "deduplicated",
               LET n == Min(mine) IN [i \in 1 .. Cardinality(mine) |-> n + i - 1])

Publishes(log, group, blobs, request_id, id) ==
  LET n      == Len(log.events)
      events == log.events \o
                  [i \in DOMAIN group.appends |->
                     NewEvent(id + i, group.command, group.hash, request_id,
                              group.appends[i].body)]
      bound  == log.blobs \cup blobs
      rows   == Projected(log.rows, bound, events, n)
  IN IF ~VersionsAgree(log, group.appends) THEN Settled(log, "conflict", << >>)
     ELSE IF ~rows.ok THEN Settled(log, "integrity", << >>)
     ELSE Settled([events |-> events, blobs |-> bound, rows |-> rows.rows], "ok",
                  [i \in DOMAIN group.appends |-> n + i])

(* append_group_guarded: a recorded command is answered unguarded. *)
append_group_guarded(log, group, guard, request_id, id) ==
  IF RecordedUnder(log, group.command) # {} THEN Answered(log, group)
  ELSE IF guard # "ok" THEN Settled(log, guard, << >>)
  ELSE Publishes(log, group, {}, request_id, id)

(* append_group_guarded_with_blobs: admission comes before the recorded    *)
(* command answers, and the blobs are bound with the group or not at all.  *)
append_group_guarded_with_blobs(log, group, guard, blobs, request_id, id) ==
  IF guard # "ok" THEN Settled(log, guard, << >>)
  ELSE IF RecordedUnder(log, group.command) # {} THEN Answered(log, group)
  ELSE Publishes(log, group, blobs, request_id, id)

=============================================================================
