---------------------------- MODULE RecordedStore ----------------------------
(***************************************************************************)
(* The asynchronous recorded store (crates/entity-store/src/asynchronous): *)
(* what its reference implementation keeps, its atomic append, and the     *)
(* verifier of complete histories.  Comparison bytes stand for what they   *)
(* encode: record bytes for the entry, request bytes for what RequestOf    *)
(* says of it, batch bytes for the key with expectations and entries.      *)
(***************************************************************************)
EXTENDS StoreContract

CONSTANTS
  BatchNames,  \* names of named batches
  MaxPosition  \* u64::MAX in the code: the last physical position

(* BatchKey: the two namespaces are disjoint. *)
Key == [kind : {"single"}, id : RecordIds] \cup [kind : {"named"}, id : BatchNames]

Expect == Nat \cup {Absent}

(* RecordedEntry *)
IsDecision(entry) == entry \in RecordedCommit

EntryId(entry) == IF IsDecision(entry) THEN entry.envelope.record_id ELSE entry.record_id

EntrySubject(entry) == IF IsDecision(entry) THEN entry.instance.subject ELSE entry.subject

EntryRevision(entry) == IF IsDecision(entry) THEN entry.instance.revision ELSE entry.revision

(* original_request_comparison_bytes: what an entry was asked for. *)
RequestOf(entry) ==
  IF IsDecision(entry)
  THEN LET creation == entry.envelope.command \in Creations IN
       [kind      |-> IF creation THEN "create" ELSE "execute",
        subject   |-> EntrySubject(entry),
        record_id |-> EntryId(entry),
        expected  |-> IF creation THEN Absent ELSE EntryRevision(entry) - 1,
        content   |-> entry.envelope.command]
  ELSE [kind |-> "observe", subject |-> entry.subject, record_id |-> entry.record_id,
        expected |-> entry.revision, content |-> entry.note]

Position == [subject : Nat, store : Nat]

RecordReceipt ==
  [record_id : RecordIds, subject : Subjects, revision : Nat,
   position : Position, batch_key : Key, member_index : Nat]

AppendMember == [expect : Expect, entry : Document]

StoredRecord == [entry : Document, expect : Expect, receipt : RecordReceipt]

(* CommitReceipt::Single or CommitReceipt::Batch. *)
CommitReceipt == [kind : {"single", "batch"}, members : Seq(RecordReceipt)]

RecordLookup ==
  [kind : {"committed"}, record : StoredRecord] \cup [kind : {"imported"}, entry : Document]

(* The origin is None at genesis, the anchor's instance after an import. *)
SubjectHistory ==
  [origin : Instance \cup {None}, evidence : Seq(Document), records : Seq(StoredRecord)]

ASSUME RecordedAssumption ==
  /\ MaxPosition \in Nat
  /\ None \notin RecordLookup \cup CommitReceipt

(* A batch is its stored records: key, comparison bytes and receipt are    *)
(* those of its members.  No store position is left when the next one is   *)
(* past the last.                                                          *)
MemoryState ==
  [instances           : [Subjects -> Instance \cup {None}],
   histories           : [Subjects -> SubjectHistory],
   records             : [RecordIds -> RecordLookup \cup {None}],
   batches             : [Key -> Seq(StoredRecord)],
   next_store_position : 0 .. MaxPosition + 1]

EmptyState ==
  [instances           |-> [s \in Subjects |-> None],
   histories           |-> [s \in Subjects |->
                              [origin |-> None, evidence |-> << >>, records |-> << >>]],
   records             |-> [r \in RecordIds |-> None],
   batches             |-> [k \in Key |-> << >>],
   next_store_position |-> 0]

Outcome(answer, receipt, replayed) ==
  [answer |-> answer, receipt |-> receipt, replayed |-> replayed]

Refused(why) == Outcome(why, None, FALSE)

BatchReceipt(key, records) ==
  [kind    |-> IF key.kind = "single" THEN "single" ELSE "batch",
   members |-> [i \in DOMAIN records |-> records[i].receipt]]

(* A batch recovered whole is answered with its first receipt. *)
Replay(key, records) == Outcome("committed", BatchReceipt(key, records), TRUE)

Repeated_Fresh(key, records) == Outcome("committed", BatchReceipt(key, records), FALSE)

(* What the append itself answers for a batch it holds. *)
Repeated(key, records) == Replay(key, records)

(* A single retry keeps the key and the index it was first stored under.   *)
SingleReceipt(record) == [kind |-> "single", members |-> << record.receipt >>]

-----------------------------------------------------------------------------
(* Admission of one entry. *)

Recomputed(entry, current) ==
  LET command == entry.envelope.command IN
  IF current = None
  THEN IF command \in Creations
       THEN {create(EntrySubject(entry), command)} ELSE {}
  ELSE IF command \in Operations /\ Admits(current, command)
       THEN {execute(current, command)} ELSE {}

FoundRevision(current) == IF current = None THEN None ELSE current.revision

(* validate_entry_against_state: the expectation, then the observed        *)
(* revision, or the decision recomputed from its saved command.            *)
validate_entry(member, current) ==
  LET entry == member.entry IN
  IF ~check(member.expect, FoundRevision(current)) THEN "revision_conflict"
  ELSE IF IsDecision(entry)
  THEN IF \E d \in Recomputed(entry, current) : Seal(d, EntryId(entry)) = entry
       THEN "ok" ELSE "corrupt_history"
  ELSE IF current = None \/ entry.revision # FoundRevision(current)
       THEN "revision_conflict" ELSE "ok"

(* The last decision on a subject among the members before place i, or     *)
(* what was held before them all.                                          *)
StateBefore(held, members, i) ==
  LET s       == EntrySubject(members[i].entry)
      earlier == {j \in 1 .. i - 1 :
                    IsDecision(members[j].entry) /\ EntrySubject(members[j].entry) = s}
  IN IF earlier = {} THEN held[s] ELSE members[Max(earlier)].entry.instance

-----------------------------------------------------------------------------
(* Imported evidence. *)

(* RecordedEntry::validate *)
EntryValid(entry) ==
  IF IsDecision(entry) THEN CommitValid(entry) ELSE ObservationValid(entry)

(* validate_imported_boundary: evidence is well formed, of the anchor's    *)
(* subject and not later than it, and a decision at its revision produced  *)
(* it.                                                                     *)
BoundaryValid(anchor, evidence) ==
  /\ \A i \in DOMAIN evidence :
       /\ EntryValid(evidence[i])
       /\ EntrySubject(evidence[i]) = anchor.subject
       /\ EntryRevision(evidence[i]) \in 1 .. anchor.revision
       /\ IsDecision(evidence[i]) /\ EntryRevision(evidence[i]) = anchor.revision =>
            evidence[i].instance = anchor
  /\ \A i, j \in DOMAIN evidence : EntryId(evidence[i]) = EntryId(evidence[j]) => i = j

(* verify_imported_record *)
verify_imported_record(s, history, entry) ==
  /\ history.origin # None
  /\ BoundaryValid(history.origin, history.evidence)
  /\ EntrySubject(entry) = s
  /\ entry \in ToSet(history.evidence)

-----------------------------------------------------------------------------
(* append_transaction *)

SubjectPosition_Stale(state, members, i) ==
  LET records == state.histories[EntrySubject(members[i].entry)].records
  IN IF records = << >> THEN 0 ELSE Last(records).receipt.position.subject + 1

SubjectPosition(state, members, i) ==
  LET s       == EntrySubject(members[i].entry)
      records == state.histories[s].records
      first   == IF records = << >> THEN 0 ELSE Last(records).receipt.position.subject + 1
  IN first + Cardinality({j \in 1 .. i - 1 : EntrySubject(members[j].entry) = s})

StorePosition_AfterNext(state, i) == state.next_store_position + i

StorePosition(state, i) == state.next_store_position + i - 1

Positions(state, members, i) ==
  [subject |-> SubjectPosition(state, members, i), store |-> StorePosition(state, i)]

Exhausted(state, members, i) ==
  \/ SubjectPosition(state, members, i) > MaxPosition
  \/ StorePosition(state, i) > MaxPosition

(* What the i-th member meets: its own validation, then its positions. *)
Verdict(state, members, i) ==
  LET valid == validate_entry(members[i], StateBefore(state.instances, members, i)) IN
  IF valid # "ok" THEN valid
  ELSE IF Exhausted(state, members, i) THEN "position_exhausted" ELSE "ok"

(* The first refusal of any member refuses them all. *)
Admission(state, members) ==
  LET bad == {i \in DOMAIN members : Verdict(state, members, i) # "ok"}
  IN IF bad = {} THEN "ok" ELSE Verdict(state, members, Min(bad))

StoredAs(state, key, members, i) ==
  LET m == members[i] IN
  [entry   |-> m.entry,
   expect  |-> m.expect,
   receipt |-> [record_id    |-> EntryId(m.entry),
                subject      |-> EntrySubject(m.entry),
                revision     |-> EntryRevision(m.entry),
                position     |-> Positions(state, members, i),
                batch_key    |-> key,
                member_index |-> i - 1]]

(* The increasing enumeration of a set of places. *)
InOrder(places) ==
  CHOOSE f \in [1 .. Cardinality(places) -> places] :
    \A m, n \in DOMAIN f : m < n => f[m] < f[n]

(* The records of one subject, in the order of the batch. *)
OfSubject(records, s) ==
  LET places == {i \in DOMAIN records : records[i].receipt.subject = s}
  IN [n \in 1 .. Cardinality(places) |-> records[InOrder(places)[n]]]

(* State, histories, record ids and the batch are published together. *)
Publish(state, key, stored) ==
  LET n     == Len(stored)
      index == [i \in 1 .. n |-> stored[i].receipt.record_id]
      Held(s) == {i \in 1 .. n : stored[i].receipt.subject = s /\ IsDecision(stored[i].entry)}
  IN [instances |-> [s \in Subjects |->
        IF Held(s) = {} THEN state.instances[s] ELSE stored[Max(Held(s))].entry.instance],
      histories |-> [s \in Subjects |->
        [state.histories[s] EXCEPT !.records = @ \o OfSubject(stored, s)]],
      records |-> [r \in RecordIds |->
        IF \E i \in 1 .. n : index[i] = r
        THEN [kind |-> "committed", record |-> stored[CHOOSE i \in 1 .. n : index[i] = r]]
        ELSE state.records[r]],
      batches |-> [state.batches EXCEPT ![key] = stored],
      next_store_position |-> state.next_store_position + n]

SameMembers(records, members) ==
  /\ Len(records) = Len(members)
  /\ \A i \in DOMAIN records :
       records[i].entry = members[i].entry /\ records[i].expect = members[i].expect

LookupEntry(lookup) == IF lookup.kind = "committed" THEN lookup.record.entry ELSE lookup.entry

(* imported_assurance *)
EvidenceHolds(state, lookup) ==
  LET s == EntrySubject(LookupEntry(lookup)) IN
  lookup.kind = "imported" => verify_imported_record(s, state.histories[s], lookup.entry)

(* A single record the store knows: its first receipt, or the evidence.    *)
Recovered(lookup, holds) ==
  CASE lookup.kind = "committed" -> Outcome("committed", SingleReceipt(lookup.record), TRUE)
    [] lookup.kind = "imported" /\ holds -> Outcome("historical", None, FALSE)
    [] OTHER -> Refused("corrupt_history")

(* The members whose record id the store already knows. *)
Prior(state, members) ==
  {i \in DOMAIN members : state.records[EntryId(members[i].entry)] # None}

append_transaction(state, key, members) ==
  LET prior == Prior(state, members)
      Known(i) == state.records[EntryId(members[i].entry)]
      stored == [i \in DOMAIN members |-> StoredAs(state, key, members, i)]
  IN
  IF state.batches[key] # << >>
  THEN [state |-> state,
        outcome |-> IF SameMembers(state.batches[key], members)
                    THEN Repeated(key, state.batches[key])
                    ELSE Refused("batch_conflict")]
  ELSE IF \E i \in prior : LookupEntry(Known(i)) # members[i].entry
  THEN [state |-> state, outcome |-> Refused("record_conflict")]
  ELSE IF prior # {} /\ key.kind = "named"
  THEN [state |-> state, outcome |-> Refused("previously_recorded")]
  ELSE IF prior # {}
  THEN [state |-> state,
        outcome |-> Recovered(Known(1), EvidenceHolds(state, Known(1)))]
  ELSE IF Admission(state, members) # "ok"
  THEN [state |-> state, outcome |-> Refused(Admission(state, members))]
  ELSE [state |-> Publish(state, key, stored),
        outcome |-> Outcome("committed", BatchReceipt(key, stored), FALSE)]

-----------------------------------------------------------------------------
(* seed_imported *)

Import == [anchor : Instance, evidence : Seq(Document)]

HasHistory(history) == history.origin # None \/ history.records # << >>

MaySeed(state, import) ==
  /\ BoundaryValid(import.anchor, import.evidence)
  /\ ~HasHistory(state.histories[import.anchor.subject])
  /\ \A i \in DOMAIN import.evidence : state.records[EntryId(import.evidence[i])] = None

seed_imported(state, import) ==
  LET s == import.anchor.subject
      Named(r) == {i \in DOMAIN import.evidence : EntryId(import.evidence[i]) = r}
  IN [state EXCEPT
       !.instances[s] = import.anchor,
       !.histories[s] = [origin |-> import.anchor, evidence |-> import.evidence,
                         records |-> << >>],
       !.records = [r \in RecordIds |->
         IF Named(r) = {} THEN @[r]
         ELSE [kind |-> "imported", entry |-> import.evidence[CHOOSE i \in Named(r) : TRUE]]]]

-----------------------------------------------------------------------------
(* Verification. *)

(* validate_stored_coordinates *)
CoordinatesValid(s, records, i) ==
  LET record == records[i] IN
  /\ EntrySubject(record.entry) = s
  /\ i > 1 =>
       /\ records[i - 1].receipt.position.subject < record.receipt.position.subject
       /\ records[i - 1].receipt.position.store < record.receipt.position.store
  /\ record.receipt.record_id = EntryId(record.entry)
  /\ record.receipt.subject = s
  /\ record.receipt.revision = EntryRevision(record.entry)
  /\ record.receipt.batch_key.kind = "single" =>
       /\ record.receipt.batch_key.id = record.receipt.record_id
       /\ record.receipt.member_index = 0

(* The state a history's first n records reach. *)
StateAt(history, n) ==
  LET decisions == {i \in 1 .. n : IsDecision(history.records[i].entry)}
  IN IF decisions = {} THEN history.origin
     ELSE history.records[Max(decisions)].entry.instance

(* verify_records_from: the first n records verify from the origin. *)
VerifiesTo(s, history, n) ==
  /\ history.origin # None => BoundaryValid(history.origin, history.evidence)
  /\ \A i \in 1 .. n :
       /\ CoordinatesValid(s, history.records, i)
       /\ validate_entry(history.records[i], StateAt(history, i - 1)) = "ok"
       /\ \A j \in 1 .. n :
            EntryId(history.records[i].entry) = EntryId(history.records[j].entry) => i = j
  /\ StateAt(history, n) # None

(* verify_subject_history *)
verify_subject_history(s, history, terminal) ==
  /\ VerifiesTo(s, history, Len(history.records))
  /\ StateAt(history, Len(history.records)) = terminal

PlaceOf(history, r) ==
  {i \in DOMAIN history.records : EntryId(history.records[i].entry) = r}

(* verify_subject_prefix *)
verify_subject_prefix(s, history, r) ==
  PlaceOf(history, r) # {} /\ VerifiesTo(s, history, Min(PlaceOf(history, r)))

(* complete_snapshot: the subjects with a history, under one lock. *)
Listed(state) == {s \in Subjects : HasHistory(state.histories[s])}

CommittedIn(state) == UNION {ToSet(state.histories[s].records) : s \in Listed(state)}

ImportedIn(state) == UNION {ToSet(state.histories[s].evidence) : s \in Listed(state)}

(* verify_histories: identities, positions and batches across subjects. *)
verify_complete_store(state) ==
  /\ \A s \in Listed(state) :
       verify_subject_history(s, state.histories[s], state.instances[s])
  /\ \A a, b \in CommittedIn(state) :
       /\ EntryId(a.entry) = EntryId(b.entry) => a = b
       /\ a.receipt.position.store = b.receipt.position.store => a = b
       /\ a.receipt.batch_key = b.receipt.batch_key /\ a # b =>
            (a.receipt.member_index < b.receipt.member_index
               <=> a.receipt.position.store < b.receipt.position.store)
  /\ \A a \in CommittedIn(state), e \in ImportedIn(state) : EntryId(a.entry) # EntryId(e)
  /\ \A d, e \in ImportedIn(state) : EntryId(d) = EntryId(e) => d = e

=============================================================================
