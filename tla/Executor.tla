------------------------------ MODULE Executor ------------------------------
(***************************************************************************)
(* The executor (crates/entity-executor/src/lib.rs): callers that create,  *)
(* execute, observe and batch over one asynchronous recorded store.  Every *)
(* await is a step of its own, so calls interleave, and a caller may drop  *)
(* its future at any of them.                                              *)
(***************************************************************************)
EXTENDS RecordedStore

CONSTANTS
  Callers,
  Spellings,          \* arguments as callers write them
  Normal,             \* [Spellings -> Commands]: defaults filled in
  Requests,           \* the requests callers make
  Orphans,            \* those whose definition the registry may lack
  Imports,            \* boundaries that may be seeded
  MaxRefusals,        \* how many refusals the recorder has room for
  RepliesLost         \* whether an append may answer WriteFailure::Uncertain

(* BatchAction: Create, Execute or Observe. *)
BatchAction ==
  [kind : {"create"}, subject : Subjects, record_id : RecordId,
   expected : {Absent}, input : Spellings]
  \cup
  [kind : {"execute"}, subject : Subjects, record_id : RecordId,
   expected : Nat, input : Spellings]
  \cup
  [kind : {"observe"}, subject : Subjects, record_id : RecordId,
   expected : Nat, input : Notes]

Request == [key : [kind : {"single"}, id : RecordId] \cup [kind : {"named"}, id : BatchNames \cup {Blank}],
            actions : Seq(BatchAction)]

ASSUME ExecutorAssumption ==
  /\ Normal \in [Spellings -> Commands]
  /\ Requests \subseteq Request /\ Orphans \subseteq Requests
  /\ Imports \subseteq Import
  /\ MaxRefusals \in Nat
  /\ RepliesLost \in BOOLEAN
  /\ None \notin Request

VARIABLES
  store,     \* MemoryState
  refusals,  \* what the refusal recorder holds
  calls      \* [Callers -> Call]

vars == <<store, refusals, calls>>

Answers ==
  {"none", "empty", "committed", "historical", "invalid", "duplicate_record_id",
   "batch_conflict", "record_conflict", "previously_recorded", "revision_conflict",
   "kernel", "corrupt_history", "position_exhausted", "uncertain", "backend",
   "unrecorded"}

(* One call of batch_bound.  `found` is the batch recover_existing is      *)
(* checking, `lookup` the record whose history it reads next, `prior` the  *)
(* records it recognised, `cause` why it runs (an uncertain append was     *)
(* "lost" if the store did it, "unsent" if not), `overlay` the states      *)
(* decide_and_append holds of the subjects in `read`.  `known` says that   *)
(* the store held the request when the call began.                         *)
Call ==
  [pc         : {"idle", "batch", "member", "member_history", "record",
                 "record_history", "decide", "append", "refuse"},
   request    : Requests \cup {None},
   registered : BOOLEAN,
   at         : Nat,
   found      : Seq(StoredRecord),
   lookup     : RecordLookup \cup {None},
   prior      : Seq(RecordLookup),
   cause      : {"retry", "replayed", "lost", "unsent"},
   read       : SUBSET Subjects,
   overlay    : [Subjects -> Instance \cup {None}],
   members    : Seq(AppendMember),
   known      : BOOLEAN,
   outcome    : [answer : Answers, receipt : CommitReceipt \cup {None}, replayed : BOOLEAN]]

Idle ==
  [pc |-> "idle", request |-> None, registered |-> TRUE, at |-> 1, found |-> << >>,
   lookup |-> None, prior |-> << >>, cause |-> "retry", read |-> {},
   overlay |-> [s \in Subjects |-> None], members |-> << >>, known |-> FALSE,
   outcome |-> Refused("none")]

Init ==
  /\ store = EmptyState
  /\ refusals = {}
  /\ calls = [c \in Callers |-> Idle]

-----------------------------------------------------------------------------
(* What a request asks, and what an entry was asked for. *)

(* request_comparison_bytes: arguments as the saved definition normalises  *)
(* them, the expectation and the whole recording.                          *)
Intent(action) ==
  [kind |-> action.kind, subject |-> action.subject, record_id |-> action.record_id,
   expected |-> action.expected,
   content |-> IF action.kind = "observe" THEN action.input ELSE Normal[action.input]]

Matches_IdOnly(action, entry) == action.record_id = EntryId(entry)

(* match_committed, match_imported *)
Matches(action, entry) == Intent(action) = RequestOf(entry)

(* Whether the store holds a request, every action of it under its key. *)
Holds(state, request) ==
  LET key == request.key IN
  /\ key \in Key
  /\ IF key.kind = "named"
     THEN /\ Len(state.batches[key]) = Len(request.actions)
          /\ \A i \in DOMAIN request.actions :
               Intent(request.actions[i]) = RequestOf(state.batches[key][i].entry)
     ELSE /\ state.records[key.id] # None
          /\ Len(request.actions) = 1
          /\ Intent(request.actions[1]) = RequestOf(LookupEntry(state.records[key.id]))

-----------------------------------------------------------------------------
(* batch_bound *)

Ids(actions) == [i \in DOMAIN actions |-> actions[i].record_id]

ShapeValid(action) ==
  action.record_id # Blank /\ (action.kind # "create" => action.expected > 0)

(* The actions whose shape, or whose repeated record id, is refused. *)
Malformed(actions) ==
  {i \in DOMAIN actions :
     ~ShapeValid(actions[i]) \/ \E j \in 1 .. i - 1 : Ids(actions)[j] = Ids(actions)[i]}

(* What is refused, or answered, before the store is asked anything. *)
Preflight(request) ==
  LET actions == request.actions IN
  CASE actions = << >> -> "empty"
    [] actions # << >> /\ request.key.id = Blank -> "invalid"
    [] actions # << >> /\ request.key.id # Blank ->
         IF Malformed(actions) # {}
         THEN IF ShapeValid(actions[Min(Malformed(actions))])
              THEN "duplicate_record_id" ELSE "invalid"
         ELSE IF request.key.kind = "single" /\ Ids(actions) # <<request.key.id>>
         THEN "invalid"
         ELSE "none"

Submit(c, request) ==
  /\ calls[c].pc = "idle"
  /\ \E registered \in IF request \in Orphans THEN BOOLEAN ELSE {TRUE} :
       calls' = [calls EXCEPT ![c] =
         [Idle EXCEPT !.pc = IF Preflight(request) = "none" THEN "batch" ELSE "idle",
                      !.request = request,
                      !.registered = registered,
                      !.known = Preflight(request) = "none" /\ Holds(store, request),
                      !.outcome = Refused(Preflight(request))]]
  /\ UNCHANGED <<store, refusals>>

(* The caller drops its future, or a port fails and its error is returned: *)
(* the call ends here, and what the store did stays done.                  *)
Drop(c) ==
  /\ calls[c].pc # "idle"
  /\ calls' = [calls EXCEPT ![c] = Idle]
  /\ UNCHANGED <<store, refusals>>

Goto(c, call) == calls' = [calls EXCEPT ![c] = call]

(* A call keeps its request and how it came to its answer. *)
Return(c, outcome) ==
  Goto(c, [Idle EXCEPT !.request = calls[c].request, !.known = calls[c].known,
                       !.cause = calls[c].cause, !.outcome = outcome])

Actions(c) == calls[c].request.actions

-----------------------------------------------------------------------------
(* recover_existing *)

RecoverFrom_Records(cause) == IF cause = "retry" THEN "batch" ELSE "record"

(* recover_existing begins with the batch, whatever it is called for. *)
RecoverFrom(cause) == "batch"

(* Nothing of the request was found. *)
NotFound(c) ==
  CASE calls[c].cause = "retry" ->
         Goto(c, [calls[c] EXCEPT !.pc = "decide", !.at = 1])
    [] calls[c].cause = "replayed" -> Return(c, Refused("backend"))
    [] calls[c].cause \in {"lost", "unsent"} -> Return(c, Refused("uncertain"))

LookupBatch(c) ==
  /\ calls[c].pc = "batch"
  /\ LET found == store.batches[calls[c].request.key] IN
     IF found = << >>
     THEN Goto(c, [calls[c] EXCEPT !.pc = "record", !.at = 1])
     ELSE IF Len(found) # Len(Actions(c)) THEN Return(c, Refused("batch_conflict"))
     ELSE Goto(c, [calls[c] EXCEPT !.pc = "member", !.at = 1, !.found = found])
  /\ UNCHANGED <<store, refusals>>

(* The global index must name the very record the batch holds. *)
LookupMember(c) ==
  /\ calls[c].pc = "member"
  /\ LET stored == calls[c].found[calls[c].at]
         lookup == store.records[EntryId(stored.entry)]
     IN IF lookup # [kind |-> "committed", record |-> stored]
        THEN Return(c, Refused("corrupt_history"))
        ELSE IF ~Matches(Actions(c)[calls[c].at], stored.entry)
        THEN Return(c, Refused("record_conflict"))
        ELSE Goto(c, [calls[c] EXCEPT !.pc = "member_history", !.lookup = lookup])
  /\ UNCHANGED <<store, refusals>>

(* verify_committed_prefix: the occurrence is the record, and the history  *)
(* verifies up to it.                                                      *)
PrefixVerified(history, stored) ==
  LET r == EntryId(stored.entry) IN
  /\ PlaceOf(history, r) # {}
  /\ history.records[Min(PlaceOf(history, r))] = stored
  /\ verify_subject_prefix(EntrySubject(stored.entry), history, r)

HistoryOf(entry) == store.histories[EntrySubject(entry)]

MemberHistory(c) ==
  /\ calls[c].pc = "member_history"
  /\ LET stored == calls[c].lookup.record
         n      == calls[c].at + 1
     IN IF ~PrefixVerified(HistoryOf(stored.entry), stored)
        THEN Return(c, Refused("corrupt_history"))
        ELSE IF n <= Len(Actions(c))
        THEN Goto(c, [calls[c] EXCEPT !.pc = "member", !.at = n, !.lookup = None])
        ELSE Return(c, Replay(calls[c].request.key, calls[c].found))
  /\ UNCHANGED <<store, refusals>>

(* After the last action: nothing known, or the first receipt, or, under a *)
(* name that never claimed them, a refusal.                                *)
Conclude(c, prior) ==
  IF prior = << >> THEN NotFound(c)
  ELSE IF calls[c].request.key.kind = "named"
  THEN Return(c, Refused("previously_recorded"))
  ELSE Return(c, Recovered(prior[1], TRUE))

NextRecord(c, prior) ==
  IF calls[c].at < Len(Actions(c))
  THEN Goto(c, [calls[c] EXCEPT !.pc = "record", !.at = @ + 1, !.lookup = None,
                                !.prior = prior])
  ELSE Conclude(c, prior)

LookupRecord(c) ==
  /\ calls[c].pc = "record"
  /\ LET action == Actions(c)[calls[c].at]
         lookup == store.records[action.record_id]
     IN IF lookup = None THEN NextRecord(c, calls[c].prior)
        ELSE IF ~Matches(action, LookupEntry(lookup))
        THEN Return(c, Refused("record_conflict"))
        ELSE Goto(c, [calls[c] EXCEPT !.pc = "record_history", !.lookup = lookup])
  /\ UNCHANGED <<store, refusals>>

RecordHistory(c) ==
  /\ calls[c].pc = "record_history"
  /\ LET lookup == calls[c].lookup
         entry  == LookupEntry(lookup)
         sound  == IF lookup.kind = "committed"
                   THEN PrefixVerified(HistoryOf(entry), lookup.record)
                   ELSE verify_imported_record(EntrySubject(entry), HistoryOf(entry), entry)
     IN IF sound THEN NextRecord(c, Append(calls[c].prior, lookup))
        ELSE Return(c, Refused("corrupt_history"))
  /\ UNCHANGED <<store, refusals>>

-----------------------------------------------------------------------------
(* decide_and_append *)

(* The refusal of decide, or "ok". *)
DecideRefusal(call, action, current) ==
  LET expect == action.expected IN
  IF ~check(expect, FoundRevision(current)) THEN "revision_conflict"
  ELSE IF action.kind = "observe" THEN "ok"
  ELSE IF ~call.registered THEN "kernel"
  ELSE IF action.kind = "create"
  THEN IF Normal[action.input] \in Creations THEN "ok" ELSE "kernel"
  ELSE IF Normal[action.input] \in Operations /\ Admits(current, Normal[action.input])
  THEN "ok" ELSE "kernel"

(* The entry of an admitted action. *)
Decided(action, current) ==
  CASE action.kind = "create" ->
         Seal(create(action.subject, Normal[action.input]), action.record_id)
    [] action.kind = "execute" -> Seal(execute(current, Normal[action.input]), action.record_id)
    [] action.kind = "observe" ->
         [subject |-> action.subject, revision |-> action.expected,
          record_id |-> action.record_id, note |-> action.input]

Recordable_Conflicts == {"revision_conflict"}

(* refusal_reason: the refusals of the command itself. *)
Recordable == {"kernel", "revision_conflict"}

(* A refusal of the command is recorded before the caller hears of it. *)
Refuse(c, why) ==
  IF why \in Recordable
  THEN Goto(c, [calls[c] EXCEPT !.pc = "refuse", !.outcome = Refused(why)])
  ELSE Return(c, Refused(why))

(* One action: its subject is loaded unless the overlay has it, and the    *)
(* action decided on what the overlay holds.                               *)
Decide(c) ==
  /\ calls[c].pc = "decide"
  /\ LET call    == calls[c]
         action  == Actions(c)[call.at]
         s       == action.subject
         current == IF s \in call.read THEN call.overlay[s] ELSE store.instances[s]
         entry   == Decided(action, current)
     IN IF DecideRefusal(call, action, current) # "ok"
        THEN Refuse(c, DecideRefusal(call, action, current))
        ELSE Goto(c, [call EXCEPT
               !.pc = IF call.at < Len(Actions(c)) THEN "decide" ELSE "append",
               !.at = IF call.at < Len(Actions(c)) THEN @ + 1 ELSE 1,
               !.read = @ \cup {s},
               !.overlay[s] = IF action.kind = "observe" THEN current ELSE entry.instance,
               !.members = Append(@, [expect |-> action.expected, entry |-> entry])])
  /\ UNCHANGED <<store, refusals>>

Recover(c, cause) ==
  Goto(c, [calls[c] EXCEPT !.pc = RecoverFrom(cause), !.at = 1, !.cause = cause,
                           !.members = << >>, !.read = {}, !.overlay = Idle.overlay])

(* The store appends in one step.  A reply that says "committed before" is *)
(* verified by recovering it; an uncertain one is settled the same way.    *)
AppendBatch(c) ==
  /\ calls[c].pc = "append"
  /\ LET done == append_transaction(store, calls[c].request.key, calls[c].members)
         outcome == done.outcome
     IN /\ store' = done.state
        /\ \/ outcome.answer = "committed" /\ ~outcome.replayed /\ Return(c, outcome)
           \/ outcome.answer = "committed" /\ outcome.replayed /\ Recover(c, "replayed")
           \/ outcome.answer = "historical" /\ Return(c, outcome)
           \/ /\ RepliesLost /\ outcome.answer \in {"committed", "historical"}
              /\ Recover(c, "lost")
           \/ /\ outcome.answer \notin {"committed", "historical"}
              /\ Refuse(c, outcome.answer)
  /\ UNCHANGED refusals

(* An append that was not made, and whose failure does not say so. *)
AppendUnsent(c) ==
  /\ RepliesLost
  /\ calls[c].pc = "append"
  /\ Recover(c, "unsent")
  /\ UNCHANGED <<store, refusals>>

(* One record per distinct refusal.  If there is no room for it the caller *)
(* is told that instead.                                                   *)
RecordRefusal(c) ==
  /\ calls[c].pc = "refuse"
  /\ LET kept == refusals \cup
           {[request |-> calls[c].request, reason |-> calls[c].outcome.answer]}
     IN IF Cardinality(kept) <= MaxRefusals
        THEN refusals' = kept /\ Return(c, calls[c].outcome)
        ELSE UNCHANGED refusals /\ Return(c, Refused("unrecorded"))
  /\ UNCHANGED store

(* A subject's history is imported before anything is recorded of it. *)
Seed(import) ==
  /\ MaySeed(store, import)
  /\ store' = seed_imported(store, import)
  /\ UNCHANGED <<refusals, calls>>

Next ==
  \/ \E c \in Callers, request \in Requests : Submit(c, request)
  \/ \E c \in Callers : \/ LookupBatch(c) \/ LookupMember(c) \/ MemberHistory(c)
                        \/ LookupRecord(c) \/ RecordHistory(c)
                        \/ Decide(c) \/ AppendBatch(c) \/ AppendUnsent(c) \/ RecordRefusal(c)
                        \/ Drop(c)
  \/ \E import \in Imports : Seed(import)

Spec == Init /\ [][Next]_vars

-----------------------------------------------------------------------------
(* Properties. *)

TypeOK ==
  /\ store \in MemoryState
  /\ \A f \in refusals : f.request \in Requests /\ f.reason \in Recordable
  /\ calls \in [Callers -> Call]

(* Whatever callers interleave, drop and repeat, the store's own verifier  *)
(* accepts all of it at any moment: every history replays to the state     *)
(* that is served, and identities, positions and batches agree across      *)
(* subjects (verify_complete_store).                                       *)
StoreVerifies == verify_complete_store(store)

Answered(c) == calls[c].pc = "idle" /\ calls[c].request # None

(* A caller told "committed" was told of its own request: under every      *)
(* receipt it was given the store holds, for good, the record of the       *)
(* action it asked for, whoever appended it and under whichever key.       *)
CommittedIsDurable ==
  \A c \in Callers : Answered(c) /\ calls[c].outcome.answer = "committed" =>
    LET receipts == calls[c].outcome.receipt.members IN
    /\ Len(receipts) = Len(Actions(c))
    /\ \A i \in DOMAIN receipts :
         LET held == store.records[Actions(c)[i].record_id] IN
         /\ held # None /\ held.kind = "committed"
         /\ held.record.receipt = receipts[i]
         /\ RequestOf(held.record.entry) = Intent(Actions(c)[i])

(* One request has one effect and one receipt, however often it is made,   *)
(* lost and recovered: two callers that made it hold the same receipt, and *)
(* only one of them was told it was fresh.                                 *)
OneReceipt ==
  \A c, d \in Callers :
    /\ c # d /\ Answered(c) /\ Answered(d)
    /\ calls[c].request = calls[d].request
    /\ calls[c].outcome.answer = "committed" /\ calls[d].outcome.answer = "committed"
    => /\ calls[c].outcome.receipt = calls[d].outcome.receipt
       /\ calls[c].outcome.replayed \/ calls[d].outcome.replayed

Recovers(outcome) ==
  \/ outcome.answer = "committed" /\ outcome.replayed
  \/ outcome.answer = "historical"

(* A request the store held when a call began is recovered by that call,   *)
(* however its arguments were spelled, whatever was recorded since and     *)
(* whether or not the definition is still registered; and a commit whose   *)
(* reply was lost, or that another caller won, is recovered as that commit *)
(* by the same call: never left uncertain, and never taken for corruption  *)
(* or for a conflict.                                                      *)
RetryNeverRefused ==
  \A c \in Callers :
    Answered(c) /\ (calls[c].known \/ calls[c].cause \in {"replayed", "lost"})
      => Recovers(calls[c].outcome)

(* A caller told that its command was refused, by the kernel or by a       *)
(* revision, on its own state or on the append's, finds it recorded: a     *)
(* recorder without room turns the answer into its own error (batch_bound, *)
(* record_refusal).                                                        *)
RefusalsRecorded ==
  \A c \in Callers : Answered(c) /\ calls[c].outcome.answer \in {"kernel", "revision_conflict"} =>
    [request |-> calls[c].request, reason |-> calls[c].outcome.answer] \in refusals

(* A step appends a request whole, under a key and positions nobody had,   *)
(* in request order, and changes nothing that was there; or it imports a   *)
(* boundary; or it leaves the store alone.                                 *)
AppendsWhole ==
  [][store' # store /\ (\A import \in Imports : ~Seed(import)) =>
       \E c \in Callers :
         LET key   == calls[c].request.key
             batch == store'.batches[key]
         IN /\ calls[c].pc = "append"
            /\ store.batches[key] = << >>
            /\ Len(batch) = Len(Actions(c))
            /\ \A i \in DOMAIN batch :
                 /\ RequestOf(batch[i].entry) = Intent(Actions(c)[i])
                 /\ batch[i].receipt.position.store = store.next_store_position + i - 1
                 /\ batch[i].receipt.position.store <= MaxPosition
            /\ \A s \in Subjects :
                 store'.histories[s].records
                   = store.histories[s].records \o OfSubject(batch, s)
            /\ \A k \in Key \ {key} : store'.batches[k] = store.batches[k]]_vars

=============================================================================
