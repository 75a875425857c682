---------------------------- MODULE ExecutorProofs ----------------------------
(***************************************************************************)
(* What holds of the executor for every number of callers and requests:    *)
(* the store it works on verifies, and no caller is told anything of its   *)
(* request that the store does not bear out.                               *)
(***************************************************************************)
EXTENDS Executor, RecordedStoreProofs

-----------------------------------------------------------------------------
(* What a call knows. *)

(* The store held the request when the call began, or took it during it. *)
Owed(k) == k.known \/ k.cause \in {"replayed", "lost"}

(* The entry at place i of the batch is the action asked for there. *)
Asked(k, i) == Intent(k.request.actions[i]) = RequestOf(k.found[i].entry)

(* Wherever a call is: its request passed the checks made before the store *)
(* is asked, and what the store owes it is still there.                    *)
Running(st, k) ==
  /\ k.request \in Requests /\ Preflight(k.request) = "none"
  /\ k.at \in 1 .. Len(k.request.actions)
  /\ k.request.key.kind = "single" => k.prior = << >>
  /\ Owed(k) => Holds(st, k.request)
  /\ \A s \in Subjects : k.overlay[s] # None => k.overlay[s].subject = s

(* Recovering a batch: it is the one under the key, and so far as asked. *)
BatchChecked(st, k) ==
  /\ k.found = st.batches[k.request.key] /\ k.found # << >>
  /\ Len(k.found) = Len(k.request.actions)
  /\ \A i \in 1 .. k.at - 1 : Asked(k, i)
  /\ k.pc = "member_history" => Asked(k, k.at) /\ k.lookup = AsCommitted(k.found[k.at])

(* Recovering records: what a batch under a name owes was found before. *)
RecordChecked(st, k) ==
  /\ Owed(k) => k.request.key.kind = "single"
  /\ k.pc = "record_history" =>
       /\ k.lookup # None /\ k.lookup = st.records[k.request.actions[k.at].record_id]
       /\ Intent(k.request.actions[k.at]) = RequestOf(LookupEntry(k.lookup))

(* Deciding: nothing of the request is owed, and each member decided so    *)
(* far is the action asked for at its place.                               *)
Unowed(k) == ~k.known /\ k.cause = "retry"

MembersAsked(k) ==
  /\ Len(k.members) = IF k.pc = "append" THEN Len(k.request.actions) ELSE k.at - 1
  /\ \A i \in 1 .. Len(k.members) :
       RequestOf(k.members[i].entry) = Intent(k.request.actions[i])

(* Each receipt is the one the store keeps of the action at its place. *)
Receipted(st, actions, receipts) ==
  /\ Len(receipts) = Len(actions)
  /\ \A i \in DOMAIN receipts :
       LET held == st.records[actions[i].record_id] IN
       /\ held # None /\ held.kind = "committed"
       /\ held.record.receipt = receipts[i]
       /\ RequestOf(held.record.entry) = Intent(actions[i])

(* What may be answered to a request, owed or not. *)
MayAnswer(st, refs, request, owed, o) ==
  /\ owed => Recovers(o)
  /\ o.answer = "committed" =>
       /\ Preflight(request) = "none"
       /\ o.receipt \in CommitReceipt
       /\ o.receipt.kind = IF request.key.kind = "single" THEN "single" ELSE "batch"
       /\ Receipted(st, request.actions, o.receipt.members)
       /\ ~o.replayed => st.batches[request.key] # << >>
  /\ o.answer \in Recordable => [request |-> request, reason |-> o.answer] \in refs

Recovering == {"batch", "member", "member_history", "record", "record_history"}

CallHolds(st, refs, k) ==
  /\ k.pc = "idle" /\ k.request # None =>
       k.request \in Requests /\ MayAnswer(st, refs, k.request, Owed(k), k.outcome)
  /\ k.pc # "idle" => Running(st, k)
  /\ k.pc \in {"member", "member_history"} => BatchChecked(st, k)
  /\ k.pc \in {"record", "record_history"} => RecordChecked(st, k)
  /\ k.pc \in Recovering => k.members = << >>
  /\ k.pc \in {"decide", "append", "refuse"} => Unowed(k)
  /\ k.pc \in {"decide", "append"} => MembersAsked(k)
  /\ k.pc = "refuse" => k.outcome.answer \in Recordable /\ k.outcome = Refused(k.outcome.answer)

(* A call told that its own append was the first of its key. *)
Fresh(k) ==
  /\ k.pc = "idle" /\ k.request # None
  /\ k.outcome.answer = "committed" /\ ~k.outcome.replayed

RefusalsTyped(refs) == \A f \in refs : f.request \in Requests /\ f.reason \in Recordable

(* The inductive invariant. *)
ExecutorInvariant ==
  /\ StoreHolds(store)
  /\ RefusalsTyped(refusals)
  /\ calls \in [Callers -> Call]
  /\ \A c \in Callers : CallHolds(store, refusals, calls[c])
  /\ \A c, d \in Callers :
       c # d /\ Fresh(calls[c]) /\ Fresh(calls[d])
         => calls[c].request.key # calls[d].request.key

-----------------------------------------------------------------------------
(* Requests and intents. *)

(* What every request a caller may make is. *)
LEMMA RequestFacts ==
  ASSUME NEW q \in Requests
  PROVE  /\ q \in Request /\ q # None
         /\ q.actions \in Seq(BatchAction) /\ Len(q.actions) \in Nat
         /\ DOMAIN q.actions = 1 .. Len(q.actions)
         /\ \A i \in DOMAIN q.actions : q.actions[i] \in BatchAction
         /\ q.key.kind \in {"single", "named"}
<1>1. q \in Request /\ q # None
  BY ExecutorAssumption
<1> QED
  BY <1>1 DEF Request

(* What every action of a request is: only a creation expects nothing to be*)
(* there.                                                                  *)
LEMMA ActionFacts ==
  ASSUME NEW a \in BatchAction
  PROVE  /\ a.kind \in {"create", "execute", "observe"}
         /\ a.subject \in Subjects /\ a.record_id \in RecordId /\ a.expected \in Expect
         /\ a.kind = "create" => a.expected = Absent
         /\ a.kind # "create" => a.expected \in Nat
         /\ a.kind # "observe" => a.input \in Spellings
         /\ a.kind = "observe" => a.input \in Notes
  BY DEF BatchAction, Expect

(* What passes the checks made before the store is asked. *)
LEMMA PreflightFacts ==
  ASSUME NEW q \in Requests, Preflight(q) = "none"
  PROVE  /\ q.key \in Key /\ Len(q.actions) > 0 /\ Len(q.actions) \in Nat
         /\ DOMAIN q.actions = 1 .. Len(q.actions)
         /\ \A i \in DOMAIN q.actions : q.actions[i].record_id \in RecordIds
         /\ \A i, j \in DOMAIN q.actions :
              q.actions[i].record_id = q.actions[j].record_id => i = j
         /\ q.key.kind = "single" =>
              Len(q.actions) = 1 /\ q.actions[1].record_id = q.key.id /\ q.key.id \in RecordIds
<1> DEFINE actions == q.actions
<1>1. /\ q \in Request /\ actions \in Seq(BatchAction) /\ Len(actions) \in Nat
      /\ DOMAIN actions = 1 .. Len(actions)
      /\ \A i \in DOMAIN actions : actions[i] \in BatchAction
  BY RequestFacts
<1>2. actions # << >>
  BY DEF Preflight
<1>3. q.key.id # Blank
  BY <1>2 DEF Preflight
<1>4. Malformed(actions) = {}
  <2>1. Malformed(actions) # {} => Preflight(q) \in {"duplicate_record_id", "invalid"}
    BY <1>2, <1>3 DEF Preflight
  <2> QED
    BY <2>1
<1>5. q.key.kind = "single" => Ids(actions) = <<q.key.id>>
  BY <1>2, <1>3, <1>4 DEF Preflight
<1>6. q.key \in Key
  <2>1. q.key \in [kind : {"single"}, id : RecordId]
                   \cup [kind : {"named"}, id : BatchNames \cup {Blank}]
    BY <1>1 DEF Request
  <2> QED
    BY <2>1, <1>3 DEF Key, RecordId
<1>7. ASSUME NEW i \in DOMAIN actions
      PROVE  ShapeValid(actions[i]) /\ \A j \in 1 .. i - 1 : Ids(actions)[j] # Ids(actions)[i]
  BY <1>4 DEF Malformed
<1>8. ASSUME NEW i \in DOMAIN actions
      PROVE  Ids(actions)[i] = actions[i].record_id
  BY DEF Ids
<1>9. ASSUME NEW i \in DOMAIN actions
      PROVE  actions[i].record_id \in RecordIds
  BY <1>1, <1>7, ActionFacts DEF ShapeValid, RecordId
<1>10. ASSUME NEW i \in DOMAIN actions, NEW j \in DOMAIN actions,
              actions[i].record_id = actions[j].record_id
       PROVE  i = j
  <2>1. i \in Nat /\ j \in Nat /\ i >= 1 /\ j >= 1
    BY <1>1
  <2>2. ~ (i < j)
    <3>1. i < j => i \in 1 .. j - 1
      BY <2>1
    <3> QED
      BY <3>1, <1>7, <1>8, <1>10
  <2>3. ~ (j < i)
    <3>1. j < i => j \in 1 .. i - 1
      BY <2>1
    <3> QED
      BY <3>1, <1>7, <1>8, <1>10
  <2> QED
    BY <2>1, <2>2, <2>3
<1>11. ASSUME q.key.kind = "single"
       PROVE  Len(actions) = 1 /\ actions[1].record_id = q.key.id
  <2>1. DOMAIN Ids(actions) = 1 .. Len(actions) /\ DOMAIN Ids(actions) = 1 .. 1
        /\ Ids(actions)[1] = q.key.id
    <3>1. DOMAIN Ids(actions) = 1 .. Len(actions)
      BY <1>1 DEF Ids
    <3>2. Ids(actions) = <<q.key.id>>
      BY <1>5, <1>11
    <3>3. DOMAIN <<q.key.id>> = 1 .. 1 /\ <<q.key.id>>[1] = q.key.id
      OBVIOUS
    <3> HIDE DEF actions
    <3> QED
      BY <3>1, <3>2, <3>3
  <2>2. 1 \in 1 .. Len(actions) /\ Len(actions) \in 1 .. 1
    BY <2>1, <1>1, <1>2
  <2> QED
    BY <2>1, <2>2, <1>1, <1>8
<1>12. Len(actions) > 0
  BY <1>1, <1>2
<1>13. q.key.kind = "single" => q.key.id \in RecordIds
  BY <1>9, <1>11, <1>12, <1>1
<1> QED
  BY <1>1, <1>6, <1>9, <1>10, <1>11, <1>12, <1>13

(* What an intent and what a recorded request say of the identity. *)
LEMMA IntentFacts ==
  ASSUME NEW a, NEW e, Intent(a) = RequestOf(e)
  PROVE  EntryId(e) = a.record_id
<1>1. Intent(a).record_id = a.record_id
  BY DEF Intent
<1>2. RequestOf(e).record_id = EntryId(e)
  <2>1. CASE IsDecision(e)
    BY <2>1 DEF RequestOf
  <2>2. CASE ~IsDecision(e)
    BY <2>2 DEF RequestOf, EntryId
  <2> QED
    BY <2>1, <2>2
<1> QED
  BY <1>1, <1>2

(* An admitted action is decided as it was asked. *)
LEMMA DecidedFacts ==
  ASSUME NEW a \in BatchAction, NEW call, NEW current \in Instance \cup {None},
         current # None => current.subject = a.subject,
         DecideRefusal(call, a, current) = "ok"
  PROVE  /\ Decided(a, current) \in Document
         /\ RequestOf(Decided(a, current)) = Intent(a)
         /\ a.kind # "observe" => /\ Decided(a, current).instance \in Instance
                                  /\ Decided(a, current).instance.subject = a.subject
<1> DEFINE e == Decided(a, current)
<1>1. CASE a.kind = "create"
  <2> DEFINE d == create(a.subject, Normal[a.input])
  <2>1. Normal[a.input] \in Creations
    BY <1>1 DEF DecideRefusal
  <2>2. e = Seal(d, a.record_id)
    BY <1>1 DEF Decided
  <2>3. /\ d \in Decision /\ d.instance.subject = a.subject /\ d.instance.revision = 1
        /\ d.command = Normal[a.input]
    BY <2>1, ActionFacts, CreateType
  <2> HIDE DEF d
  <2>4. /\ e \in RecordedCommit /\ e.instance = d.instance
        /\ e.envelope.record_id = a.record_id /\ e.envelope.command = d.command
    BY <2>2, <2>3, ActionFacts, SealType
  <2> HIDE DEF e
  <2>5. RequestOf(e) = [kind |-> "create", subject |-> a.subject, record_id |-> a.record_id,
                        expected |-> Absent, content |-> Normal[a.input]]
    BY <2>1, <2>3, <2>4 DEF RequestOf, IsDecision, EntrySubject, EntryId
  <2>6. Intent(a) = [kind |-> "create", subject |-> a.subject, record_id |-> a.record_id,
                     expected |-> Absent, content |-> Normal[a.input]]
    BY <1>1, ActionFacts DEF Intent
  <2>7. e.instance \in Instance /\ e.instance.subject = a.subject
    BY <2>3, <2>4 DEF Decision
  <2> QED
    BY <2>4, <2>5, <2>6, <2>7 DEF Document, e
<1>2. CASE a.kind = "execute"
  <2> DEFINE d == execute(current, Normal[a.input])
  <2>1. /\ check(a.expected, FoundRevision(current))
        /\ Normal[a.input] \in Operations /\ Admits(current, Normal[a.input])
    BY <1>2 DEF DecideRefusal
  <2>2. a.expected \in Nat
    BY <1>2, ActionFacts
  <2>3. current \in Instance /\ a.expected = current.revision /\ current.subject = a.subject
    BY <2>1, <2>2, StoreAssumption DEF check, FoundRevision
  <2>4. e = Seal(d, a.record_id)
    BY <1>2 DEF Decided
  <2>5. /\ d \in Decision /\ d.instance.subject = a.subject
        /\ d.instance.revision = current.revision + 1 /\ d.command = Normal[a.input]
    BY <2>1, <2>3, ExecuteType
  <2> HIDE DEF d
  <2>6. /\ e \in RecordedCommit /\ e.instance = d.instance
        /\ e.envelope.record_id = a.record_id /\ e.envelope.command = d.command
    BY <2>4, <2>5, ActionFacts, SealType
  <2> HIDE DEF e
  <2>7. EntryRevision(e) - 1 = a.expected
    BY <2>2, <2>3, <2>5, <2>6 DEF EntryRevision, IsDecision
  <2>8. e.envelope.command \notin Creations
    BY <2>1, <2>5, <2>6, KernelAssumption
  <2>9. RequestOf(e) = [kind |-> "execute", subject |-> a.subject, record_id |-> a.record_id,
                        expected |-> a.expected, content |-> Normal[a.input]]
    BY <2>5, <2>6, <2>7, <2>8 DEF RequestOf, IsDecision, EntrySubject, EntryId
  <2>10. Intent(a) = [kind |-> "execute", subject |-> a.subject, record_id |-> a.record_id,
                      expected |-> a.expected, content |-> Normal[a.input]]
    BY <1>2 DEF Intent
  <2>11. e.instance \in Instance /\ e.instance.subject = a.subject
    BY <2>5, <2>6 DEF Decision
  <2> QED
    BY <2>6, <2>9, <2>10, <2>11 DEF Document, e
<1>3. CASE a.kind = "observe"
  <2>1. e = [subject |-> a.subject, revision |-> a.expected, record_id |-> a.record_id,
             note |-> a.input]
    BY <1>3 DEF Decided
  <2>2. e \in RecordedObservation
    BY <1>3, <2>1, ActionFacts DEF RecordedObservation
  <2>3. ~IsDecision(e)
    BY <2>2, DocumentsDisjoint DEF IsDecision
  <2>4. RequestOf(e) = Intent(a)
    BY <1>3, <2>1, <2>3 DEF RequestOf, Intent
  <2> QED
    BY <1>3, <2>2, <2>4 DEF Document
<1> QED
  BY <1>1, <1>2, <1>3, ActionFacts

-----------------------------------------------------------------------------
(* What a call knows stays true while the store grows. *)

(* A store that grows still has a request it had. *)
LEMMA HoldsStays ==
  ASSUME NEW st, NEW nu, Grows(st, nu),
         NEW q \in Requests, Preflight(q) = "none", Holds(st, q)
  PROVE  Holds(nu, q)
<1>1. q.key \in Key /\ Len(q.actions) > 0 /\ Len(q.actions) \in Nat
      /\ (q.key.kind = "single" => q.key.id \in RecordIds)
      /\ q.key.kind \in {"single", "named"}
  BY PreflightFacts, RequestFacts
<1>2. CASE q.key.kind = "named"
  <2>1. Len(st.batches[q.key]) = Len(q.actions)
    BY <1>2 DEF Holds
  <2>2. st.batches[q.key] # << >>
    BY <1>1, <2>1
  <2>3. nu.batches[q.key] = st.batches[q.key]
    BY <1>1, <2>2 DEF Grows
  <2> QED
    BY <1>2, <2>3 DEF Holds
<1>3. CASE q.key.kind = "single"
  <2>1. st.records[q.key.id] # None
    BY <1>3 DEF Holds
  <2>2. nu.records[q.key.id] = st.records[q.key.id]
    BY <1>1, <1>3, <2>1 DEF Grows
  <2> QED
    BY <1>3, <2>2 DEF Holds
<1> QED
  BY <1>1, <1>2, <1>3

(* It still has the receipts it gave. *)
LEMMA ReceiptedStays ==
  ASSUME NEW st, NEW nu, Grows(st, nu), NEW q \in Requests, Preflight(q) = "none",
         NEW receipts, DOMAIN receipts = 1 .. Len(receipts),
         Receipted(st, q.actions, receipts)
  PROVE  Receipted(nu, q.actions, receipts)
<1>1. \A i \in DOMAIN receipts : q.actions[i].record_id \in RecordIds
  BY PreflightFacts DEF Receipted
<1>2. \A i \in DOMAIN receipts :
        nu.records[q.actions[i].record_id] = st.records[q.actions[i].record_id]
  BY <1>1 DEF Grows, Receipted
<1> QED
  BY <1>2 DEF Receipted

(* What may be answered to a request may still be answered to it. *)
LEMMA AnswerStays ==
  ASSUME NEW st, NEW nu, Grows(st, nu), NEW refs, NEW refs2, refs \subseteq refs2,
         NEW q \in Requests, NEW owed, NEW o, MayAnswer(st, refs, q, owed, o)
  PROVE  MayAnswer(nu, refs2, q, owed, o)
<1>1. owed => Recovers(o)
  BY DEF MayAnswer
<1>2. o.answer \in Recordable => [request |-> q, reason |-> o.answer] \in refs2
  BY DEF MayAnswer
<1>3. ASSUME o.answer = "committed"
      PROVE  /\ Preflight(q) = "none"
             /\ o.receipt \in CommitReceipt
             /\ o.receipt.kind = IF q.key.kind = "single" THEN "single" ELSE "batch"
             /\ Receipted(nu, q.actions, o.receipt.members)
             /\ ~o.replayed => nu.batches[q.key] # << >>
  <2>1. /\ Preflight(q) = "none"
        /\ o.receipt \in CommitReceipt
        /\ o.receipt.kind = IF q.key.kind = "single" THEN "single" ELSE "batch"
        /\ Receipted(st, q.actions, o.receipt.members)
    BY <1>3 DEF MayAnswer
  <2>2. ~o.replayed => st.batches[q.key] # << >>
    BY <1>3 DEF MayAnswer
  <2>3. q.key \in Key
    BY <2>1, PreflightFacts
  <2>4. ~o.replayed => nu.batches[q.key] # << >>
    <3>1. st.batches[q.key] # << >> => nu.batches[q.key] # << >>
      BY <2>3 DEF Grows
    <3> QED
      BY <2>2, <3>1
  <2>5. DOMAIN o.receipt.members = 1 .. Len(o.receipt.members)
    BY <2>1 DEF CommitReceipt
  <2>6. Receipted(nu, q.actions, o.receipt.members)
    BY <2>1, <2>5, ReceiptedStays
  <2> QED
    BY <2>1, <2>4, <2>6
<1> QED
  BY <1>1, <1>2, <1>3 DEF MayAnswer

(* What holds of a call holds of it while others append and refuse. *)
LEMMA CallStays ==
  ASSUME NEW st, NEW nu, Grows(st, nu), NEW refs, NEW refs2, refs \subseteq refs2,
         NEW k, CallHolds(st, refs, k)
  PROVE  CallHolds(nu, refs2, k)
<1>1. ASSUME k.pc = "idle", k.request # None
      PROVE  k.request \in Requests /\ MayAnswer(nu, refs2, k.request, Owed(k), k.outcome)
  <2>1. k.request \in Requests /\ MayAnswer(st, refs, k.request, Owed(k), k.outcome)
    BY <1>1 DEF CallHolds
  <2> QED
    BY <2>1, AnswerStays
<1>2. ASSUME k.pc # "idle"
      PROVE  Running(nu, k) /\ k.request.key \in Key
             /\ k.at \in DOMAIN k.request.actions
             /\ k.request.actions[k.at].record_id \in RecordIds
  <2>1. Running(st, k)
    BY <1>2 DEF CallHolds
  <2>2. k.request \in Requests /\ Preflight(k.request) = "none"
        /\ k.at \in 1 .. Len(k.request.actions)
    BY <2>1 DEF Running
  <2>3. Owed(k) => Holds(nu, k.request)
    <3>1. Owed(k) => Holds(st, k.request)
      BY <2>1 DEF Running
    <3> QED
      BY <2>2, <3>1, HoldsStays
  <2> QED
    BY <2>1, <2>2, <2>3, PreflightFacts DEF Running
<1>3. ASSUME k.pc \in {"member", "member_history"}
      PROVE  BatchChecked(nu, k)
  <2>1. BatchChecked(st, k)
    BY <1>3 DEF CallHolds
  <2>2. k.request.key \in Key
    BY <1>2, <1>3
  <2>3. nu.batches[k.request.key] = st.batches[k.request.key]
    BY <2>1, <2>2 DEF BatchChecked, Grows
  <2> QED
    BY <2>1, <2>3 DEF BatchChecked
<1>4. ASSUME k.pc \in {"record", "record_history"}
      PROVE  RecordChecked(nu, k)
  <2>1. RecordChecked(st, k)
    BY <1>4 DEF CallHolds
  <2>2. k.request.actions[k.at].record_id \in RecordIds
    BY <1>2, <1>4
  <2> QED
    BY <2>1, <2>2 DEF RecordChecked, Grows
<1> QED
  BY <1>1, <1>2, <1>3, <1>4 DEF CallHolds

-----------------------------------------------------------------------------
(* A step of a call. *)

(* The step moves one call, and the store no further than the call says. *)
Moves(c) ==
  \E k \in Call :
    /\ calls' = [calls EXCEPT ![c] = k]
    /\ StoreHolds(store') /\ Grows(store, store')
    /\ refusals \subseteq refusals' /\ RefusalsTyped(refusals')
    /\ CallHolds(store', refusals', k)
    /\ Fresh(k) => store.batches[k.request.key] = << >>

(* A move of one caller keeps the invariant: the store only grows, so the  *)
(* other calls are as they were, and no other call was fresh on the key of *)
(* a fresh one.                                                            *)
LEMMA MovesKeep ==
  ASSUME ExecutorInvariant, NEW c \in Callers, Moves(c)
  PROVE  ExecutorInvariant'
<1>1. PICK k \in Call :
        /\ calls' = [calls EXCEPT ![c] = k]
        /\ StoreHolds(store') /\ Grows(store, store')
        /\ refusals \subseteq refusals' /\ RefusalsTyped(refusals')
        /\ CallHolds(store', refusals', k)
        /\ Fresh(k) => store.batches[k.request.key] = << >>
  BY DEF Moves
<1>2. /\ calls \in [Callers -> Call]
      /\ calls' \in [Callers -> Call]
      /\ calls'[c] = k
      /\ \A d \in Callers \ {c} : calls'[d] = calls[d]
  BY <1>1 DEF ExecutorInvariant
<1>3. ASSUME NEW d \in Callers
      PROVE  CallHolds(store', refusals', calls'[d])
  <2>1. CASE d = c
    BY <1>1, <1>2, <2>1
  <2>2. CASE d # c
    <3>1. CallHolds(store, refusals, calls[d]) /\ calls'[d] = calls[d]
      BY <1>2, <2>2 DEF ExecutorInvariant
    <3> QED
      BY <1>1, <3>1, CallStays
  <2> QED
    BY <2>1, <2>2
<1>4. ASSUME NEW d \in Callers, Fresh(calls[d])
      PROVE  store.batches[calls[d].request.key] # << >>
  <2>1. CallHolds(store, refusals, calls[d])
    BY DEF ExecutorInvariant
  <2>2. MayAnswer(store, refusals, calls[d].request, Owed(calls[d]), calls[d].outcome)
    BY <1>4, <2>1 DEF CallHolds, Fresh
  <2> QED
    BY <1>4, <2>2 DEF MayAnswer, Fresh
<1>5. ASSUME NEW a \in Callers, NEW b \in Callers, a # b, Fresh(calls'[a]), Fresh(calls'[b])
      PROVE  calls'[a].request.key # calls'[b].request.key
  <2>1. CASE a # c /\ b # c
    BY <1>2, <1>5, <2>1 DEF ExecutorInvariant
  <2>2. CASE a = c
    <3>1. calls'[a] = k /\ calls'[b] = calls[b]
      BY <1>2, <1>5, <2>2
    <3> QED
      BY <1>1, <1>4, <1>5, <3>1
  <2>3. CASE b = c
    <3>1. calls'[b] = k /\ calls'[a] = calls[a]
      BY <1>2, <1>5, <2>3
    <3> QED
      BY <1>1, <1>4, <1>5, <3>1
  <2> QED
    BY <2>1, <2>2, <2>3
<1> QED
  BY <1>1, <1>2, <1>3, <1>5 DEF ExecutorInvariant

(* A step that leaves the store and the recorder alone. *)
LEMMA QuietMoves ==
  ASSUME ExecutorInvariant, NEW c \in Callers, NEW k \in Call,
         calls' = [calls EXCEPT ![c] = k], UNCHANGED <<store, refusals>>,
         CallHolds(store, refusals, k), ~Fresh(k)
  PROVE  Moves(c)
<1>1. Grows(store, store) /\ StoreHolds(store) /\ RefusalsTyped(refusals)
  BY DEF Grows, ExecutorInvariant
<1>2. store' = store /\ refusals' = refusals
  OBVIOUS
<1> QED
  BY <1>1, <1>2 DEF Moves

(* The facts of a call that runs. *)
LEMMA CallFacts ==
  ASSUME ExecutorInvariant, NEW c \in Callers, calls[c].pc # "idle"
  PROVE  /\ calls[c] \in Call /\ CallHolds(store, refusals, calls[c])
         /\ Running(store, calls[c]) /\ StoreHolds(store)
         /\ calls[c].request \in Requests /\ calls[c].request # None
         /\ Preflight(calls[c].request) = "none"
         /\ calls[c].known \in BOOLEAN
         /\ calls[c].cause \in {"retry", "replayed", "lost", "unsent"}
         /\ calls[c].at \in DOMAIN Actions(c) /\ calls[c].at \in Nat
         /\ Len(Actions(c)) \in Nat /\ DOMAIN Actions(c) = 1 .. Len(Actions(c))
         /\ Actions(c) = calls[c].request.actions
<1>1. calls[c] \in Call /\ CallHolds(store, refusals, calls[c]) /\ StoreHolds(store)
  BY DEF ExecutorInvariant
<1>2. Running(store, calls[c])
  BY <1>1 DEF CallHolds
<1>3. /\ calls[c].request \in Requests /\ Preflight(calls[c].request) = "none"
      /\ calls[c].at \in 1 .. Len(calls[c].request.actions)
  BY <1>2 DEF Running
<1> QED
  BY <1>1, <1>2, <1>3, RequestFacts DEF Call, Actions

(* What a call is once it has returned. *)
Returned(k, o) ==
  [Idle EXCEPT !.request = k.request, !.known = k.known, !.cause = k.cause, !.outcome = o]

Outcomes == [answer : Answers, receipt : CommitReceipt \cup {None}, replayed : BOOLEAN]

(* What a caller is before its first call. *)
LEMMA IdleFacts ==
  /\ Idle \in Call /\ Idle.pc = "idle" /\ Idle.request = None /\ Idle.members = << >>
  /\ Idle.prior = << >> /\ Idle.at = 1 /\ ~Idle.known /\ Idle.cause = "retry"
  /\ \A s \in Subjects : Idle.overlay[s] = None
  /\ DOMAIN Idle = {"pc", "request", "registered", "at", "found", "lookup", "prior", "cause",
                    "read", "overlay", "members", "known", "outcome"}
  BY DEF Idle, Call, Refused, Outcome, Answers

(* What a call is once it has returned. *)
LEMMA ReturnedFacts ==
  ASSUME NEW k \in Call, NEW o \in Outcomes
  PROVE  /\ Returned(k, o) \in Call
         /\ Returned(k, o).pc = "idle" /\ Returned(k, o).request = k.request
         /\ Returned(k, o).known = k.known /\ Returned(k, o).cause = k.cause
         /\ Returned(k, o).outcome = o
         /\ Owed(Returned(k, o)) <=> Owed(k)
<1>1. /\ Returned(k, o).pc = "idle" /\ Returned(k, o).request = k.request
      /\ Returned(k, o).known = k.known /\ Returned(k, o).cause = k.cause
      /\ Returned(k, o).outcome = o
  BY IdleFacts DEF Returned
<1>2. Returned(k, o) \in Call
  BY ZenonT(60), IdleFacts DEF Returned, Call, Outcomes
<1> QED
  BY <1>1, <1>2 DEF Owed

(* A call may return what may be answered to its request. *)
LEMMA AnswerHolds ==
  ASSUME NEW st, NEW refs, NEW k \in Call, NEW o \in Outcomes,
         k.request \in Requests, MayAnswer(st, refs, k.request, Owed(k), o)
  PROVE  CallHolds(st, refs, Returned(k, o))
<1> DEFINE r == Returned(k, o)
<1>1. /\ r.pc = "idle" /\ r.request = k.request /\ r.outcome = o
      /\ Owed(r) <=> Owed(k)
  BY ReturnedFacts
<1>2. MayAnswer(st, refs, r.request, Owed(r), r.outcome)
  <2>1. Owed(k) => Recovers(o)
    BY DEF MayAnswer
  <2> HIDE DEF r
  <2> QED
    BY <1>1, <2>1 DEF MayAnswer
<1>3. r.request \in Requests
  BY <1>1
<1> HIDE DEF r
<1> QED
  BY <1>1, <1>2, <1>3 DEF CallHolds, r, Recovering

(* A return that leaves the store alone and claims no append of its own. *)
LEMMA ReturnMoves ==
  ASSUME ExecutorInvariant, NEW c \in Callers, calls[c].pc # "idle", NEW o \in Outcomes,
         Return(c, o), UNCHANGED <<store, refusals>>,
         MayAnswer(store, refusals, calls[c].request, Owed(calls[c]), o),
         o.answer = "committed" => o.replayed
  PROVE  Moves(c)
<1> DEFINE k == calls[c]
           r == Returned(k, o)
<1>1. k \in Call /\ k.request \in Requests
  BY CallFacts
<1>2. calls' = [calls EXCEPT ![c] = r]
  BY DEF Return, Goto, Returned
<1>3. r \in Call /\ r.outcome = o
  BY <1>1, ReturnedFacts
<1>4. CallHolds(store, refusals, r)
  BY <1>1, AnswerHolds
<1>5. ~Fresh(r)
  BY <1>3 DEF Fresh
<1> HIDE DEF r
<1> QED
  BY <1>2, <1>3, <1>4, <1>5, QuietMoves

(* A refusal that nothing has to record. *)
LEMMA RefusedMoves ==
  ASSUME ExecutorInvariant, NEW c \in Callers, calls[c].pc # "idle",
         NEW why \in Answers \ ({"committed"} \cup Recordable),
         Return(c, Refused(why)), UNCHANGED <<store, refusals>>, ~Owed(calls[c])
  PROVE  Moves(c)
<1>1. Refused(why) \in Outcomes /\ Refused(why).answer = why
  BY DEF Refused, Outcome, Outcomes
<1>2. MayAnswer(store, refusals, calls[c].request, Owed(calls[c]), Refused(why))
  BY <1>1 DEF MayAnswer
<1> QED
  BY <1>1, <1>2, ReturnMoves

-----------------------------------------------------------------------------
(* Batches and what they answer. *)

(* The records of a batch, as the index names them. *)
LEMMA BatchFacts ==
  ASSUME NEW st, StoreHolds(st), NEW key \in Key
  PROVE  LET batch == st.batches[key] IN
         /\ batch \in Seq(StoredRecord) /\ Len(batch) \in Nat /\ DOMAIN batch = 1 .. Len(batch)
         /\ \A i \in DOMAIN batch :
              /\ batch[i] \in StoredRecord
              /\ EntryId(batch[i].entry) \in RecordIds
              /\ st.records[EntryId(batch[i].entry)] = AsCommitted(batch[i])
         /\ key.kind = "single" /\ batch # << >> =>
              Len(batch) = 1 /\ EntryId(batch[1].entry) = key.id
<1>1. st.batches[key] \in Seq(StoredRecord)
  BY DEF StoreHolds, MemoryState
<1>2. BatchHolds(st, key)
  BY DEF StoreHolds
<1> QED
  BY <1>1, <1>2 DEF BatchHolds

(* A request the store holds is the batch under its key, if there is one. *)
LEMMA HeldBatch ==
  ASSUME NEW st, StoreHolds(st), NEW q \in Requests, Preflight(q) = "none", Holds(st, q),
         NEW batch, batch = st.batches[q.key], batch # << >>
  PROVE  /\ Len(batch) = Len(q.actions)
         /\ \A i \in DOMAIN q.actions : Intent(q.actions[i]) = RequestOf(batch[i].entry)
<1>1. /\ q.key \in Key /\ q.key.kind \in {"single", "named"}
      /\ q.key.kind = "single" => Len(q.actions) = 1
      /\ DOMAIN q.actions = 1 .. Len(q.actions)
  BY PreflightFacts, RequestFacts
<1>2. CASE q.key.kind = "named"
  BY <1>2 DEF Holds
<1>3. CASE q.key.kind = "single"
  <2>1. /\ Len(batch) = 1 /\ EntryId(batch[1].entry) = q.key.id /\ 1 \in DOMAIN batch
        /\ st.records[EntryId(batch[1].entry)] = AsCommitted(batch[1])
    <3>1. /\ Len(batch) = 1 /\ EntryId(batch[1].entry) = q.key.id
          /\ DOMAIN batch = 1 .. Len(batch)
          /\ \A i \in DOMAIN batch :
               st.records[EntryId(batch[i].entry)] = AsCommitted(batch[i])
      BY <1>1, <1>3, BatchFacts
    <3>2. 1 \in DOMAIN batch
      BY <3>1
    <3> QED
      BY <3>1, <3>2
  <2>2. LookupEntry(st.records[q.key.id]) = batch[1].entry
    BY <2>1 DEF LookupEntry, AsCommitted
  <2>3. Intent(q.actions[1]) = RequestOf(LookupEntry(st.records[q.key.id]))
    BY <1>3 DEF Holds
  <2>4. \A i \in DOMAIN q.actions : i = 1
    <3>1. DOMAIN q.actions = 1 .. 1
      BY <1>1, <1>3
    <3> QED
      BY <3>1
  <2> QED
    BY <1>1, <1>3, <2>1, <2>2, <2>3, <2>4
<1> QED
  BY <1>1, <1>2, <1>3

(* A batch under the key, as it was asked, is the request held, and its    *)
(* receipt is the one to answer.                                           *)
LEMMA BatchAnswers ==
  ASSUME NEW st, StoreHolds(st), NEW q \in Requests, Preflight(q) = "none",
         NEW batch, batch = st.batches[q.key], Len(batch) = Len(q.actions),
         \A i \in DOMAIN batch : Intent(q.actions[i]) = RequestOf(batch[i].entry)
  PROVE  /\ Holds(st, q) /\ batch # << >>
         /\ BatchReceipt(q.key, batch) \in CommitReceipt
         /\ BatchReceipt(q.key, batch).kind
              = IF q.key.kind = "single" THEN "single" ELSE "batch"
         /\ Receipted(st, q.actions, BatchReceipt(q.key, batch).members)
<1> DEFINE receipts == [i \in DOMAIN batch |-> batch[i].receipt]
<1>1. /\ q.key \in Key /\ q.key.kind \in {"single", "named"}
      /\ Len(q.actions) > 0 /\ Len(q.actions) \in Nat
      /\ q.key.kind = "single" => Len(q.actions) = 1
      /\ DOMAIN q.actions = 1 .. Len(q.actions)
  BY PreflightFacts, RequestFacts
<1>2. /\ batch \in Seq(StoredRecord) /\ Len(batch) \in Nat /\ DOMAIN batch = 1 .. Len(batch)
      /\ \A i \in DOMAIN batch :
           /\ batch[i] \in StoredRecord
           /\ st.records[EntryId(batch[i].entry)] = AsCommitted(batch[i])
  BY <1>1, BatchFacts
<1>3. batch # << >> /\ DOMAIN batch = DOMAIN q.actions
  BY <1>1, <1>2
<1>4. \A i \in DOMAIN batch : EntryId(batch[i].entry) = q.actions[i].record_id
  BY IntentFacts
<1>5. receipts \in Seq(RecordReceipt) /\ Len(receipts) = Len(batch)
      /\ DOMAIN receipts = DOMAIN batch
      /\ \A i \in DOMAIN batch : receipts[i] = batch[i].receipt
  <2>1. \A i \in DOMAIN batch : batch[i].receipt \in RecordReceipt
    BY <1>2 DEF StoredRecord
  <2>2. receipts \in [1 .. Len(batch) -> RecordReceipt]
    BY <1>2, <2>1
  <2> QED
    BY <1>2, <2>2
<1>6. /\ BatchReceipt(q.key, batch).members = receipts
      /\ BatchReceipt(q.key, batch).kind = IF q.key.kind = "single" THEN "single" ELSE "batch"
      /\ BatchReceipt(q.key, batch)
           = [kind |-> IF q.key.kind = "single" THEN "single" ELSE "batch", members |-> receipts]
  BY DEF BatchReceipt
<1>7. BatchReceipt(q.key, batch) \in CommitReceipt
  BY <1>5, <1>6 DEF CommitReceipt
<1> HIDE DEF receipts
<1>8. Receipted(st, q.actions, receipts)
  <2>1. ASSUME NEW i \in DOMAIN receipts
        PROVE  LET held == st.records[q.actions[i].record_id] IN
               /\ held # None /\ held.kind = "committed"
               /\ held.record.receipt = receipts[i]
               /\ RequestOf(held.record.entry) = Intent(q.actions[i])
    <3>1. i \in DOMAIN batch
      BY <1>5
    <3>2. st.records[q.actions[i].record_id] = AsCommitted(batch[i])
      BY <1>2, <1>4, <3>1
    <3>3. AsCommitted(batch[i]) \in RecordLookup
      BY <1>2, <3>1 DEF AsCommitted, RecordLookup
    <3> QED
      BY <1>5, <3>1, <3>2, <3>3, RecordedAssumption DEF AsCommitted
  <2> QED
    BY <1>5, <2>1 DEF Receipted
<1>9. Holds(st, q)
  <2>1. CASE q.key.kind = "named"
    BY <1>1, <1>3, <2>1 DEF Holds
  <2>2. CASE q.key.kind = "single"
    <3>1. 1 \in DOMAIN batch /\ Len(q.actions) = 1 /\ q.actions[1].record_id = q.key.id
      BY <1>1, <1>3, <2>2, PreflightFacts
    <3>2. st.records[q.key.id] = AsCommitted(batch[1])
      BY <1>2, <1>4, <3>1
    <3>3. AsCommitted(batch[1]) \in RecordLookup
      BY <1>2, <3>1 DEF AsCommitted, RecordLookup
    <3>4. AsCommitted(batch[1]) # None /\ LookupEntry(AsCommitted(batch[1])) = batch[1].entry
      BY <3>3, RecordedAssumption DEF AsCommitted, LookupEntry
    <3> QED
      BY <1>1, <2>2, <3>1, <3>2, <3>4 DEF Holds
  <2> QED
    BY <1>1, <2>1, <2>2
<1> QED
  BY <1>3, <1>6, <1>7, <1>8, <1>9

(* The record of a single request answers it. *)
LEMMA SingleAnswers ==
  ASSUME NEW st, StoreHolds(st), NEW q \in Requests, Preflight(q) = "none",
         q.key.kind = "single", NEW lookup, lookup = st.records[q.key.id], lookup # None,
         lookup.kind = "committed", Intent(q.actions[1]) = RequestOf(LookupEntry(lookup))
  PROVE  /\ SingleReceipt(lookup.record) \in CommitReceipt
         /\ SingleReceipt(lookup.record).kind = "single"
         /\ Receipted(st, q.actions, SingleReceipt(lookup.record).members)
<1>1. Len(q.actions) = 1 /\ q.actions[1].record_id = q.key.id /\ q.key.id \in RecordIds
  BY PreflightFacts
<1>2. lookup.record \in StoredRecord /\ LookupEntry(lookup) = lookup.record.entry
  BY <1>1, NamedFacts
<1>3. lookup.record.receipt \in RecordReceipt
  BY <1>2 DEF StoredRecord
<1> DEFINE receipts == <<lookup.record.receipt>>
<1>4. /\ receipts \in Seq(RecordReceipt) /\ Len(receipts) = 1 /\ DOMAIN receipts = {1}
      /\ receipts[1] = lookup.record.receipt
  BY <1>3
<1>5. SingleReceipt(lookup.record) = [kind |-> "single", members |-> receipts]
  BY DEF SingleReceipt
<1> HIDE DEF receipts
<1>6. Receipted(st, q.actions, receipts)
  BY <1>1, <1>2, <1>4 DEF Receipted
<1> QED
  BY <1>4, <1>5, <1>6 DEF CommitReceipt

-----------------------------------------------------------------------------
(* The steps of a recovery. *)

(* A running call that only moves on stays one. *)
LEMMA StillRunning ==
  ASSUME NEW st, NEW k, Running(st, k), NEW j,
         j.request = k.request, j.known = k.known, j.cause = k.cause,
         j.overlay = k.overlay, j.prior = k.prior, j.at \in 1 .. Len(k.request.actions)
  PROVE  Running(st, j) /\ (Owed(j) <=> Owed(k))
<1>1. Owed(j) <=> Owed(k)
  BY DEF Owed
<1> QED
  BY <1>1 DEF Running

(* submit and submit_batch begin a call, or refuse the request at once. *)
LEMMA SubmitMoves ==
  ASSUME ExecutorInvariant, NEW c \in Callers, NEW request \in Requests, Submit(c, request)
  PROVE  Moves(c)
<1> DEFINE why == Preflight(request)
           held == why = "none" /\ Holds(store, request)
<1>1. PICK registered \in BOOLEAN :
        calls' = [calls EXCEPT ![c] =
          [Idle EXCEPT !.pc = IF why = "none" THEN "batch" ELSE "idle",
                       !.request = request, !.registered = registered,
                       !.known = held, !.outcome = Refused(why)]]
  BY DEF Submit
<1>2. UNCHANGED <<store, refusals>>
  BY DEF Submit
<1>3. held \in BOOLEAN
  OBVIOUS
<1>4. why \in {"none", "empty", "invalid", "duplicate_record_id"}
  <2>1. CASE request.actions = << >>
    BY <2>1 DEF Preflight
  <2>2. CASE request.actions # << >> /\ request.key.id = Blank
    BY <2>2 DEF Preflight
  <2>3. CASE request.actions # << >> /\ request.key.id # Blank
    BY <2>3 DEF Preflight
  <2> QED
    BY <2>1, <2>2, <2>3
<1>5. (held <=> why = "none" /\ Holds(store, request)) /\ why = Preflight(request)
  OBVIOUS
<1> HIDE DEF why, held
<1>6. Refused(why) \in Outcomes /\ Refused(why).answer = why
  BY <1>4 DEF Refused, Outcome, Outcomes, Answers
<1> DEFINE k == [Idle EXCEPT !.pc = IF why = "none" THEN "batch" ELSE "idle",
                             !.request = request, !.registered = registered,
                             !.known = held, !.outcome = Refused(why)]
<1>7. /\ k.pc = (IF why = "none" THEN "batch" ELSE "idle")
      /\ k.request = request /\ k.known = held /\ k.outcome = Refused(why)
      /\ k.cause = "retry" /\ k.at = 1 /\ k.prior = << >> /\ k.members = << >>
      /\ \A s \in Subjects : k.overlay[s] = None
  BY IdleFacts
<1>8. k \in Call
  <2> DEFINE p == IF why = "none" THEN "batch" ELSE "idle"
             begun == [Idle EXCEPT !.pc = p, !.request = request, !.outcome = Refused(why)]
  <2>1. p \in {"batch", "idle"}
    OBVIOUS
  <2> HIDE DEF p
  <2>2. begun \in Call
    BY <1>6, <2>1, IdleFacts DEF Call, Outcomes
  <2>3. k = [begun EXCEPT !.registered = registered, !.known = held]
    BY IdleFacts DEF p
  <2> HIDE DEF begun, k
  <2> QED
    BY <1>3, <2>2, <2>3 DEF Call
<1>9. calls' = [calls EXCEPT ![c] = k]
  BY <1>1
<1> HIDE DEF k
<1>10. Owed(k) <=> held
  BY <1>7 DEF Owed
<1>11. CASE why = "none"
  <2>1. Len(request.actions) > 0 /\ Len(request.actions) \in Nat
    BY <1>5, <1>11, PreflightFacts
  <2>2. Running(store, k)
    BY <1>5, <1>7, <1>10, <1>11, <2>1 DEF Running
  <2>3. CallHolds(store, refusals, k) /\ ~Fresh(k)
    BY <1>7, <1>11, <2>2 DEF CallHolds, Fresh
  <2> QED
    BY <1>2, <1>8, <1>9, <2>3, QuietMoves
<1>12. CASE why # "none"
  <2>1. ~held
    BY <1>5, <1>12
  <2>2. MayAnswer(store, refusals, request, Owed(k), k.outcome)
    BY <1>4, <1>6, <1>7, <1>10, <1>12, <2>1 DEF MayAnswer, Recordable
  <2>3. CallHolds(store, refusals, k) /\ ~Fresh(k)
    BY <1>4, <1>6, <1>7, <1>12, <2>2 DEF CallHolds, Fresh, Recovering
  <2> QED
    BY <1>2, <1>8, <1>9, <2>3, QuietMoves
<1> QED
  BY <1>11, <1>12

(* A caller may drop its future, or take its next request. *)
LEMMA DropMoves ==
  ASSUME ExecutorInvariant, NEW c \in Callers, Drop(c)
  PROVE  Moves(c)
<1>1. calls' = [calls EXCEPT ![c] = Idle] /\ UNCHANGED <<store, refusals>>
  BY DEF Drop
<1>2. CallHolds(store, refusals, Idle) /\ ~Fresh(Idle)
  BY IdleFacts DEF CallHolds, Fresh, Recovering
<1> QED
  BY <1>1, <1>2, IdleFacts, QuietMoves

(* The lookup of the key finds the batch asked for, another, or nothing. *)
LEMMA LookupBatchMoves ==
  ASSUME ExecutorInvariant, NEW c \in Callers, LookupBatch(c)
  PROVE  Moves(c)
<1> DEFINE k == calls[c]
           q == k.request
           found == store.batches[q.key]
<1>1. k.pc = "batch" /\ UNCHANGED <<store, refusals>>
  BY DEF LookupBatch
<1>2. /\ k \in Call /\ CallHolds(store, refusals, k) /\ Running(store, k)
      /\ StoreHolds(store) /\ q \in Requests /\ Preflight(q) = "none"
      /\ Actions(c) = q.actions
  BY <1>1, CallFacts
<1>3. /\ k.members = << >>
      /\ Owed(k) => Holds(store, q)
  BY <1>1, <1>2 DEF CallHolds, Running, Recovering
<1>4. /\ q.key \in Key /\ q.key.kind \in {"single", "named"}
      /\ Len(q.actions) > 0 /\ Len(q.actions) \in Nat
  BY <1>2, PreflightFacts, RequestFacts
<1>5. CASE found = << >>
  <2> DEFINE j == [k EXCEPT !.pc = "record", !.at = 1]
  <2>1. calls' = [calls EXCEPT ![c] = j]
    BY <1>5 DEF LookupBatch, Goto
  <2>2. /\ j \in Call /\ j.pc = "record" /\ j.at = 1 /\ j.request = q
        /\ j.known = k.known /\ j.cause = k.cause /\ j.overlay = k.overlay
        /\ j.prior = k.prior /\ j.members = << >>
    BY <1>2, <1>3 DEF Call
  <2> HIDE DEF j
  <2>3. Running(store, j) /\ (Owed(j) <=> Owed(k))
    BY <1>2, <1>4, <2>2, StillRunning
  <2>4. Owed(j) => q.key.kind = "single"
    <3>1. ASSUME Owed(k), q.key.kind = "named"
          PROVE  FALSE
      <4>1. Len(found) = Len(q.actions)
        BY <1>3, <3>1 DEF Holds
      <4> QED
        BY <1>4, <1>5, <4>1
    <3> QED
      BY <1>4, <2>3, <3>1
  <2>5. CallHolds(store, refusals, j) /\ ~Fresh(j)
    BY <2>2, <2>3, <2>4 DEF CallHolds, RecordChecked, Fresh
  <2> QED
    BY <1>1, <2>1, <2>2, <2>5, QuietMoves
<1>6. CASE found # << >> /\ Len(found) # Len(q.actions)
  <2>1. Return(c, Refused("batch_conflict"))
    BY <1>2, <1>6 DEF LookupBatch
  <2>2. ~Owed(k)
    BY <1>2, <1>3, <1>6, HeldBatch
  <2>3. "batch_conflict" \in Answers \ ({"committed"} \cup Recordable)
    BY DEF Answers, Recordable
  <2> QED
    BY <1>1, <2>1, <2>2, <2>3, RefusedMoves
<1>7. CASE found # << >> /\ Len(found) = Len(q.actions)
  <2> DEFINE j == [k EXCEPT !.pc = "member", !.at = 1, !.found = found]
  <2>1. calls' = [calls EXCEPT ![c] = j]
    BY <1>2, <1>7 DEF LookupBatch, Goto
  <2>2. found \in Seq(StoredRecord)
    BY <1>2, <1>4, BatchFacts
  <2>3. /\ j \in Call /\ j.pc = "member" /\ j.at = 1 /\ j.request = q /\ j.found = found
        /\ j.known = k.known /\ j.cause = k.cause /\ j.overlay = k.overlay
        /\ j.prior = k.prior /\ j.members = << >>
    BY <1>2, <1>3, <2>2 DEF Call
  <2>4. found = store.batches[q.key]
    OBVIOUS
  <2> HIDE DEF j, found
  <2>5. Running(store, j)
    BY <1>2, <1>4, <2>3, StillRunning
  <2>6. BatchChecked(store, j)
    BY <1>7, <2>3, <2>4 DEF BatchChecked
  <2>7. CallHolds(store, refusals, j) /\ ~Fresh(j)
    BY <2>3, <2>5, <2>6 DEF CallHolds, Fresh
  <2> QED
    BY <1>1, <2>1, <2>3, <2>7, QuietMoves
<1> QED
  BY <1>5, <1>6, <1>7

(* The lookup of a member of the batch found answers for its place. *)
LEMMA LookupMemberMoves ==
  ASSUME ExecutorInvariant, NEW c \in Callers, LookupMember(c)
  PROVE  Moves(c)
<1> DEFINE k == calls[c]
           q == k.request
           stored == k.found[k.at]
           lookup == store.records[EntryId(stored.entry)]
<1>1. k.pc = "member" /\ UNCHANGED <<store, refusals>>
  BY DEF LookupMember
<1>2. /\ k \in Call /\ CallHolds(store, refusals, k) /\ Running(store, k)
      /\ StoreHolds(store) /\ q \in Requests /\ Preflight(q) = "none"
      /\ Actions(c) = q.actions /\ k.at \in DOMAIN q.actions
      /\ DOMAIN q.actions = 1 .. Len(q.actions)
  BY <1>1, CallFacts
<1>3. /\ k.members = << >> /\ BatchChecked(store, k)
      /\ Owed(k) => Holds(store, q)
  BY <1>1, <1>2 DEF CallHolds, Running, Recovering
<1>4. /\ k.found = store.batches[q.key] /\ k.found # << >> /\ Len(k.found) = Len(q.actions)
      /\ \A i \in 1 .. k.at - 1 : Asked(k, i)
  BY <1>3 DEF BatchChecked
<1>5. /\ k.at \in DOMAIN k.found /\ EntryId(stored.entry) \in RecordIds
      /\ lookup = AsCommitted(stored) /\ stored \in StoredRecord
  <2>1. q.key \in Key
    BY <1>2, PreflightFacts
  <2> QED
    BY SMTT(40), <1>2, <1>4, <2>1, BatchFacts
<1>6. lookup \in RecordLookup /\ lookup = [kind |-> "committed", record |-> stored]
  BY <1>5 DEF AsCommitted, RecordLookup
<1>7. CASE ~Matches(q.actions[k.at], stored.entry)
  <2>1. Return(c, Refused("record_conflict"))
    BY <1>2, <1>6, <1>7 DEF LookupMember
  <2>2. ~Owed(k)
    <3>1. ASSUME Owed(k)
          PROVE  Intent(q.actions[k.at]) = RequestOf(stored.entry)
      BY <1>2, <1>3, <1>4, <3>1, HeldBatch
    <3> QED
      BY <1>7, <3>1 DEF Matches
  <2>3. "record_conflict" \in Answers \ ({"committed"} \cup Recordable)
    BY DEF Answers, Recordable
  <2> QED
    BY <1>1, <2>1, <2>2, <2>3, RefusedMoves
<1>8. CASE Matches(q.actions[k.at], stored.entry)
  <2> DEFINE j == [k EXCEPT !.pc = "member_history", !.lookup = lookup]
  <2>1. calls' = [calls EXCEPT ![c] = j]
    BY <1>2, <1>6, <1>8 DEF LookupMember, Goto
  <2>2. /\ j \in Call /\ j.pc = "member_history" /\ j.at = k.at /\ j.request = q
        /\ j.found = k.found /\ j.lookup = AsCommitted(k.found[k.at])
        /\ j.known = k.known /\ j.cause = k.cause /\ j.overlay = k.overlay
        /\ j.prior = k.prior /\ j.members = << >>
    <3>1. j \in Call
      BY <1>2, <1>6 DEF Call
    <3> QED
      BY <1>2, <1>3, <1>5, <3>1 DEF Call
  <2>3. Asked(k, k.at)
    BY <1>8 DEF Asked, Matches
  <2> HIDE DEF j
  <2>4. Running(store, j)
    BY <1>2, <2>2, StillRunning
  <2>5. BatchChecked(store, j)
    BY <1>4, <2>2, <2>3 DEF BatchChecked, Asked
  <2>6. CallHolds(store, refusals, j) /\ ~Fresh(j)
    BY <2>2, <2>4, <2>5 DEF CallHolds, Fresh
  <2> QED
    BY <1>1, <2>1, <2>2, <2>6, QuietMoves
<1> QED
  BY <1>7, <1>8

(* What the index names verifies. *)
LEMMA NamedVerifies ==
  ASSUME NEW x, StoreHolds(store), EntryId(x.entry) \in RecordIds,
         store.records[EntryId(x.entry)] = AsCommitted(x), AsCommitted(x) # None
  PROVE  PrefixVerified(HistoryOf(x.entry), x)
<1>1. /\ store.records[EntryId(x.entry)].kind = "committed"
      /\ store.records[EntryId(x.entry)].record = x
  BY DEF AsCommitted
<1> QED
  BY <1>1, CommittedFound DEF PrefixVerified, HistoryOf

(* The history of a member found ends the recovery, or leads to the next   *)
(* one.                                                                    *)
LEMMA MemberHistoryMoves ==
  ASSUME ExecutorInvariant, NEW c \in Callers, MemberHistory(c)
  PROVE  Moves(c)
<1> DEFINE k == calls[c]
           q == k.request
           stored == k.lookup.record
<1>1. k.pc = "member_history" /\ UNCHANGED <<store, refusals>>
  BY DEF MemberHistory
<1>2. /\ k \in Call /\ CallHolds(store, refusals, k) /\ Running(store, k)
      /\ StoreHolds(store) /\ q \in Requests /\ Preflight(q) = "none"
      /\ Actions(c) = q.actions /\ k.at \in DOMAIN q.actions /\ k.at \in Nat
      /\ DOMAIN q.actions = 1 .. Len(q.actions) /\ Len(q.actions) \in Nat
  BY <1>1, CallFacts
<1>3. /\ k.members = << >> /\ BatchChecked(store, k)
      /\ Owed(k) => Holds(store, q)
  BY <1>1, <1>2 DEF CallHolds, Running, Recovering
<1>4. /\ k.found = store.batches[q.key] /\ k.found # << >> /\ Len(k.found) = Len(q.actions)
      /\ \A i \in 1 .. k.at - 1 : Asked(k, i)
      /\ Asked(k, k.at) /\ k.lookup = AsCommitted(k.found[k.at])
  BY <1>1, <1>3 DEF BatchChecked
<1>5. \A i \in 1 .. k.at : Asked(k, i)
  <2>1. \A i \in 1 .. k.at : i = k.at \/ i \in 1 .. k.at - 1
    BY <1>2
  <2> QED
    BY <1>4, <2>1
<1>6. /\ q.key \in Key /\ DOMAIN k.found = 1 .. Len(k.found)
      /\ stored = k.found[k.at] /\ stored \in StoredRecord
      /\ EntryId(stored.entry) \in RecordIds
      /\ store.records[EntryId(stored.entry)] = AsCommitted(stored)
  <2>1. q.key \in Key
    BY <1>2, PreflightFacts
  <2>2. stored = k.found[k.at]
    BY <1>4 DEF AsCommitted
  <2> HIDE DEF stored
  <2>3. DOMAIN k.found = 1 .. Len(k.found)
    BY <1>2, <1>4, <2>1, BatchFacts
  <2>4. k.at \in DOMAIN k.found
    BY <1>2, <1>4, <2>3
  <2>5. /\ k.found[k.at] \in StoredRecord
        /\ EntryId(k.found[k.at].entry) \in RecordIds
        /\ store.records[EntryId(k.found[k.at].entry)] = AsCommitted(k.found[k.at])
    <3> DEFINE batch == store.batches[q.key]
    <3>1. \A i \in DOMAIN batch :
            /\ batch[i] \in StoredRecord
            /\ EntryId(batch[i].entry) \in RecordIds
            /\ store.records[EntryId(batch[i].entry)] = AsCommitted(batch[i])
      BY <1>2, <2>1, BatchFacts
    <3>2. k.found = batch
      BY <1>4
    <3> HIDE DEF batch
    <3> QED
      BY <2>4, <3>1, <3>2
  <2> QED
    BY <2>1, <2>2, <2>3, <2>5
<1>7. PrefixVerified(HistoryOf(stored.entry), stored)
  <2>1. AsCommitted(stored) \in RecordLookup
    BY <1>6 DEF AsCommitted, RecordLookup
  <2> QED
    BY <1>2, <1>6, <2>1, NamedVerifies, RecordedAssumption
<1>8. CASE k.at + 1 <= Len(q.actions)
  <2> DEFINE j == [k EXCEPT !.pc = "member", !.at = k.at + 1, !.lookup = None]
  <2>1. calls' = [calls EXCEPT ![c] = j]
    BY <1>2, <1>7, <1>8 DEF MemberHistory, Goto
  <2>2. /\ j \in Call /\ j.pc = "member" /\ j.at = k.at + 1 /\ j.request = q
        /\ j.found = k.found
        /\ j.known = k.known /\ j.cause = k.cause /\ j.overlay = k.overlay
        /\ j.prior = k.prior /\ j.members = << >>
    <3>1. k.at + 1 \in Nat
      BY <1>2
    <3> QED
      BY <1>2, <1>3, <3>1 DEF Call
  <2>3. j.at \in 1 .. Len(q.actions) /\ j.at - 1 = k.at
    BY <1>2, <1>8, <2>2
  <2> HIDE DEF j
  <2>4. Running(store, j)
    BY <1>2, <2>2, <2>3, StillRunning
  <2>5. BatchChecked(store, j)
    BY <1>4, <1>5, <2>2, <2>3 DEF BatchChecked, Asked
  <2>6. CallHolds(store, refusals, j) /\ ~Fresh(j)
    BY <2>2, <2>4, <2>5 DEF CallHolds, Fresh
  <2> QED
    BY <1>1, <2>1, <2>2, <2>6, QuietMoves
<1>9. CASE ~(k.at + 1 <= Len(q.actions))
  <2> DEFINE o == Replay(q.key, k.found)
  <2>1. Return(c, o)
    BY <1>2, <1>7, <1>9 DEF MemberHistory
  <2>2. k.at = Len(q.actions)
    BY <1>2, <1>9
  <2>3. \A i \in DOMAIN k.found : Intent(q.actions[i]) = RequestOf(k.found[i].entry)
    BY <1>4, <1>5, <1>6, <2>2 DEF Asked
  <2>4. /\ BatchReceipt(q.key, k.found) \in CommitReceipt
        /\ BatchReceipt(q.key, k.found).kind
             = IF q.key.kind = "single" THEN "single" ELSE "batch"
        /\ Receipted(store, q.actions, BatchReceipt(q.key, k.found).members)
    BY <1>2, <1>4, <2>3, BatchAnswers
  <2>5. /\ o.answer = "committed" /\ o.receipt = BatchReceipt(q.key, k.found) /\ o.replayed
        /\ o = Outcome("committed", BatchReceipt(q.key, k.found), TRUE)
    BY DEF Replay, Outcome
  <2>6. o \in Outcomes
    BY <2>4, <2>5 DEF Outcomes, Outcome, Answers
  <2> HIDE DEF o
  <2>7. MayAnswer(store, refusals, q, Owed(k), o)
    BY <1>2, <2>4, <2>5 DEF MayAnswer, Recovers, Recordable
  <2> QED
    BY <1>1, <2>1, <2>5, <2>6, <2>7, ReturnMoves
<1> QED
  BY <1>8, <1>9

(* The parts of an outcome. *)
LEMMA OutcomeType ==
  ASSUME NEW answer \in Answers, NEW receipt \in CommitReceipt \cup {None},
         NEW replayed \in BOOLEAN
  PROVE  /\ Outcome(answer, receipt, replayed) \in Outcomes
         /\ Outcome(answer, receipt, replayed).answer = answer
         /\ Outcome(answer, receipt, replayed).receipt = receipt
         /\ Outcome(answer, receipt, replayed).replayed = replayed
  BY DEF Outcome, Outcomes

(* Nothing of the request was found, and nothing of it is owed. *)
LEMMA NotFoundMoves ==
  ASSUME ExecutorInvariant, NEW c \in Callers, calls[c].pc \in {"record", "record_history"},
         ~Owed(calls[c]), NotFound(c), UNCHANGED <<store, refusals>>
  PROVE  Moves(c)
<1> DEFINE k == calls[c]
<1>1. /\ k \in Call /\ CallHolds(store, refusals, k) /\ Running(store, k)
      /\ k.request \in Requests /\ Preflight(k.request) = "none"
      /\ k.cause \in {"retry", "replayed", "lost", "unsent"}
  BY CallFacts
<1>2. k.members = << >>
  BY <1>1 DEF CallHolds, Recovering
<1>3. ~k.known /\ k.cause \in {"retry", "unsent"}
  BY <1>1 DEF Owed
<1>4. CASE k.cause = "retry"
  <2> DEFINE j == [k EXCEPT !.pc = "decide", !.at = 1]
  <2>1. calls' = [calls EXCEPT ![c] = j]
    BY <1>4 DEF NotFound, Goto
  <2>2. /\ j \in Call /\ j.pc = "decide" /\ j.at = 1 /\ j.request = k.request
        /\ j.known = k.known /\ j.cause = k.cause /\ j.overlay = k.overlay
        /\ j.prior = k.prior /\ j.members = << >>
    BY <1>1, <1>2 DEF Call
  <2>3. 1 \in 1 .. Len(k.request.actions)
    BY <1>1, PreflightFacts
  <2> HIDE DEF j
  <2>4. Running(store, j)
    BY <1>1, <2>2, <2>3, StillRunning
  <2>5. Unowed(j) /\ MembersAsked(j)
    BY <1>3, <1>4, <2>2 DEF Unowed, MembersAsked
  <2>6. CallHolds(store, refusals, j) /\ ~Fresh(j)
    BY <2>2, <2>4, <2>5 DEF CallHolds, Fresh, Recovering
  <2> QED
    BY <2>1, <2>2, <2>6, QuietMoves
<1>5. CASE k.cause = "unsent"
  <2>1. Return(c, Refused("uncertain"))
    BY <1>5 DEF NotFound
  <2>2. "uncertain" \in Answers \ ({"committed"} \cup Recordable)
    BY DEF Answers, Recordable
  <2> QED
    BY <2>1, <2>2, RefusedMoves
<1> QED
  BY <1>3, <1>4, <1>5

(* The next action, or the conclusion of the last one. *)
LEMMA NextRecordMoves ==
  ASSUME ExecutorInvariant, NEW c \in Callers, calls[c].pc \in {"record", "record_history"},
         NEW prior \in Seq(RecordLookup), NextRecord(c, prior), UNCHANGED <<store, refusals>>,
         prior = << >> => ~Owed(calls[c]),
         calls[c].request.key.kind = "single" /\ prior # << >> =>
           /\ prior[1] = store.records[calls[c].request.key.id] /\ prior[1] # None
           /\ Intent(calls[c].request.actions[1]) = RequestOf(LookupEntry(prior[1]))
  PROVE  Moves(c)
<1> DEFINE k == calls[c]
           q == k.request
<1>1. /\ k \in Call /\ CallHolds(store, refusals, k) /\ Running(store, k)
      /\ StoreHolds(store) /\ q \in Requests /\ Preflight(q) = "none"
      /\ Actions(c) = q.actions /\ k.at \in DOMAIN q.actions /\ k.at \in Nat
      /\ DOMAIN q.actions = 1 .. Len(q.actions) /\ Len(q.actions) \in Nat
  BY CallFacts
<1>2. /\ k.members = << >> /\ RecordChecked(store, k)
      /\ Owed(k) => q.key.kind = "single"
  BY <1>1 DEF CallHolds, Recovering, RecordChecked
<1>3. /\ q.key \in Key /\ q.key.kind \in {"single", "named"}
      /\ q.key.kind = "single" =>
           Len(q.actions) = 1 /\ q.actions[1].record_id = q.key.id /\ q.key.id \in RecordIds
  BY <1>1, PreflightFacts, RequestFacts
<1>4. CASE k.at < Len(q.actions)
  <2> DEFINE j == [k EXCEPT !.pc = "record", !.at = k.at + 1, !.lookup = None, !.prior = prior]
  <2>1. calls' = [calls EXCEPT ![c] = j]
    BY <1>1, <1>4 DEF NextRecord, Goto
  <2>2. /\ j \in Call /\ j.pc = "record" /\ j.at = k.at + 1 /\ j.request = q
        /\ j.known = k.known /\ j.cause = k.cause /\ j.overlay = k.overlay
        /\ j.members = << >>
    <3>1. k.at + 1 \in Nat
      BY <1>1
    <3> QED
      BY <1>1, <1>2, <3>1 DEF Call
  <2> HIDE DEF j
  <2>3. j.at \in 1 .. Len(q.actions) /\ q.key.kind # "single"
    <3>1. k.at + 1 \in 1 .. Len(q.actions) /\ Len(q.actions) # 1
      <4> DEFINE n == Len(q.actions)
                 i == k.at
      <4>1. i \in 1 .. n /\ n \in Nat /\ i < n
        BY <1>1, <1>4
      <4> HIDE DEF i, n
      <4>2. i + 1 \in 1 .. n /\ n # 1
        BY <4>1
      <4> QED
        BY <4>2 DEF i, n
    <3> QED
      BY <1>3, <2>2, <3>1
  <2>4. ~Owed(k) /\ ~Owed(j)
    BY <1>2, <2>2, <2>3 DEF Owed
  <2>5. Running(store, j)
    BY <1>1, <2>2, <2>3, <2>4 DEF Running
  <2>6. CallHolds(store, refusals, j) /\ ~Fresh(j)
    BY <2>2, <2>4, <2>5 DEF CallHolds, RecordChecked, Fresh
  <2> QED
    BY <2>1, <2>2, <2>6, QuietMoves
<1>5. CASE ~(k.at < Len(q.actions)) /\ prior = << >>
  <2>1. NotFound(c)
    BY <1>1, <1>5 DEF NextRecord, Conclude
  <2> QED
    BY <1>5, <2>1, NotFoundMoves
<1>6. CASE ~(k.at < Len(q.actions)) /\ prior # << >> /\ q.key.kind = "named"
  <2>1. Return(c, Refused("previously_recorded"))
    BY <1>1, <1>6 DEF NextRecord, Conclude
  <2>2. "previously_recorded" \in Answers \ ({"committed"} \cup Recordable)
    BY DEF Answers, Recordable
  <2> QED
    BY <1>2, <1>6, <2>1, <2>2, RefusedMoves
<1>7. CASE ~(k.at < Len(q.actions)) /\ prior # << >> /\ q.key.kind = "single"
  <2> DEFINE o == Recovered(prior[1], TRUE)
             lookup == store.records[q.key.id]
  <2>1. Return(c, o)
    BY <1>1, <1>7 DEF NextRecord, Conclude
  <2>2. /\ lookup # None /\ prior[1] = lookup
        /\ Intent(q.actions[1]) = RequestOf(LookupEntry(lookup))
    BY <1>7
  <2>3. lookup.kind \in {"committed", "imported"}
    BY <1>1, <1>3, <1>7, <2>2, NamedFacts
  <2>4. CASE lookup.kind = "committed"
    <3>1. /\ SingleReceipt(lookup.record) \in CommitReceipt
          /\ SingleReceipt(lookup.record).kind = "single"
          /\ Receipted(store, q.actions, SingleReceipt(lookup.record).members)
      BY <1>1, <1>7, <2>2, <2>4, SingleAnswers
    <3>2. o = Outcome("committed", SingleReceipt(lookup.record), TRUE)
      BY <2>2, <2>4 DEF Recovered
    <3> HIDE DEF o
    <3>3. /\ o \in Outcomes /\ o.answer = "committed" /\ o.replayed
          /\ o.receipt = SingleReceipt(lookup.record)
      <4>1. "committed" \in Answers
        BY DEF Answers
      <4> QED
        BY ZenonT(60), <3>1, <3>2, <4>1, OutcomeType
    <3>4. MayAnswer(store, refusals, q, Owed(k), o)
      BY <1>1, <1>7, <3>1, <3>3 DEF MayAnswer, Recovers, Recordable
    <3> QED
      BY <2>1, <3>3, <3>4, ReturnMoves
  <2>5. CASE lookup.kind = "imported"
    <3>1. o = Outcome("historical", None, FALSE)
      BY <2>2, <2>5 DEF Recovered
    <3> HIDE DEF o
    <3>2. o \in Outcomes /\ o.answer = "historical"
      <4>1. "historical" \in Answers
        BY DEF Answers
      <4> QED
        BY <3>1, <4>1, OutcomeType
    <3>3. MayAnswer(store, refusals, q, Owed(k), o)
      BY <3>2 DEF MayAnswer, Recovers, Recordable
    <3> QED
      BY <2>1, <3>2, <3>3, ReturnMoves
  <2> QED
    BY <2>3, <2>4, <2>5
<1> QED
  BY <1>3, <1>4, <1>5, <1>6, <1>7

(* The lookup of a record finds the action asked for, another, or nothing. *)
LEMMA LookupRecordMoves ==
  ASSUME ExecutorInvariant, NEW c \in Callers, LookupRecord(c)
  PROVE  Moves(c)
<1> DEFINE k == calls[c]
           q == k.request
           action == q.actions[k.at]
           lookup == store.records[action.record_id]
<1>1. k.pc = "record" /\ UNCHANGED <<store, refusals>>
  BY DEF LookupRecord
<1>2. /\ k \in Call /\ CallHolds(store, refusals, k) /\ Running(store, k)
      /\ StoreHolds(store) /\ q \in Requests /\ Preflight(q) = "none"
      /\ Actions(c) = q.actions /\ k.at \in DOMAIN q.actions /\ k.at \in Nat
      /\ DOMAIN q.actions = 1 .. Len(q.actions) /\ Len(q.actions) \in Nat
  BY <1>1, CallFacts
<1>3. /\ k.members = << >>
      /\ Owed(k) => q.key.kind = "single" /\ Holds(store, q)
      /\ q.key.kind = "single" => k.prior = << >>
  BY <1>1, <1>2 DEF CallHolds, Recovering, RecordChecked, Running
<1>4. /\ action.record_id \in RecordIds
      /\ q.key.kind = "single" =>
           /\ Len(q.actions) = 1 /\ q.actions[1].record_id = q.key.id /\ k.at = 1
           /\ action = q.actions[1]
  <2>1. /\ \A i \in DOMAIN q.actions : q.actions[i].record_id \in RecordIds
        /\ q.key.kind = "single" => Len(q.actions) = 1 /\ q.actions[1].record_id = q.key.id
    BY <1>2, PreflightFacts
  <2>2. q.key.kind = "single" => k.at = 1
    BY <1>2, <2>1
  <2> QED
    BY <1>2, <2>1, <2>2
<1>5. Owed(k) => lookup # None /\ Matches(action, LookupEntry(lookup))
  <2>1. ASSUME Owed(k)
        PROVE  /\ store.records[q.key.id] # None
               /\ Intent(q.actions[1]) = RequestOf(LookupEntry(store.records[q.key.id]))
    <3>1. q.key.kind = "single" /\ Holds(store, q)
      BY <1>3, <2>1
    <3> QED
      BY <3>1 DEF Holds
  <2> QED
    BY <1>3, <1>4, <2>1 DEF Matches
<1>6. CASE lookup = None
  <2>1. NextRecord(c, k.prior)
    BY <1>2, <1>6 DEF LookupRecord
  <2>2. k.prior \in Seq(RecordLookup)
    BY <1>2 DEF Call
  <2> QED
    BY <1>1, <1>3, <1>5, <1>6, <2>1, <2>2, NextRecordMoves
<1>7. CASE lookup # None /\ ~Matches(action, LookupEntry(lookup))
  <2>1. Return(c, Refused("record_conflict"))
    BY <1>2, <1>7 DEF LookupRecord
  <2>2. "record_conflict" \in Answers \ ({"committed"} \cup Recordable)
    BY DEF Answers, Recordable
  <2> QED
    BY <1>1, <1>5, <1>7, <2>1, <2>2, RefusedMoves
<1>8. CASE lookup # None /\ Matches(action, LookupEntry(lookup))
  <2> DEFINE j == [k EXCEPT !.pc = "record_history", !.lookup = lookup]
  <2>1. calls' = [calls EXCEPT ![c] = j]
    BY <1>2, <1>8 DEF LookupRecord, Goto
  <2>2. lookup \in RecordLookup
    BY <1>2, <1>4, <1>8, NamedFacts
  <2>3. lookup = store.records[action.record_id]
    OBVIOUS
  <2> HIDE DEF lookup
  <2>4. j \in Call
    BY <1>2, <2>2 DEF Call
  <2>5. /\ j.pc = "record_history" /\ j.at = k.at /\ j.request = q /\ j.lookup = lookup
        /\ j.known = k.known /\ j.cause = k.cause /\ j.overlay = k.overlay
        /\ j.prior = k.prior /\ j.members = << >>
    BY <1>2, <1>3 DEF Call
  <2> HIDE DEF j
  <2>6. Running(store, j) /\ (Owed(j) <=> Owed(k))
    BY <1>2, <2>5, StillRunning
  <2>7. RecordChecked(store, j)
    BY <1>3, <1>8, <2>3, <2>5, <2>6 DEF RecordChecked, Matches
  <2>8. CallHolds(store, refusals, j) /\ ~Fresh(j)
    BY <2>5, <2>6, <2>7 DEF CallHolds, Fresh
  <2> QED
    BY <1>1, <2>1, <2>4, <2>8, QuietMoves
<1> QED
  BY <1>6, <1>7, <1>8

(* The history of a record found leads to the next one, or to an answer. *)
LEMMA RecordHistoryMoves ==
  ASSUME ExecutorInvariant, NEW c \in Callers, RecordHistory(c)
  PROVE  Moves(c)
<1> DEFINE k == calls[c]
           q == k.request
           action == q.actions[k.at]
           lookup == k.lookup
           entry == LookupEntry(lookup)
<1>1. k.pc = "record_history" /\ UNCHANGED <<store, refusals>>
  BY DEF RecordHistory
<1>2. /\ k \in Call /\ CallHolds(store, refusals, k) /\ Running(store, k)
      /\ StoreHolds(store) /\ q \in Requests /\ Preflight(q) = "none"
      /\ Actions(c) = q.actions /\ k.at \in DOMAIN q.actions
      /\ DOMAIN q.actions = 1 .. Len(q.actions) /\ Len(q.actions) \in Nat
  BY <1>1, CallFacts
<1>3. /\ q.key.kind = "single" => k.prior = << >>
      /\ lookup # None /\ lookup = store.records[action.record_id]
      /\ Intent(action) = RequestOf(entry)
  BY <1>1, <1>2 DEF CallHolds, RecordChecked, Running
<1>4. /\ action.record_id \in RecordIds
      /\ q.key.kind = "single" =>
           q.actions[1].record_id = q.key.id /\ action = q.actions[1]
  <2>1. /\ \A i \in DOMAIN q.actions : q.actions[i].record_id \in RecordIds
        /\ q.key.kind = "single" => Len(q.actions) = 1 /\ q.actions[1].record_id = q.key.id
    BY <1>2, PreflightFacts
  <2>2. q.key.kind = "single" => k.at = 1
    BY <1>2, <2>1
  <2> QED
    BY <1>2, <2>1, <2>2
<1>5. /\ lookup \in RecordLookup /\ lookup.kind \in {"committed", "imported"}
      /\ EntryId(entry) = action.record_id
      /\ lookup.kind = "committed" =>
           lookup = AsCommitted(lookup.record) /\ entry = lookup.record.entry
      /\ lookup.kind = "imported" => entry = lookup.entry
  <2> DEFINE l == store.records[action.record_id]
  <2>1. l # None /\ lookup = l
    BY <1>3
  <2>2. /\ l \in RecordLookup /\ l.kind \in {"committed", "imported"}
        /\ EntryId(LookupEntry(l)) = action.record_id
        /\ l.kind = "committed" =>
             l = AsCommitted(l.record) /\ LookupEntry(l) = l.record.entry
        /\ l.kind = "imported" => LookupEntry(l) = l.entry
    BY <1>2, <1>4, <2>1, NamedFacts
  <2> HIDE DEF l, lookup
  <2> QED
    BY <2>1, <2>2
<1>6. IF lookup.kind = "committed"
      THEN PrefixVerified(HistoryOf(entry), lookup.record)
      ELSE verify_imported_record(EntrySubject(entry), HistoryOf(entry), entry)
  <2>1. CASE lookup.kind = "committed"
    <3>1. PrefixVerified(HistoryOf(lookup.record.entry), lookup.record)
      BY <1>2, <1>3, <1>4, <1>5, <2>1, NamedVerifies
    <3> QED
      BY <1>5, <2>1, <3>1
  <2>2. CASE lookup.kind = "imported"
    <3>1. verify_imported_record(EntrySubject(lookup.entry),
                                 store.histories[EntrySubject(lookup.entry)], lookup.entry)
      BY <1>2, <1>3, <1>4, <2>2, ImportedFound
    <3> QED
      BY <1>5, <2>2, <3>1 DEF HistoryOf
  <2> QED
    BY <1>5, <2>1, <2>2
<1> DEFINE prior == Append(k.prior, lookup)
<1>7. NextRecord(c, prior)
  BY <1>6 DEF RecordHistory
<1>8. prior \in Seq(RecordLookup) /\ prior # << >>
  <2>1. k.prior \in Seq(RecordLookup)
    BY <1>2 DEF Call
  <2> QED
    BY <1>5, <2>1
<1>9. q.key.kind = "single" => prior[1] = lookup
  BY <1>3
<1> HIDE DEF prior
<1> QED
  BY <1>1, <1>3, <1>4, <1>7, <1>8, <1>9, NextRecordMoves

-----------------------------------------------------------------------------
(* The steps of a decision and of its append. *)

(* A call that decides owes nothing. *)
LEMMA DecidingFacts ==
  ASSUME ExecutorInvariant, NEW c \in Callers, calls[c].pc \in {"decide", "append", "refuse"}
  PROVE  /\ ~Owed(calls[c]) /\ ~calls[c].known /\ calls[c].cause = "retry"
         /\ calls[c].pc # "refuse" =>
              /\ MembersAsked(calls[c]) /\ calls[c].members \in Seq(AppendMember)
              /\ Len(calls[c].members) \in Nat
              /\ DOMAIN calls[c].members = 1 .. Len(calls[c].members)
<1> DEFINE k == calls[c]
<1>1. k \in Call /\ CallHolds(store, refusals, k)
  BY CallFacts
<1>2. Unowed(k)
  BY <1>1 DEF CallHolds
<1>3. k.pc # "refuse" => MembersAsked(k)
  BY <1>1 DEF CallHolds
<1>4. k.members \in Seq(AppendMember)
  BY <1>1 DEF Call
<1> QED
  BY <1>2, <1>3, <1>4 DEF Unowed, Owed

(* A decision refused goes to be recorded, or is answered. *)
LEMMA RefuseMoves ==
  ASSUME ExecutorInvariant, NEW c \in Callers, calls[c].pc \in {"decide", "append"},
         NEW why \in Answers \ {"committed"}, Refuse(c, why), UNCHANGED <<store, refusals>>
  PROVE  Moves(c)
<1> DEFINE k == calls[c]
<1>1. /\ k \in Call /\ Running(store, k) /\ k.at \in 1 .. Len(k.request.actions)
      /\ ~Owed(k) /\ ~k.known /\ k.cause = "retry"
  BY CallFacts, DecidingFacts
<1>2. CASE why \in Recordable
  <2> DEFINE o == Refused(why)
             j == [k EXCEPT !.pc = "refuse", !.outcome = o]
  <2>1. calls' = [calls EXCEPT ![c] = j]
    BY <1>2 DEF Refuse, Goto
  <2>2. o \in Outcomes /\ o.answer = why /\ o = Refused(why)
    BY OutcomeType DEF Refused
  <2> HIDE DEF o
  <2>3. j \in Call
    BY <1>1, <2>2 DEF Call, Outcomes
  <2>4. /\ j.pc = "refuse" /\ j.at = k.at /\ j.request = k.request /\ j.outcome = o
        /\ j.known = k.known /\ j.cause = k.cause /\ j.overlay = k.overlay
        /\ j.prior = k.prior
    BY <1>1 DEF Call
  <2> HIDE DEF j
  <2>5. Running(store, j)
    BY <1>1, <2>4, StillRunning
  <2>6. Unowed(j)
    BY <1>1, <2>4 DEF Unowed
  <2>7. CallHolds(store, refusals, j) /\ ~Fresh(j)
    BY <1>2, <2>2, <2>4, <2>5, <2>6 DEF CallHolds, Fresh, Recovering
  <2> QED
    BY <2>1, <2>3, <2>7, QuietMoves
<1>3. CASE why \notin Recordable
  <2>1. Return(c, Refused(why))
    BY <1>3 DEF Refuse
  <2> QED
    BY <1>1, <1>3, <2>1, RefusedMoves
<1> QED
  BY <1>2, <1>3

(* A refusal is answered once it is recorded. *)
LEMMA RecordRefusalMoves ==
  ASSUME ExecutorInvariant, NEW c \in Callers, RecordRefusal(c)
  PROVE  Moves(c)
<1> DEFINE k == calls[c]
           f == [request |-> k.request, reason |-> k.outcome.answer]
           kept == refusals \cup {f}
<1>1. k.pc = "refuse" /\ store' = store
  BY DEF RecordRefusal
<1>2. /\ k \in Call /\ CallHolds(store, refusals, k) /\ StoreHolds(store)
      /\ k.request \in Requests /\ ~Owed(k)
  BY <1>1, CallFacts, DecidingFacts
<1>3. k.outcome.answer \in Recordable /\ k.outcome = Refused(k.outcome.answer)
  BY <1>1, <1>2 DEF CallHolds
<1>4. CASE refusals' = kept /\ Return(c, k.outcome)
  <2> DEFINE r == Returned(k, k.outcome)
  <2>1. k.outcome \in Outcomes
    BY <1>2 DEF Call, Outcomes
  <2>2. calls' = [calls EXCEPT ![c] = r]
    BY <1>4 DEF Return, Goto, Returned
  <2>3. r \in Call /\ r.outcome = k.outcome
    BY <1>2, <2>1, ReturnedFacts
  <2>4. k.outcome.answer # "committed"
    BY <1>3 DEF Recordable
  <2>5. MayAnswer(store, kept, k.request, Owed(k), k.outcome)
    BY <1>2, <2>4 DEF MayAnswer
  <2>6. CallHolds(store, kept, r)
    BY <1>2, <2>1, <2>5, AnswerHolds
  <2>7. RefusalsTyped(kept)
    <3>1. f.request \in Requests /\ f.reason \in Recordable
      BY <1>2, <1>3
    <3>2. RefusalsTyped(refusals)
      BY DEF ExecutorInvariant
    <3> HIDE DEF f
    <3> QED
      BY <3>1, <3>2 DEF RefusalsTyped
  <2>8. Grows(store, store') /\ StoreHolds(store')
    BY <1>1, <1>2 DEF Grows
  <2>9. ~Fresh(r)
    BY <2>3, <2>4 DEF Fresh
  <2> HIDE DEF r
  <2>10. refusals \subseteq refusals' /\ RefusalsTyped(refusals')
         /\ CallHolds(store', refusals', r)
    BY <1>1, <1>4, <2>6, <2>7
  <2> QED
    BY <2>2, <2>3, <2>8, <2>9, <2>10 DEF Moves
<1>5. CASE refusals' = refusals /\ Return(c, Refused("unrecorded"))
  <2>1. "unrecorded" \in Answers \ ({"committed"} \cup Recordable)
    BY DEF Answers, Recordable
  <2> QED
    BY <1>1, <1>2, <1>5, <2>1, RefusedMoves
<1> QED
  BY <1>4, <1>5 DEF RecordRefusal

(* A member is decided on what the call has read and decided so far. *)
LEMMA DecideMoves ==
  ASSUME ExecutorInvariant, NEW c \in Callers, Decide(c)
  PROVE  Moves(c)
<1> DEFINE k == calls[c]
           q == k.request
           action == q.actions[k.at]
           s == action.subject
           current == IF s \in k.read THEN k.overlay[s] ELSE store.instances[s]
           entry == Decided(action, current)
           why == DecideRefusal(k, action, current)
<1>1. k.pc = "decide" /\ UNCHANGED <<store, refusals>>
  BY DEF Decide
<1>2. /\ k \in Call /\ Running(store, k) /\ StoreHolds(store) /\ q \in Requests
      /\ Actions(c) = q.actions /\ k.at \in DOMAIN q.actions /\ k.at \in Nat
      /\ DOMAIN q.actions = 1 .. Len(q.actions) /\ Len(q.actions) \in Nat
  BY <1>1, CallFacts
<1>3. /\ ~Owed(k) /\ ~k.known /\ k.cause = "retry"
      /\ MembersAsked(k) /\ k.members \in Seq(AppendMember)
      /\ Len(k.members) \in Nat /\ DOMAIN k.members = 1 .. Len(k.members)
  BY <1>1, DecidingFacts
<1>4. action \in BatchAction /\ s \in Subjects /\ action.expected \in Expect
  <2>1. \A i \in DOMAIN q.actions : q.actions[i] \in BatchAction
    BY <1>2, RequestFacts
  <2>2. action \in BatchAction
    BY <1>2, <2>1
  <2> QED
    BY <2>2, ActionFacts
<1>5. current \in Instance \cup {None} /\ (current # None => current.subject = s)
  <2>1. k.overlay[s] \in Instance \cup {None}
    BY <1>2, <1>4 DEF Call
  <2>2. k.overlay[s] # None => k.overlay[s].subject = s
    BY <1>2, <1>4 DEF Running
  <2>3. store.instances[s] \in Instance \cup {None}
    BY <1>2, <1>4 DEF StoreHolds, MemoryState
  <2>4. store.instances[s] # None => store.instances[s].subject = s
    BY <1>2, <1>4, InstancePlaced
  <2> QED
    BY <2>1, <2>2, <2>3, <2>4
<1>6. current = (IF s \in k.read THEN k.overlay[s] ELSE store.instances[s])
  OBVIOUS
<1>7. CASE why # "ok"
  <2>1. Refuse(c, why)
    BY <1>2, <1>7 DEF Decide
  <2>2. why \in Answers \ {"committed"}
    <3>1. why \in {"ok", "revision_conflict", "kernel"}
      BY DEF DecideRefusal
    <3> QED
      BY <1>7, <3>1 DEF Answers
  <2> QED
    BY <1>1, <2>1, <2>2, RefuseMoves
<1>8. CASE why = "ok"
  <2> DEFINE member == [expect |-> action.expected, entry |-> entry]
             next == IF action.kind = "observe" THEN current ELSE entry.instance
             more == k.at < Len(q.actions)
             p == IF more THEN "decide" ELSE "append"
             at == IF more THEN k.at + 1 ELSE 1
             members == Append(k.members, member)
             j == [k EXCEPT !.pc = p, !.at = at, !.read = k.read \cup {s},
                            !.overlay = [k.overlay EXCEPT ![s] = next],
                            !.members = members]
  <2>1. calls' = [calls EXCEPT ![c] = j]
    <3>1. Goto(c, [k EXCEPT
            !.pc = IF k.at < Len(Actions(c)) THEN "decide" ELSE "append",
            !.at = IF k.at < Len(Actions(c)) THEN k.at + 1 ELSE 1,
            !.read = k.read \cup {s},
            !.overlay[s] = IF action.kind = "observe" THEN current ELSE entry.instance,
            !.members = Append(k.members, [expect |-> action.expected, entry |-> entry])])
      BY <1>2, <1>8 DEF Decide
    <3> QED
      BY ZenonT(60), <1>2, <3>1 DEF Goto
  <2>2. /\ entry \in Document /\ RequestOf(entry) = Intent(action)
        /\ action.kind # "observe" =>
             entry.instance \in Instance /\ entry.instance.subject = s
    <3> HIDE DEF current, action
    <3>1. DecideRefusal(k, action, current) = "ok"
      BY <1>8
    <3> QED
      BY <1>4, <1>5, <3>1, DecidedFacts
  <2>3. next \in Instance \cup {None} /\ (next # None => next.subject = s)
    BY <1>5, <2>2
  <2>4. member \in AppendMember /\ member.entry = entry
    BY <1>4, <2>2 DEF AppendMember
  <2>5. /\ p \in {"decide", "append"} /\ at \in Nat /\ at \in 1 .. Len(q.actions)
        /\ p = "append" => k.at = Len(q.actions)
        /\ p = "decide" => at - 1 = k.at
    <3> DEFINE n == Len(q.actions)
               i == k.at
    <3>1. i \in 1 .. n /\ n \in Nat
      BY <1>2
    <3>2. /\ p = IF i < n THEN "decide" ELSE "append"
          /\ at = IF i < n THEN i + 1 ELSE 1
      OBVIOUS
    <3> HIDE DEF i, n, p, at
    <3>3. /\ p \in {"decide", "append"} /\ at \in Nat /\ at \in 1 .. n
          /\ p = "append" => i = n
          /\ p = "decide" => at - 1 = i
      BY <3>1, <3>2
    <3> QED
      BY <3>3 DEF i, n
  <2> HIDE DEF member, next, p, at, entry, current
  <2>6. /\ members \in Seq(AppendMember) /\ Len(members) = Len(k.members) + 1
        /\ \A i \in 1 .. Len(k.members) : members[i] = k.members[i]
        /\ members[Len(k.members) + 1] = member
    BY <1>3, <2>4
  <2>7. Len(k.members) = k.at - 1
    BY <1>1, <1>3 DEF MembersAsked
  <2>8. /\ Len(members) = k.at
        /\ \A i \in 1 .. Len(members) :
             RequestOf(members[i].entry) = Intent(q.actions[i])
    <3>1. Len(members) = k.at
      BY <1>2, <2>6, <2>7
    <3>2. ASSUME NEW i \in 1 .. Len(members)
          PROVE  RequestOf(members[i].entry) = Intent(q.actions[i])
      <4>1. i = k.at \/ i \in 1 .. Len(k.members)
        BY <1>2, <1>3, <2>7, <3>1
      <4>2. CASE i = k.at
        <5>1. members[i] = member
          BY <1>2, <2>6, <2>7, <4>2
        <5> QED
          BY <2>2, <2>4, <4>2, <5>1
      <4>3. CASE i \in 1 .. Len(k.members)
        BY <1>3, <2>6, <4>3 DEF MembersAsked
      <4> QED
        BY <4>1, <4>2, <4>3
    <3> QED
      BY <3>1, <3>2
  <2> HIDE DEF members
  <2> DEFINE overlay == [k.overlay EXCEPT ![s] = next]
  <2>9. /\ overlay \in [Subjects -> Instance \cup {None}]
        /\ \A t \in Subjects : overlay[t] # None => overlay[t].subject = t
    <3>1. k.overlay \in [Subjects -> Instance \cup {None}]
      BY <1>2 DEF Call
    <3>2. \A t \in Subjects : k.overlay[t] # None => k.overlay[t].subject = t
      BY <1>2 DEF Running
    <3> QED
      BY <1>4, <2>3, <3>1, <3>2
  <2>10. k.read \cup {s} \subseteq Subjects
    BY <1>2, <1>4 DEF Call
  <2> HIDE DEF overlay
  <2>11. j = [k EXCEPT !.pc = p, !.at = at, !.read = k.read \cup {s},
                       !.overlay = overlay, !.members = members]
    BY DEF overlay
  <2> HIDE DEF j
  <2>12. j \in Call
    BY <1>2, <2>5, <2>6, <2>9, <2>10, <2>11 DEF Call
  <2>13. /\ j.pc = p /\ j.at = at /\ j.request = q /\ j.members = members
         /\ j.known = k.known /\ j.cause = k.cause /\ j.overlay = overlay
         /\ j.prior = k.prior
    BY <1>2, <2>11 DEF Call
  <2>14. Running(store, j)
    <3>1. ~Owed(j)
      BY <1>3, <2>13 DEF Owed
    <3> QED
      BY <1>2, <2>5, <2>9, <2>13, <3>1 DEF Running
  <2>15. Unowed(j) /\ MembersAsked(j)
    BY <1>3, <2>5, <2>8, <2>13 DEF Unowed, MembersAsked
  <2>16. CallHolds(store, refusals, j) /\ ~Fresh(j)
    BY <2>5, <2>13, <2>14, <2>15 DEF CallHolds, Fresh, Recovering
  <2> QED
    BY <1>1, <2>1, <2>12, <2>16, QuietMoves
<1> QED
  BY <1>7, <1>8

(* A call whose append got no answer of its own goes to look for its key;  *)
(* what the store took of the request is owed from then on.                *)
LEMMA RecoverMoves ==
  ASSUME ExecutorInvariant, NEW c \in Callers, calls[c].pc = "append",
         NEW cause \in {"replayed", "lost", "unsent"}, Recover(c, cause),
         refusals' = refusals, StoreHolds(store'), Grows(store, store'),
         cause # "unsent" => Holds(store', calls[c].request)
  PROVE  Moves(c)
<1> DEFINE k == calls[c]
           q == k.request
           j == [k EXCEPT !.pc = "batch", !.at = 1, !.cause = cause, !.members = << >>,
                          !.read = {}, !.overlay = Idle.overlay]
<1>1. /\ k \in Call /\ Running(store, k) /\ q \in Requests /\ Preflight(q) = "none"
      /\ ~k.known /\ RefusalsTyped(refusals)
  BY CallFacts, DecidingFacts DEF ExecutorInvariant
<1>2. calls' = [calls EXCEPT ![c] = j]
  BY DEF Recover, Goto, RecoverFrom
<1>3. Idle.overlay \in [Subjects -> Instance \cup {None}]
      /\ \A s \in Subjects : Idle.overlay[s] = None
  BY IdleFacts DEF Call
<1>4. j \in Call
  <2> DEFINE overlay == Idle.overlay
             i == [k EXCEPT !.pc = "batch", !.at = 1, !.cause = cause]
  <2>1. k \in Call /\ overlay \in [Subjects -> Instance \cup {None}]
        /\ << >> \in Seq(AppendMember) /\ {} \in SUBSET Subjects
        /\ cause \in {"retry", "replayed", "lost", "unsent"}
    BY <1>1, <1>3
  <2>2. j = [i EXCEPT !.members = << >>, !.read = {}, !.overlay = overlay]
    BY <1>1 DEF Call
  <2> HIDE DEF j, overlay, k
  <2>3. i \in Call
    BY <2>1 DEF Call
  <2> HIDE DEF i
  <2> QED
    BY <2>1, <2>2, <2>3 DEF Call
<1>5. /\ j.pc = "batch" /\ j.at = 1 /\ j.request = q /\ j.cause = cause
      /\ j.known = k.known /\ j.members = << >> /\ j.overlay = Idle.overlay
      /\ j.prior = k.prior
  BY <1>1 DEF Call
<1> HIDE DEF j
<1>6. Owed(j) => Holds(store', q)
  BY <1>1, <1>5 DEF Owed
<1>7. 1 \in 1 .. Len(q.actions)
  BY <1>1, PreflightFacts
<1>8. Running(store', j)
  <2>1. q.key.kind = "single" => j.prior = << >>
    BY <1>1, <1>5 DEF Running
  <2> QED
    BY <1>1, <1>3, <1>5, <1>6, <1>7, <2>1 DEF Running
<1>9. CallHolds(store', refusals', j) /\ ~Fresh(j)
  BY <1>5, <1>8 DEF CallHolds, Fresh
<1> QED
  BY <1>1, <1>2, <1>4, <1>9 DEF Moves

(* An append that never reached the store leaves it alone. *)
LEMMA AppendUnsentMoves ==
  ASSUME ExecutorInvariant, NEW c \in Callers, AppendUnsent(c)
  PROVE  Moves(c)
<1>1. /\ calls[c].pc = "append" /\ Recover(c, "unsent")
      /\ store' = store /\ refusals' = refusals
  BY DEF AppendUnsent
<1>2. StoreHolds(store') /\ Grows(store, store')
  BY <1>1 DEF ExecutorInvariant, Grows
<1> QED
  BY <1>1, <1>2, RecoverMoves

(* What a call appends is well formed, and is what was asked. *)
LEMMA AppendFormed ==
  ASSUME ExecutorInvariant, NEW c \in Callers, calls[c].pc = "append"
  PROVE  LET q == calls[c].request
             members == calls[c].members
         IN /\ StoreHolds(store) /\ q \in Requests /\ Preflight(q) = "none" /\ q.key \in Key
            /\ Formed(q.key, members)
            /\ Len(members) = Len(q.actions) /\ Len(members) > 0
            /\ DOMAIN members = 1 .. Len(members) /\ DOMAIN members = DOMAIN q.actions
            /\ \A i \in DOMAIN members : RequestOf(members[i].entry) = Intent(q.actions[i])
<1> DEFINE q == calls[c].request
           members == calls[c].members
<1>1. /\ StoreHolds(store) /\ q \in Requests /\ Preflight(q) = "none"
      /\ DOMAIN q.actions = 1 .. Len(q.actions)
  BY CallFacts
<1>2. /\ MembersAsked(calls[c]) /\ members \in Seq(AppendMember)
      /\ Len(members) \in Nat /\ DOMAIN members = 1 .. Len(members)
  BY DecidingFacts
<1>3. /\ Len(members) = Len(q.actions)
      /\ \A i \in DOMAIN members : RequestOf(members[i].entry) = Intent(q.actions[i])
  BY <1>2 DEF MembersAsked
<1>4. /\ q.key \in Key /\ Len(q.actions) > 0
      /\ \A i \in DOMAIN q.actions : q.actions[i].record_id \in RecordIds
      /\ \A i, j \in DOMAIN q.actions :
           q.actions[i].record_id = q.actions[j].record_id => i = j
      /\ q.key.kind = "single" => Len(q.actions) = 1 /\ q.actions[1].record_id = q.key.id
  BY <1>1, PreflightFacts
<1>5. \A i \in DOMAIN members : EntryId(members[i].entry) = q.actions[i].record_id
  BY <1>3, IntentFacts
<1>6. members # << >> /\ DOMAIN members = DOMAIN q.actions
      /\ (Len(q.actions) = 1 => 1 \in DOMAIN members)
  BY <1>1, <1>2, <1>3, <1>4
<1>7. Formed(q.key, members)
  BY SMTT(40), <1>2, <1>3, <1>4, <1>5, <1>6 DEF Formed
<1> QED
  BY <1>1, <1>2, <1>3, <1>4, <1>6, <1>7

(* An append that succeeded, now or before, holds the request. *)
LEMMA AppendSettles ==
  ASSUME ExecutorInvariant, NEW c \in Callers, calls[c].pc = "append",
         NEW done, done = append_transaction(store, calls[c].request.key, calls[c].members),
         done.outcome.answer \in {"committed", "historical"}
  PROVE  Holds(done.state, calls[c].request)
<1> DEFINE q == calls[c].request
           members == calls[c].members
           stored == StoredBatch(store, q.key, members)
<1>1. /\ StoreHolds(store) /\ q \in Requests /\ Preflight(q) = "none" /\ q.key \in Key
      /\ Formed(q.key, members)
      /\ Len(members) = Len(q.actions) /\ Len(members) > 0
      /\ DOMAIN members = 1 .. Len(members) /\ DOMAIN members = DOMAIN q.actions
      /\ \A i \in DOMAIN members : RequestOf(members[i].entry) = Intent(q.actions[i])
  BY AppendFormed
<1>2. AppendOutcomes(store, q.key, members, done)
  BY <1>1, AppendCases
<1>3. ASSUME Appendable(store, q.key, members), done.state = After(store, q.key, members)
      PROVE  Holds(done.state, q)
  <2> DEFINE nu == After(store, q.key, members)
  <2>1. StoreHolds(nu)
    BY <1>1, <1>3, AfterHolds
  <2>2. nu.batches[q.key] = stored /\ Len(stored) = Len(members)
        /\ stored \in Seq(StoredRecord)
    BY <1>1, <1>3, AfterIndex
  <2>3. ASSUME NEW i \in DOMAIN stored
        PROVE  Intent(q.actions[i]) = RequestOf(stored[i].entry)
    <3>1. i \in DOMAIN members
      BY <1>1, <2>2
    <3>2. stored[i].entry = members[i].entry
      BY <3>1 DEF StoredBatch, StoredAs
    <3> QED
      BY <1>1, <3>1, <3>2
  <2> HIDE DEF nu, stored
  <2>4. Holds(nu, q)
    BY <1>1, <2>1, <2>2, <2>3, BatchAnswers
  <2> QED
    BY <1>3, <2>4 DEF nu
<1>4. ASSUME done.state = store, store.batches[q.key] # << >>,
             SameMembers(store.batches[q.key], members)
      PROVE  Holds(done.state, q)
  <2> DEFINE batch == store.batches[q.key]
  <2>1. /\ Len(batch) = Len(members)
        /\ \A i \in DOMAIN batch : batch[i].entry = members[i].entry
    BY <1>4 DEF SameMembers
  <2>2. DOMAIN batch = 1 .. Len(batch)
    BY <1>1, BatchFacts
  <2>3. \A i \in DOMAIN batch : Intent(q.actions[i]) = RequestOf(batch[i].entry)
    BY <1>1, <2>1, <2>2
  <2>4. Holds(store, q)
    BY SMTT(40), <1>1, <2>1, <2>3, BatchAnswers
  <2> QED
    BY <1>4, <2>4
<1>5. ASSUME done.state = store, AnswersSingle(store, q.key, members, done.outcome)
      PROVE  Holds(done.state, q)
  <2>1. /\ q.key.kind = "single" /\ store.records[q.key.id] # None
        /\ LookupEntry(store.records[q.key.id]) = members[1].entry
    BY <1>5 DEF AnswersSingle
  <2>2. Len(q.actions) = 1 /\ 1 \in DOMAIN members
    BY <1>1, <2>1 DEF Formed
  <2>3. RequestOf(members[1].entry) = Intent(q.actions[1])
    BY <1>1, <2>2
  <2> QED
    BY <1>1, <1>5, <2>1, <2>2, <2>3 DEF Holds
<1>6. ASSUME NEW why \in {"batch_conflict", "record_conflict", "previously_recorded",
                          "revision_conflict", "corrupt_history", "position_exhausted"},
             done.outcome = Refused(why)
      PROVE  FALSE
  BY <1>6 DEF Refused, Outcome
<1> HIDE DEF q, members
<1> QED
  BY <1>2, <1>3, <1>4, <1>5, <1>6 DEF AppendOutcomes, q, members

(* The answer of an append that was made, and of one that was evidence. *)
FirstAnswer(key, stored) == Outcome("committed", BatchReceipt(key, stored), FALSE)

Historical == Outcome("historical", None, FALSE)

(* What an append's answer says of the store it leaves. *)
LEMMA OutcomeFacts ==
  ASSUME NEW st, NEW key, NEW members, NEW done, AppendOutcomes(st, key, members, done)
  PROVE  /\ done.outcome.answer = "committed" /\ ~done.outcome.replayed =>
              /\ Appendable(st, key, members) /\ done.state = After(st, key, members)
              /\ done.outcome = FirstAnswer(key, StoredBatch(st, key, members))
         /\ done.outcome.answer # "committed" =>
              done.state = st /\ done.outcome.answer \in Answers \ {"committed"}
         /\ done.outcome.answer = "historical" =>
              done.outcome = Historical
         /\ done.state # st =>
              Appendable(st, key, members) /\ done.state = After(st, key, members)
<1> DEFINE o == done.outcome
           stored == StoredBatch(st, key, members)
<1>1. CASE /\ Appendable(st, key, members)
           /\ done.state = After(st, key, members)
           /\ o = FirstAnswer(key, stored)
  <2>1. o.answer = "committed"
    BY <1>1 DEF Outcome, FirstAnswer
  <2> QED
    BY <1>1, <2>1
<1>2. CASE /\ done.state = st
           /\ \E receipt : o = Outcome("committed", receipt, TRUE)
  <2>1. o.answer = "committed" /\ o.replayed
    BY <1>2 DEF Outcome
  <2> QED
    BY <1>2, <2>1
<1>3. CASE done.state = st /\ o = Historical
  <2>1. o.answer = "historical"
    BY <1>3 DEF Outcome, Historical
  <2> QED
    BY <1>3, <2>1 DEF Answers
<1>4. CASE /\ done.state = st
           /\ \E why \in {"batch_conflict", "record_conflict", "previously_recorded",
                          "revision_conflict", "corrupt_history", "position_exhausted"} :
                o = Refused(why)
  <2>1. o.answer \in {"batch_conflict", "record_conflict", "previously_recorded",
                      "revision_conflict", "corrupt_history", "position_exhausted"}
    BY <1>4 DEF Refused, Outcome
  <2> QED
    BY <1>4, <2>1 DEF Answers
<1> HIDE DEF stored, o
<1>5. \/ /\ Appendable(st, key, members)
         /\ done.state = After(st, key, members)
         /\ o = FirstAnswer(key, stored)
      \/ done.state = st /\ \E receipt : o = Outcome("committed", receipt, TRUE)
      \/ done.state = st /\ o = Historical
      \/ /\ done.state = st
         /\ \E why \in {"batch_conflict", "record_conflict", "previously_recorded",
                        "revision_conflict", "corrupt_history", "position_exhausted"} :
              o = Refused(why)
  BY DEF AppendOutcomes, stored, o, FirstAnswer, Historical
<1> QED
  BY <1>1, <1>2, <1>3, <1>4, <1>5

(* An append that reached the store, its reply seen or lost. *)
LEMMA AppendBatchMoves ==
  ASSUME ExecutorInvariant, NEW c \in Callers, AppendBatch(c)
  PROVE  Moves(c)
<1> DEFINE k == calls[c]
           q == k.request
           members == k.members
           done == append_transaction(store, q.key, members)
           o == done.outcome
           stored == StoredBatch(store, q.key, members)
<1>1. k.pc = "append" /\ store' = done.state /\ refusals' = refusals
  BY DEF AppendBatch
<1>2. /\ StoreHolds(store) /\ q \in Requests /\ Preflight(q) = "none" /\ q.key \in Key
      /\ Formed(q.key, members)
      /\ Len(members) = Len(q.actions)
      /\ DOMAIN members = 1 .. Len(members) /\ DOMAIN members = DOMAIN q.actions
      /\ \A i \in DOMAIN members : RequestOf(members[i].entry) = Intent(q.actions[i])
  BY <1>1, AppendFormed
<1>3. k \in Call /\ ~Owed(k) /\ RefusalsTyped(refusals)
  BY <1>1, CallFacts, DecidingFacts DEF ExecutorInvariant
<1>4. AppendOutcomes(store, q.key, members, done)
  BY <1>2, AppendCases
<1>5. StoreHolds(store') /\ Grows(store, store')
  BY <1>1, <1>2, AppendKept
<1>6. \/ o.answer = "committed" /\ ~o.replayed /\ Return(c, o)
      \/ o.answer = "committed" /\ o.replayed /\ Recover(c, "replayed")
      \/ o.answer = "historical" /\ Return(c, o)
      \/ /\ RepliesLost /\ o.answer \in {"committed", "historical"}
         /\ Recover(c, "lost")
      \/ /\ o.answer \notin {"committed", "historical"}
         /\ Refuse(c, o.answer)
  BY DEF AppendBatch
<1>7. done = append_transaction(store, q.key, members)
  OBVIOUS
<1> HIDE DEF done
<1>8. /\ o.answer = "committed" /\ ~o.replayed =>
           /\ Appendable(store, q.key, members) /\ done.state = After(store, q.key, members)
           /\ o = FirstAnswer(q.key, stored)
      /\ o.answer # "committed" => done.state = store /\ o.answer \in Answers \ {"committed"}
      /\ o.answer = "historical" => o = Historical
  <2>1. ASSUME o.answer = "committed", ~o.replayed
        PROVE  /\ Appendable(store, q.key, members) /\ done.state = After(store, q.key, members)
               /\ o = FirstAnswer(q.key, stored)
    BY <1>4, <2>1, OutcomeFacts
  <2>2. ASSUME o.answer # "committed"
        PROVE  done.state = store /\ o.answer \in Answers \ {"committed"}
    BY <1>4, <2>2, OutcomeFacts
  <2>3. ASSUME o.answer = "historical"
        PROVE  o = Historical
    BY <1>4, <2>3, OutcomeFacts
  <2> HIDE DEF o, stored, k, q, members
  <2> QED
    BY <2>1, <2>2, <2>3
<1>9. CASE o.answer = "committed" /\ ~o.replayed /\ Return(c, o)
  <2> DEFINE r == Returned(k, o)
  <2>1. /\ Appendable(store, q.key, members) /\ store' = After(store, q.key, members)
        /\ o = FirstAnswer(q.key, stored)
    BY <1>1, <1>8, <1>9
  <2>2. stored = store'.batches[q.key] /\ Len(stored) = Len(members)
        /\ stored \in Seq(StoredRecord)
    BY <1>2, <2>1, AfterIndex
  <2>3. ASSUME NEW i \in DOMAIN stored
        PROVE  Intent(q.actions[i]) = RequestOf(stored[i].entry)
    <3>1. i \in DOMAIN members
      BY <1>2, <2>2
    <3>2. stored[i].entry = members[i].entry
      BY <3>1 DEF StoredBatch, StoredAs
    <3> QED
      BY <1>2, <3>1, <3>2
  <2> HIDE DEF stored, o
  <2>4. /\ stored # << >>
        /\ BatchReceipt(q.key, stored) \in CommitReceipt
        /\ BatchReceipt(q.key, stored).kind
             = IF q.key.kind = "single" THEN "single" ELSE "batch"
        /\ Receipted(store', q.actions, BatchReceipt(q.key, stored).members)
    BY <1>2, <1>5, <2>2, <2>3, BatchAnswers
  <2>5. o \in Outcomes /\ o.receipt = BatchReceipt(q.key, stored) /\ o.answer = "committed"
    <3>1. "committed" \in Answers
      BY DEF Answers
    <3> DEFINE receipt == BatchReceipt(q.key, stored)
    <3>2. o = Outcome("committed", receipt, FALSE) /\ receipt \in CommitReceipt \cup {None}
      BY <2>1, <2>4 DEF FirstAnswer
    <3> HIDE DEF receipt
    <3>3. o \in Outcomes /\ o.receipt = receipt /\ o.answer = "committed"
      BY <3>1, <3>2, OutcomeType
    <3> QED
      BY <3>3 DEF receipt
  <2>6. MayAnswer(store', refusals, q, Owed(k), o)
    BY <1>2, <1>3, <2>2, <2>4, <2>5 DEF MayAnswer, Recordable
  <2>7. CallHolds(store', refusals, r)
    BY <1>2, <1>3, <2>5, <2>6, AnswerHolds
  <2>8. calls' = [calls EXCEPT ![c] = r]
    BY <1>9 DEF Return, Goto, Returned
  <2>9. r \in Call /\ r.request = q
    BY <1>3, <2>5, ReturnedFacts
  <2>10. store.batches[q.key] = << >>
    BY <2>1 DEF Appendable
  <2> HIDE DEF r
  <2> QED
    BY <1>1, <1>3, <1>5, <2>7, <2>8, <2>9, <2>10 DEF Moves
<1>10. ASSUME NEW cause \in {"replayed", "lost"}, Recover(c, cause),
              o.answer \in {"committed", "historical"}
       PROVE  Moves(c)
  <2>1. Holds(store', q)
    BY <1>1, <1>7, <1>10, AppendSettles
  <2> QED
    BY <1>1, <1>5, <1>10, <2>1, RecoverMoves
<1>11. CASE o.answer = "historical" /\ Return(c, o)
  <2>1. store' = store /\ o = Historical
    BY <1>1, <1>8, <1>11
  <2>2. "historical" \in Answers
    BY DEF Answers
  <2> HIDE DEF o
  <2>3. o \in Outcomes /\ o.answer = "historical"
    BY <2>1, <2>2, OutcomeType DEF Historical
  <2>4. MayAnswer(store, refusals, q, Owed(k), o)
    BY <1>3, <2>3 DEF MayAnswer, Recordable
  <2> QED
    BY <1>1, <1>11, <2>1, <2>3, <2>4, ReturnMoves
<1>12. CASE o.answer \notin {"committed", "historical"} /\ Refuse(c, o.answer)
  <2>1. store' = store /\ o.answer \in Answers \ {"committed"}
    BY <1>1, <1>8, <1>12
  <2> QED
    BY <1>1, <1>12, <2>1, RefuseMoves
<1> QED
  BY <1>6, <1>9, <1>10, <1>11, <1>12

-----------------------------------------------------------------------------
(* The invariant. *)

(* An import keeps the invariant: it only adds to the store. *)
LEMMA SeedKeeps ==
  ASSUME ExecutorInvariant, NEW import \in Imports, Seed(import)
  PROVE  ExecutorInvariant'
<1>1. /\ MaySeed(store, import) /\ store' = seed_imported(store, import)
      /\ refusals' = refusals /\ calls' = calls
  BY DEF Seed
<1>2. import \in Import
  BY ExecutorAssumption
<1>3. StoreHolds(store') /\ Grows(store, store')
  BY <1>1, <1>2, SeedKept DEF ExecutorInvariant
<1>4. ASSUME NEW c \in Callers
      PROVE  CallHolds(store', refusals', calls'[c])
  <2>1. CallHolds(store, refusals, calls[c])
    BY DEF ExecutorInvariant
  <2>2. CallHolds(store', refusals, calls[c])
    BY <1>3, <2>1, CallStays
  <2> QED
    BY <1>1, <2>2
<1> QED
  BY <1>1, <1>3, <1>4 DEF ExecutorInvariant

(* The invariant holds in the beginning. *)
LEMMA InitHolds == Init => ExecutorInvariant
<1> SUFFICES ASSUME Init
             PROVE  ExecutorInvariant
  OBVIOUS
<1>1. /\ store = EmptyState /\ refusals = {} /\ calls \in [Callers -> Call]
      /\ \A c \in Callers : calls[c] = Idle
  BY IdleFacts DEF Init
<1>2. \A c \in Callers : CallHolds(store, refusals, calls[c]) /\ ~Fresh(calls[c])
  BY <1>1, IdleFacts DEF CallHolds, Fresh, Recovering
<1> QED
  BY <1>1, <1>2, EmptyHolds DEF ExecutorInvariant, RefusalsTyped

(* Every step keeps the invariant. *)
LEMMA NextKeeps == ExecutorInvariant /\ [Next]_vars => ExecutorInvariant'
<1> SUFFICES ASSUME ExecutorInvariant, [Next]_vars
             PROVE  ExecutorInvariant'
  OBVIOUS
<1>1. ASSUME NEW c \in Callers,
             \/ \E request \in Requests : Submit(c, request)
             \/ LookupBatch(c) \/ LookupMember(c) \/ MemberHistory(c)
             \/ LookupRecord(c) \/ RecordHistory(c)
             \/ Decide(c) \/ AppendBatch(c) \/ AppendUnsent(c) \/ RecordRefusal(c)
             \/ Drop(c)
      PROVE  ExecutorInvariant'
  <2>1. Moves(c)
    BY <1>1, SubmitMoves, LookupBatchMoves, LookupMemberMoves,
      MemberHistoryMoves,
       LookupRecordMoves, RecordHistoryMoves, DecideMoves, AppendBatchMoves,
       AppendUnsentMoves, RecordRefusalMoves, DropMoves
  <2> QED
    BY <2>1, MovesKeep
<1>2. ASSUME NEW import \in Imports, Seed(import)
      PROVE  ExecutorInvariant'
  BY <1>2, SeedKeeps
<1>3. CASE UNCHANGED vars
  <2>1. store' = store /\ refusals' = refusals /\ calls' = calls
    BY <1>3 DEF vars
  <2> QED
    BY <2>1 DEF ExecutorInvariant
<1>4. CASE Next
  BY <1>1, <1>2, <1>4 DEF Next
<1> QED
  BY <1>3, <1>4

(* The invariant holds of every reachable state, for every number of       *)
(* callers, every set of requests and imports, and every kernel the store  *)
(* is given.                                                               *)
THEOREM ExecutorSafe == Spec => []ExecutorInvariant
<1> QED
  BY InitHolds, NextKeeps, PTL DEF Spec

-----------------------------------------------------------------------------
(* What the invariant says to a caller. *)

(* What is known of a call that has answered. *)
LEMMA AnsweredFacts ==
  ASSUME ExecutorInvariant, NEW c \in Callers, Answered(c)
  PROVE  /\ calls[c] \in Call /\ calls[c].request \in Requests
         /\ MayAnswer(store, refusals, calls[c].request, Owed(calls[c]), calls[c].outcome)
<1>1. calls[c] \in Call /\ CallHolds(store, refusals, calls[c])
  BY DEF ExecutorInvariant
<1> QED
  BY <1>1 DEF CallHolds, Answered

(* Every part of the executor's state keeps its type: the store is a       *)
(* MemoryState, only refusals of the command itself are recorded, and a    *)
(* call is always at one of the awaits of batch_bound.                     *)
THEOREM ExecutorTypeOK == Spec => []TypeOK
<1>1. ExecutorInvariant => TypeOK
  BY DEF ExecutorInvariant, TypeOK, StoreHolds, RefusalsTyped
<1> QED
  BY <1>1, ExecutorSafe, PTL

(* However callers interleave, drop their futures and lose replies, the    *)
(* store they share passes verify_complete_store in every state.           *)
THEOREM ExecutorStoreVerifies == Spec => []StoreVerifies
<1>1. ExecutorInvariant => StoreVerifies
  BY StoreVerified DEF ExecutorInvariant, StoreVerifies
<1> QED
  BY <1>1, ExecutorSafe, PTL

(* A caller told "committed" holds the receipts the store keeps, for good, *)
(* of the very actions it asked for.                                       *)
THEOREM ExecutorDurable == Spec => []CommittedIsDurable
<1>1. ASSUME ExecutorInvariant
      PROVE  CommittedIsDurable
  <2>1. ASSUME NEW c \in Callers, Answered(c), calls[c].outcome.answer = "committed"
        PROVE  Receipted(store, Actions(c), calls[c].outcome.receipt.members)
    BY <1>1, <2>1, AnsweredFacts DEF MayAnswer, Actions
  <2> QED
    BY <2>1 DEF CommittedIsDurable, Receipted
<1> QED
  BY <1>1, ExecutorSafe, PTL

(* Two callers of one request hold one receipt, and at most one of them    *)
(* was told that its append was fresh.                                     *)
THEOREM ExecutorOneReceipt == Spec => []OneReceipt
<1>1. ASSUME ExecutorInvariant
      PROVE  OneReceipt
  <2> SUFFICES ASSUME NEW c \in Callers, NEW d \in Callers, c # d, Answered(c), Answered(d),
                      calls[c].request = calls[d].request,
                      calls[c].outcome.answer = "committed",
                      calls[d].outcome.answer = "committed"
               PROVE  /\ calls[c].outcome.receipt = calls[d].outcome.receipt
                      /\ calls[c].outcome.replayed \/ calls[d].outcome.replayed
    BY DEF OneReceipt
  <2> DEFINE q == calls[c].request
             a == calls[c].outcome.receipt
             b == calls[d].outcome.receipt
             kind == IF q.key.kind = "single" THEN "single" ELSE "batch"
  <2>1. /\ a \in CommitReceipt /\ a.kind = kind /\ Receipted(store, q.actions, a.members)
        /\ b \in CommitReceipt /\ b.kind = kind /\ Receipted(store, q.actions, b.members)
    BY <1>1, AnsweredFacts DEF MayAnswer
  <2>2. calls[c].outcome.replayed \/ calls[d].outcome.replayed
    <3>1. ~(Fresh(calls[c]) /\ Fresh(calls[d]))
      BY <1>1 DEF ExecutorInvariant
    <3> QED
      BY <3>1 DEF Fresh, Answered
  <2> HIDE DEF a, b, q, kind
  <2>3. /\ a.members \in Seq(RecordReceipt) /\ b.members \in Seq(RecordReceipt)
        /\ a = [kind |-> a.kind, members |-> a.members]
        /\ b = [kind |-> b.kind, members |-> b.members]
    BY <2>1 DEF CommitReceipt
  <2>4. Len(a.members) = Len(b.members)
    BY <2>1 DEF Receipted
  <2>5. \A i \in DOMAIN a.members : i \in DOMAIN b.members /\ a.members[i] = b.members[i]
    <3>1. DOMAIN a.members = DOMAIN b.members
      BY <2>3, <2>4
    <3> QED
      BY <2>1, <3>1 DEF Receipted
  <2>6. a.members = b.members
    BY <2>3, <2>4, <2>5
  <2> QED
    BY <2>1, <2>2, <2>3, <2>6 DEF a, b
<1> QED
  BY <1>1, ExecutorSafe, PTL

(* A request the store held when the call began, or took during it, is     *)
(* answered as recovered: never refused, never left uncertain.             *)
THEOREM ExecutorRetry == Spec => []RetryNeverRefused
<1>1. ASSUME ExecutorInvariant
      PROVE  RetryNeverRefused
  <2>1. ASSUME NEW c \in Callers, Answered(c), Owed(calls[c])
        PROVE  Recovers(calls[c].outcome)
    BY <1>1, <2>1, AnsweredFacts DEF MayAnswer
  <2> QED
    BY <2>1 DEF RetryNeverRefused, Owed
<1> QED
  BY <1>1, ExecutorSafe, PTL

(* A caller is told of a refusal of its command only once it is recorded.  *)
THEOREM ExecutorRefusals == Spec => []RefusalsRecorded
<1>1. ASSUME ExecutorInvariant
      PROVE  RefusalsRecorded
  <2>1. ASSUME NEW c \in Callers, Answered(c), calls[c].outcome.answer \in Recordable
        PROVE  [request |-> calls[c].request, reason |-> calls[c].outcome.answer] \in refusals
    BY <1>1, <2>1, AnsweredFacts DEF MayAnswer
  <2> QED
    BY <2>1 DEF RefusalsRecorded, Recordable
<1> QED
  BY <1>1, ExecutorSafe, PTL

(* The store changes in an append only, or in an import. *)
LEMMA OnlyAppends ==
  ASSUME Next, store' # store, \A import \in Imports : ~Seed(import)
  PROVE  \E c \in Callers : AppendBatch(c)
<1>1. \A c \in Callers, request \in Requests : Submit(c, request) => store' = store
  BY DEF Submit
<1>2. ASSUME NEW c \in Callers
      PROVE  \/ LookupBatch(c) \/ LookupMember(c) \/ MemberHistory(c)
             \/ LookupRecord(c) \/ RecordHistory(c)
             \/ Decide(c) \/ AppendUnsent(c) \/ RecordRefusal(c) \/ Drop(c)
             => store' = store
  BY DEF LookupBatch, LookupMember, MemberHistory, LookupRecord, RecordHistory,
    Decide,
     AppendUnsent, RecordRefusal, Drop
<1> QED
  BY <1>1, <1>2 DEF Next

(* Where an admitted member goes. *)
LEMMA PlacesHold ==
  ASSUME NEW st, StoreHolds(st), NEW key, NEW members, Appendable(st, key, members),
         NEW i \in DOMAIN members
  PROVE  LET x == StoredBatch(st, key, members)[i] IN
         /\ x.entry = members[i].entry
         /\ x.receipt.position.store = st.next_store_position + i - 1
         /\ x.receipt.position.store <= MaxPosition
<1> DEFINE x == StoredBatch(st, key, members)[i]
<1>1. /\ st \in MemoryState /\ key \in Key /\ members \in Seq(AppendMember)
      /\ \A s \in Subjects : HistoryHolds(st, s)
      /\ \A j \in DOMAIN members : EntryId(members[j].entry) \in RecordIds
      /\ Admission(st, members) = "ok"
  BY DEF StoreHolds, Appendable
<1>2. /\ x.entry = members[i].entry
      /\ x.receipt.position.store = st.next_store_position + i - 1
  BY <1>1, StoredFields
<1>3. ~(StorePosition(st, i) > MaxPosition)
  BY <1>1, AppendAdmitted DEF Exhausted
<1>4. st.next_store_position + i - 1 <= MaxPosition
  <2>1. st.next_store_position \in 0 .. MaxPosition + 1 /\ i \in 1 .. Len(members)
    BY <1>1 DEF MemoryState
  <2>2. st.next_store_position \in Int /\ i \in Int /\ MaxPosition \in Int
    BY <2>1, RecordedAssumption
  <2> QED
    BY <1>3, <2>2 DEF StorePosition
<1> QED
  BY <1>2, <1>4

(* Every history gains the members on its subject, in their order. *)
Gains(old, new, batch) ==
  \A s \in Subjects :
    new.histories[s].records = old.histories[s].records \o OfSubject(batch, s)

(* An append makes every history gain its members. *)
LEMMA HistoryGrows ==
  ASSUME NEW st, StoreHolds(st), NEW key, NEW members, Appendable(st, key, members)
  PROVE  Gains(st, After(st, key, members), StoredBatch(st, key, members))
<1>1. ASSUME NEW s \in Subjects
      PROVE  After(st, key, members).histories[s].records
               = st.histories[s].records \o OfSubject(StoredBatch(st, key, members), s)
  BY AfterHistory
<1> QED
  BY <1>1 DEF Gains

(* An append that changes the store appends the request whole. *)
LEMMA AppendIsWhole ==
  ASSUME ExecutorInvariant, NEW c \in Callers, AppendBatch(c), store' # store
  PROVE  LET key   == calls[c].request.key
             batch == store'.batches[key]
         IN /\ calls[c].pc = "append"
            /\ store.batches[key] = << >>
            /\ Len(batch) = Len(Actions(c))
            /\ \A i \in DOMAIN batch :
                 /\ RequestOf(batch[i].entry) = Intent(Actions(c)[i])
                 /\ batch[i].receipt.position.store = store.next_store_position + i - 1
                 /\ batch[i].receipt.position.store <= MaxPosition
            /\ \A s \in Subjects :
                 store'.histories[s].records
                   = store.histories[s].records \o OfSubject(batch, s)
            /\ \A k \in Key \ {key} : store'.batches[k] = store.batches[k]
<1> DEFINE q == calls[c].request
           members == calls[c].members
           done == append_transaction(store, q.key, members)
           stored == StoredBatch(store, q.key, members)
<1>1. calls[c].pc = "append" /\ store' = done.state
  BY DEF AppendBatch
<1>2. /\ StoreHolds(store) /\ q \in Requests /\ q.key \in Key /\ Formed(q.key, members)
      /\ Len(members) = Len(q.actions) /\ DOMAIN members = 1 .. Len(members)
      /\ \A i \in DOMAIN members : RequestOf(members[i].entry) = Intent(q.actions[i])
      /\ Actions(c) = q.actions
  BY <1>1, AppendFormed DEF Actions
<1>3. AppendOutcomes(store, q.key, members, done)
  BY <1>2, AppendCases
<1> HIDE DEF done
<1>4. Appendable(store, q.key, members) /\ store' = After(store, q.key, members)
  BY <1>1, <1>3, OutcomeFacts
<1>5. /\ store'.batches[q.key] = stored /\ Len(stored) = Len(members)
      /\ stored \in Seq(StoredRecord)
      /\ \A k \in Key \ {q.key} : store'.batches[k] = store.batches[k]
  BY <1>2, <1>4, AfterIndex
<1>6. store.batches[q.key] = << >>
  BY <1>4 DEF Appendable
<1>7. ASSUME NEW i \in DOMAIN stored
      PROVE  /\ RequestOf(stored[i].entry) = Intent(q.actions[i])
             /\ stored[i].receipt.position.store = store.next_store_position + i - 1
             /\ stored[i].receipt.position.store <= MaxPosition
  <2>1. i \in DOMAIN members
    BY <1>2, <1>5
  <2>2. /\ stored[i].entry = members[i].entry
        /\ stored[i].receipt.position.store = store.next_store_position + i - 1
        /\ stored[i].receipt.position.store <= MaxPosition
    BY <1>2, <1>4, <2>1, PlacesHold
  <2> QED
    BY <1>2, <2>1, <2>2
<1>8. Gains(store, store', stored)
  BY <1>2, <1>4, HistoryGrows
<1> HIDE DEF stored
<1> QED
  BY <1>1, <1>2, <1>5, <1>6, <1>7, <1>8 DEF Gains

(* A step appends a request whole, under a key and positions nobody had,   *)
(* or imports a boundary, or leaves the store alone.                       *)
THEOREM ExecutorAppends == Spec => AppendsWhole
<1> DEFINE Whole(c) ==
             LET key   == calls[c].request.key
                 batch == store'.batches[key]
             IN /\ calls[c].pc = "append"
                /\ store.batches[key] = << >>
                /\ Len(batch) = Len(Actions(c))
                /\ \A i \in DOMAIN batch :
                     /\ RequestOf(batch[i].entry) = Intent(Actions(c)[i])
                     /\ batch[i].receipt.position.store = store.next_store_position + i - 1
                     /\ batch[i].receipt.position.store <= MaxPosition
                /\ \A s \in Subjects :
                     store'.histories[s].records
                       = store.histories[s].records \o OfSubject(batch, s)
                /\ \A k \in Key \ {key} : store'.batches[k] = store.batches[k]
<1>1. ASSUME ExecutorInvariant, [Next]_vars
      PROVE  [store' # store /\ (\A import \in Imports : ~Seed(import)) =>
                \E c \in Callers : Whole(c)]_vars
  <2>1. ASSUME Next, store' # store, \A import \in Imports : ~Seed(import)
        PROVE  \E c \in Callers : Whole(c)
    <3>1. PICK c \in Callers : AppendBatch(c)
      BY <2>1, OnlyAppends
    <3>2. Whole(c)
      BY <1>1, <2>1, <3>1, AppendIsWhole
    <3> QED
      BY <3>2
  <2>2. CASE UNCHANGED vars
    BY <2>2
  <2> HIDE DEF Whole
  <2> QED
    BY <1>1, <2>1, <2>2
<1>2. Spec => [][store' # store /\ (\A import \in Imports : ~Seed(import)) =>
                   \E c \in Callers : Whole(c)]_vars
  BY <1>1, ExecutorSafe, PTL DEF Spec
<1> QED
  BY <1>2 DEF AppendsWhole

=============================================================================
