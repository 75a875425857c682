# Entity Runtime: models, checks and proofs

TLA+ models of Entity Runtime: the kernel that decides commands and registers
definitions, the providers that store decisions, the shell and the executor that
write through them, the hybrid store that keeps two providers in step, the
Eventlog adapter, and the synchronous bridge in front of it. Every definition is
translated from the Rust source; `PROJECT.json` maps each one to its lines.

## The system

| Part | State it keeps | Operations | Hard because |
|---|---|---|---|
| Kernel: definitions and registry (`entity-core/src/definition.rs`, `validation.rs`, `registry.rs`) | the registered definitions | `register`, `replace`, `validate_all` | two descriptions of what an expression may refer to, one in the validator and one in the runtime |
| Kernel: deciding (`runtime.rs`, `truth.rs`, `number.rs`, `observed.rs`) | none: pure decisions on an instance | `create`, `decide_create_derived`, `decide`, `decide_before_load`, `load`, `complete` | what is settled before the subject is read must not change after; numbers with two notions of equality |
| Kernel: replay (`replay.rs`) | none | `replay`, `rehydrate` | definitions change between records; events are lost, repeated or reordered |
| Provider contract, memory provider (`entity-store/src/lib.rs`, `memory.rs`) | instances, events, envelopes, observations, the store-wide record-id index | `commit`, `commit_recorded`, `observe`, `commit_batch`, reads | one record id for the whole store; retries; batches that fail half way |
| Shell (`entity-shell`) | none of its own | `create`, `execute`, `observe`, `get` | load, history lookup and commit are separate calls; shells race, die and retry |
| File provider (`file.rs`) | subject documents, format marker, lock file, per-handle index | the contract's writes, acquisition, clone | several processes, stale index, I/O errors between rename and sync, power loss |
| Hybrid store (`entity-remote/src/hybrid.rs`) | two providers, a list of divergences | writes, reads, `catch_up`, `remember` under a policy | outages, lost replies, other clients of the remote, restarts, a catch-up made of many calls |
| Recorded store (`entity-store/src/asynchronous*`) | instances, histories with positions, record and batch indexes, imported boundaries | `append`, lookups, `history`, `seed_imported`, verification | five indexes that one append must move together; physical positions run out |
| Executor (`entity-executor`) | none of its own, a refusal recorder | `create`, `execute`, `observe`, `batch` | every await is a race; replies get lost; a retry may be spelled differently |
| Synchronous bridge (`entity-eventlog/src/sync.rs`) | lifecycle, bounded queue, one cell per call, the worker | calls, `shutdown`, drop | atomics, a condition variable, deadlines and panics |
| Eventlog adapter (`entity-eventlog/src/adapter*`, `encoding.rs`, `projection.rs`) | for each handle a verified model of the log and the events it appended itself | `open`, `append`, `import_anchors`, `provision`, refusal recording, reads, rebuild | planned on one read, written after others; unknown outcomes; a cached model against other writers |
| SQLite, PostgreSQL providers | database rows | the contract's writes in transactions | relies on the database's isolation |
| Queries, surfaces, CLI, MCP, docs, graphs | none | pure functions, formatting | no state between calls |

How they interact: a shell calls one provider synchronously. The hybrid store is
a provider made of two. The executor calls a recorded store asynchronously; the
Eventlog adapter is one; the bridge runs it on a thread of its own and serves
synchronous callers. Processes share the file provider's directory and the
remote side of a hybrid store.

What makes each part correct, in one line each:

* kernel: a registered definition never meets an expression it cannot resolve, an
  instance satisfies the definition that decided it, and its records rebuild it;
* providers: one record id names one document for ever, history is append-only
  and is a path of the kernel, "ok" means durable;
* shell and executor: no lost update, a retry of what was done is answered and
  never refused, one request has one effect and one receipt;
* file provider: all handles together behave as one atomic provider, and an
  acknowledged write survives;
* hybrid store: a write that lost is never silent, catch-up neither overwrites
  nor clears what it did not replicate, absence is only said of what is absent;
* Eventlog adapter: whatever interleaves, the log verifies and is what the
  recorded store's own transactions would have left, a handle serves what the log
  holds, and an answer is never a guess;
* bridge: a caller is told the truth about whether its call ran, and everything
  that waits is woken.

`PROJECT.json` lists the hazards behind these, each at its line.

## Modules

```
Kernel <- StoreContract <- StoredRuntime  <- StoredRuntimeProofs
                        <- FileStore      <- FileStoreProofs
                        <- Hybrid         <- HybridProofs
                        <- RecordedStore  <- Executor <- ExecutorProofs
                                          <- RecordedStoreProofs <- ExecutorProofs
                                          <- Eventlog <- EventlogModel <- EventlogAdapter
                                          <- RecordedStoreProofs <- EventlogProofs
EventlogAdapter <- EventlogProofs
Bridge <- BridgeProofs
Values <- Schemas <- Conditions <- Definitions <- Registry            <-\
                                               <- Decisions <- Replay <-- EntityRuntime
```

`FileStore` refines `AtomicStore`; `StoreContractProofs` has the lemmas about one
provider operation that `StoredRuntimeProofs`, `FileStoreProofs`,
`HybridProofs` and `RecordedStoreProofs` cite, and `RecordedStoreProofs` those
about one transaction of the recorded store, which `ExecutorProofs` and
`EventlogProofs` cite. The kernel in full is `Values` to
`EntityRuntime`; the stores see the reduction `Kernel`.

`Values` has the JSON values a command carries, three-valued truth (with what is
not loaded yet), numbers and instants. A number is a token and an exact value in
quarters: integer widths (`I64Max`, `U64Max`), the binary format (two bits of
mantissa, `MaxFinite`) and the span of places a sum may have (`MaxSumPlaces`) are
small, so that every width, rounding and span the code distinguishes occurs.
`Schemas` has field declarations, defaults and the validation of a document.
`Conditions` resolves references and templates and evaluates conditions, with
the subject loaded and before. `Definitions` is what registration refuses, check
by check; `Registry` is `validate_all`. `Decisions` is `create`, the derived
creation, `execute` and the three steps of a prepared operation, in the code's
order and with its errors. `Replay` is `replay` of records and `rehydrate` of
events. `EntityRuntime` puts them to use: `Register`, `Replace`, `Create`,
`CreateDerived`, `Import`, `Execute`, `Prepare`, `LoadSubject`, `Complete`, over
one instance whose records are kept, so that definitions are replaced between
decisions and other commands come between the steps of a prepared one.

`Kernel` reduces a definition to what stores can tell apart: which state a
creation starts in, which operation is admitted in which state (`Lifecycle`),
how many events a command emits, and the largest revision. Fields, conditions and
calculated values are part of the abstract command.

`StoreContract` is the memory provider as pure operators from a store and a
write to a store and an answer: `commit`, `commit_recorded`, `observe`, `check`,
the reads. Documents are records; equality of canonical bytes is equality.

`StoredRuntime` lets any number of shells run over one provider. A request is
`Submit`ted; `Create` and `Observe` are one provider call; an execute is `Get`
(load), `History` (the lookup that recognises a retry, then the kernel's
decision) and `Commit`. `Leave` is a shell that dies or takes its answer.
`Plan` collects a batch and `BatchBegin`, `BatchEntry`, `BatchSwap` are
`commit_batch` on its clone.

`FileStore` splits each write at its I/O: `Begin` (validation), `Lock` (the
exclusive lock, the epoch byte, whether the cached index may be kept),
`DecideWrite` (lookup, revision check, new document), `Stage` (marker and
temporary file), `Install` (rename), `Sync` (directory sync, `remember`).
`Acquire`, `AcquireSubject`, `Acquired` are the importer under a shared lock.
A `setup` fixes what is written, where I/O may fail (`faults`) and whether a
process (`Crash`) or the machine (`PowerCut`) may stop. `AtomicStore` is the
abstract provider: writes take effect one at a time (`Apply`), with the effect
`StoreContract` gives them, become durable at some later moment (`Settle`), and a
power cut may undo, subject by subject, what has not. `AsStore` maps a directory
to its store.

`Hybrid` has two contract stores. A write is `First` and `Second`, in the order
and with the error handling of the policy; `catch_up` is one step for each call
it makes on either side (`ReadRecords` ... `Mirror`, names follow the code's
steps), so that `OtherClient` and `Flip` (a side stops or resumes serving) can
come between any two. `Restart` ends the process between two calls or in the
middle of a `catch_up`; the next one is given, through `remember`, the
divergences the caller had written down, those already delivered among them.
Reads are operators evaluated in every state, under every read path.

`RecordedStore` is the asynchronous store as operators: `append_transaction`
with its overlay, positions and five indexes, `seed_imported`, and the
verification functions the store and the executor run. `Executor` has a step for
each await of `batch_bound`: `LookupBatch`, `LookupMember`, `MemberHistory`,
`LookupRecord`, `RecordHistory`, `Decide`, `AppendBatch` (whose reply may be
lost), `AppendUnsent`, `RecordRefusal`; `Drop` abandons the future anywhere.

`Eventlog` is what the adapter keeps in a log: reference events, the blobs they
name and the rows its inline projector folds them into. The log itself is
external and taken as the code uses it: streams with expected versions, groups
that are committed whole after a guard has looked at the rows in the same
transaction, commands that are recognised when repeated. `EventlogModel` builds
the verified model of a capture, whole or by advancing an earlier one.
`EventlogAdapter` has callers that share handles, and one step for each provider
call: the read of an append (keys, streams, rows again, repeated when they moved,
a complete capture in the end), planning, the upload of blobs, the write with its
guard, the reply that may be lost, and the probes that settle an
unknown outcome. `Land` is a group that arrives after its caller has stopped
waiting.

`Bridge` has a step for each atomic access, lock and wait. `Open` succeeds,
fails or panics; `Started` is the starter that gets the bridge or joins the
worker. The caller: `Reenter` (a call the provider makes of its own bridge),
`Admit`, `Count`, `Send`, then `Look` (under the cell's lock), `Sleep`, `Stir` (a
spurious wake-up), `TimeUp`, `Expire`. The worker: `Receive`, `Inspect`,
`Dispatch`, `Drive`, then `SetResult`, `Publish`, `Notify`, the three writes of
`Cell::complete`, `Check`, and `Drain`, `Cancel`, `Retire` on its way out. The
owner: `Shutdown`, `Signal`, `Joined`, `GiveUp`, `Drop`. `shutdown` takes
`&mut self`, so no call is inside the bridge while it runs.

The last section of `StoredRuntime`, `FileStore`, `Bridge` and `Hybrid` states,
conjunct by conjunct, the inductive invariant that the proofs use; `ExecutorProofs`
and `EventlogProofs` begin with theirs.

Operators named `X_Something` next to an `X` are plausible mistakes in `X`; each
property has one that violates it, which shows that the property can see the
code it is about.

## Runs

| Run | Question | Instance |
|---|---|---|
| `shells` | do two shells that race, die and retry, and a caller of `commit_batch`, keep the contract? | 2 subjects, 2 shells, 3 record ids, 3 revisions, 2 creations and 2 operations, batches of 2 (698,000 states) |
| `file` | do two handles implement `AtomicStore` through errors, deaths, clones and power cuts; are acquisitions snapshots? | 2 entities, 7 writes that compete for ids and revisions with process deaths, and 3 writes with power cuts; an empty and a migrated root; 3 epochs (207,000) |
| `file_sync_fault` | what if the directory sync fails? (violation) | fault `directory` only |
| `hybrid` | is any loss silent, overwritten or wrongly cleared; are reads honest; does catch-up end? | every policy; a rival, an outage and lost replies over 1 subject; restarts over 2 subjects, recorded and legacy; recorded decisions of 2 subjects with lost replies; 2 divergences (393,000) |
| `hybrid_suffix` | is a divergence cleared only when what it names arrived, behind an unrecorded decision too? (violation) | 1 subject, a recorded and a legacy decision and an observation |
| `executor` | do two callers with lost replies, dropped futures and other spellings get one effect, one receipt and the truth? | 2 subjects, 3 record ids, 2 named batches, 2 revisions, 2 store positions, room for 1 refusal, 1 import (433,000) |
| `bridge` | is every caller told the truth, and woken; is shutdown reached? | 2 calls with deadlines, queue of 1, failing start-ups, panics, both modes, timed-out shutdowns (21,200) |
| `bridge_wakeup` | does a call that waits `Forever` return? (violation) | 1 call |
| `bridge_shutdown` | does a `shutdown` that waits `Forever` return? (violation) | 2 calls, queue of 1 |
| `eventlog` | does the log stay what the recorded store would have made of it, and is every answer true? | 2 callers of one handle, 2 calls each, 4 appends that share ids, 2 imports, 2 authorities, a refusal; blobs bound with the group or before it; a provider that answers or one that loses, delays and fails calls (245,000) |
| `kernel` | is what is decided sound, replayable, foldable, the same by either path, and resolvable? | definitions of three semantics with every condition, outcome, fulfilment and identity form, defective ones, 2 registrations, 3 decisions (18,700) |
| `registry_versions` | may two versions of one entity coexist? (violation) | 2 versions with one relation, and its target |

The bounds are the smallest in which every hazard happens. Two actors are enough
for the races, which are all between one step of one and one of another on the
same subject or id; two subjects are needed for store-wide identity; three
revisions let a retry be behind by one and by two; one queue slot makes "full"
and "last request" coincide; two store positions let a batch of two fit, and a
later one fail on its second member; two registrations replace a definition once
and three decisions put a record before and after that. `MaxEpoch` cuts the
number of writes to a root, `MaxDivergences` the outstanding divergences,
`MaxRefusals` the recorder (a full recorder is an error path of the code),
`MaxCalls` the calls of a caller, `max_events` and its companions the capture
limits (reaching them is an error path too). Runs with `CHECK_DEADLOCK FALSE` are
those in which callers may simply have nothing left to ask. Symmetry is used only
over shells, handles and callers, and only for invariants and action properties.

`TypeOK` of every module has been checked over the same instances and is left
out of the runs. It is proved for the shells, the bridge and the file provider.

### Fairness

* `hybrid`: a call under way finishes (weak fairness of each step), and the shell
  calls `catch_up` again and again (strong fairness, as it can only be called
  between writes). `CatchUpDrains` assumes that both sides serve for good from
  some moment on, and that the process is not stopped again and again. Nothing
  else is fair: writes and outages need not happen.
* `bridge*`: threads that can run do; the worker eventually gets a cell's lock
  that is released again and again (strong fairness of `SetResult`); a deadline
  passes whatever the waiter does meanwhile (strong fairness of `TimeUp`); the
  provider ends what it begins; an owner whose shutdown timed out asks again.
  A spurious wake-up (`Stir`) is possible and never fair: the code may not count
  on one.

### What the runs show

All properties of the passing runs hold. Five runs end in a counterexample,
each against a sentence of the repository's own documentation:

* **`file_sync_fault`**: `write_subject` reports an error of `sync_directory`
  although the rename before it has installed the document. `remember` is then
  skipped while the handle's epoch still matches, so the same handle later
  believes the record id is free and gives it to another subject.
* **`bridge_wakeup`**: `Cell::complete` stores the result under the lock, then
  releases it, then publishes `COMPLETED` and notifies. A waiter that looked
  before and sleeps after has missed the only notification; with `Forever` it
  never returns, with a deadline it is told "unknown" of a call that completed.
* **`bridge_shutdown`**: the shutdown's `Wake` is sent with `try_send` into a
  channel of exactly `queue_capacity`. If it is full, `Wake` is lost; if the
  last queued request was cancelled by its deadline, the worker skips the exit
  test and blocks in `recv`, on a channel whose sender lives in the bridge.
* **`hybrid_suffix`**: `reconcile_divergence` restores observations up to the last
  recorded revision (`hybrid.rs:461`) and mirrors an unrecorded suffix after that,
  without restoring the observations of the revisions it adds. The divergence of
  such an observation is cleared by the catch-up that never delivered it.
* **`registry_versions`**: `validate_all` collects the relations of every version
  of an entity. Two versions that declare the same relation claim its field, or
  its owned target, twice, and the registry is refused as a whole; the
  documentation describes such versions as the way a definition is rolled out.

Limits seen with the same modules by changing one constant, and not claimed:

* `FileStore`, `process_crashes` and `power_cuts` together: a process killed
  between rename and `sync_directory` leaves an unsynced document; a retry is
  answered "ok" from it without a sync (`file.rs:812`), and a power cut then
  loses an acknowledged write. With `AncestorsDurable = FALSE`, a new entity
  directory whose parent was never synced (`file.rs:296`) is lost the same way.
* `Hybrid`, lost replies without a rival: a remote write that
  landed without its reply leaves the sides different with nothing recorded
  (`hybrid.rs:791`). `NeverSilent`, which speaks of what the local side holds
  alone, still holds.
* `Hybrid`, a rival of a subject without envelopes: `reconcile` loads the
  instance and then the events (`hybrid.rs:513`); a write in between mirrors a
  pair that never existed together.
* `Hybrid`, another client that commits the very same envelope: between the read
  of the last record held (`hybrid.rs:421`) and that of all of them
  (`hybrid.rs:428`) the destination can receive it. The revision believed is
  then stale, an observation of it is "not due" (`hybrid.rs:471`), and the
  divergence that names the observation is cleared without delivering it:
  `ClearedIsReplicated` fails. `NeverSilent` held in that instance, where the
  divergence of the record was still outstanding. `Apart` excludes it.
* `Hybrid`, a process that stops between the two halves of a write: the code
  keeps no note of a write under way, so the sides differ and nothing says so.
  `Restart` therefore happens between writes.
* `remote_first` with `serve_stale` lists the ids and events of a cache as they
  are (`hybrid.rs:580`), empty or not; `ReadsAreHonest` excludes that policy.
* The Eventlog adapter's guard of a single append answers `RecordConflict` whenever
  a row exists under its identity: an append planned before a named batch
  committed the very same record, and written after, is refused although nothing
  differs. Asked again, it is answered from the record.
* Executor: a caller that found nothing, and then loads the state its own twin
  has just advanced, is refused with a revision conflict, which is recorded. Its
  retry is answered with the receipt.
* `rehydrate` takes the fields of a creation from its events and never applies
  defaults, so a fold of given events can reach states that `create` does not
  produce; `FoldIsExact` speaks of histories that were really decided.

## Proofs

The theorems hold for every value of the constants: any sets of subjects, shells,
handles, calls and record ids, any writes, policies and failures, every
lifecycle and every bound. The only assumptions are the named ones of the
modules that declare the constants (the constants have their types, the markers
`None`, `Absent` and `Blank` are not values, a revision limit is at least 1, a
queue has at least one slot, a write expects a revision before the one it
brings, an append request has passed `AppendRequest::validate`). Where a theorem has a condition of its own, it is listed with it.

| Theorem | Statement |
|---|---|
| `StoredRuntimeProofs` `Inductive`, `TypeCorrect` | `Spec => []InductiveInvariant`, `Spec => []TypeOK` |
| `RecordIdentity`, `HistoryPath`, `OkDurable` | `Spec => []RecordIdsUnique`, `[]HistoryIsKernelPath`, `[]OkIsDurable` |
| `AppendOnly` | `Spec => HistoryAppendOnly` |
| `UpdatesKept` | `Spec => NoLostUpdate` |
| `RetryInductive`, `RetriesAnswered` | `Spec => [](InductiveInvariant /\ RetryHolds)`, `Spec => RetryNeverRefused` |
| `BatchesLandWhole` | `Spec => BatchAllOrNothing` |
| `BridgeProofs` `Safety`, `TypeCorrect` | `Spec => []InductiveInvariant`, `Spec => []TypeOK` |
| `ToldTheTruth`, `NoneLeftBehind` | `Spec => []AnswersAreTrue`, `Spec => []NobodyStranded` |
| `FileStoreProofs` `Inductive`, `TypeCorrect` | `Spec => []BaseInvariant`, `Spec => []TypeOK` |
| `Snapshot` | `Spec => []AcquisitionIsSnapshot` |
| `KeptInductive`, `AcknowledgedKept` | `Spec => []KeptInvariant`, `Spec => [](Recoverable => AcknowledgedSurvives)` |
| `IdsInductive`, `IdsAreGlobal` | `Spec => []IdInvariant`, `Spec => [](Synced => RecordIdsGlobal)` |
| `AnswersAsContract` | `Spec /\ Synced => AnswersFollowContract` |
| `Implements` | `Spec /\ Reliable => ImplementsContract` |
| `HybridProofs` `Inductive` | `Spec => []HybridInvariant` |
| `HonestReads` | `Spec => []ReadsAreHonest` |
| `RemoteFirstIsNeverSilent` | `Spec => [](WriteOrder[1] = "remote" => NeverSilent)` |
| `MergesNothing` | `Spec => NoForeignOverwrite` |
| `SteadyInductive` | `Spec => []SteadyInvariant` |
| `NoSilentLoss` | `Spec /\ Apart /\ NoSuffix => []NeverSilent` |
| `ClearedWasReplicated` | `Spec /\ Steady => ClearedIsReplicated` |
| `DisagreementRecorded` | `Spec /\ NoSuffix => []DisagreementIsRecorded` |
| `ExecutorProofs` `ExecutorSafe`, `ExecutorTypeOK` | `Spec => []ExecutorInvariant`, `Spec => []TypeOK` |
| `ExecutorStoreVerifies` | `Spec => []StoreVerifies` |
| `ExecutorDurable`, `ExecutorOneReceipt` | `Spec => []CommittedIsDurable`, `Spec => []OneReceipt` |
| `ExecutorRetry`, `ExecutorRefusals` | `Spec => []RetryNeverRefused`, `Spec => []RefusalsRecorded` |
| `ExecutorAppends` | `Spec => AppendsWhole` |
| `EventlogProofs` `AdapterSafe`, `AdapterAnswersAreTrue` | `Spec => []AdapterInvariant`, `Spec => []AnswersAreTrue` |

`StoreContractProofs` shows what one provider operation does: `commit`,
`commit_recorded` and `observe` keep the store's type, keep `IndexIsExact` (the
index names exactly the entries of the histories), extend the store
(`Extends`: no record, observation, event or id is rewritten), advance it
(`Advances`: instances only move to later revisions) and keep `IsKernelPath`.

**Shells.** The properties are not inductive by themselves: that a history stays
a kernel path depends on what a shell loaded before other shells moved on, and
that a record id stays unique depends on the index agreeing with the histories.
`InductiveInvariant` therefore adds `IndexIsExact`, `CallConsistent` (a loaded
instance is not ahead of the store and equals it while the revision is the same;
a pending commit is the sealed decision on the loaded instance; an "ok" is
durable) and `BatchConsistent` (the clone a batch works on has only moved on from
the store, which nobody else can write meanwhile). A lost update is impossible
because the commit's expectation then pins the loaded instance to the stored one.
That a retry is answered needs `RetryHolds` as well: what is recorded on the
revision a shell has loaded was decided on the very instance it loaded, so the
record its retry finds is the one it would decide again. That a batch lands
whole is shown with `AppliedHolds`: what the entries before the next one did is
still in the clone.

**Bridge.** The invariant says that a call is in one place (`OnePlace`: in the
channel, among the requests the worker took aside, in its hand, or nowhere), that
its cell and the worker's step agree (`CellsAgree`, `WorkerAgrees`), that the
admission counter counts the calls in line (`LineIsCounted`, a cardinality),
that nothing enters behind the last drain (`DrainHolds`), and what the start-up
and the shutdown handshakes may leave (`StartHolds`, `AdmissionHolds`,
`WaitersHold`, `CheckpointHolds`). `NobodyStranded` follows from `DrainHolds`,
`WaitersHold` and `CheckpointHolds`.

**File provider.** `BaseInvariant` relates calls to the lock (one writer, or
readers), to the temporary file, the epoch and the documents: what a call staged
is the write applied to the document as it is now, which is why the check made
before staging still counts at the rename. `IdInvariant` adds that an index
a handle *would trust* (its epoch is the current one) is a scan of the documents.
It needs `Synced`: the run `file_sync_fault` shows that it fails otherwise.
`KeptInvariant` says that the documents and their durable copies differ only
under a sync that is under way. It needs `Recoverable`: when power may be cut,
directories must be synced, their parents be durable, and no process may die
between the rename and its sync; "Limits" above has the counterexamples. The
refinement maps a directory to its store (`AsStore`) and shows that `Install` is
`Apply`, `Sync` is `Settle`, `PowerCut` is the contract's own loss of what had
not settled, and that every other step is a stutter. It needs `Reliable`, that is
`Synced` and durable parents, and no more: a process may die anywhere.

**Hybrid store.** Any number of writes of other clients may come between two
calls of a catch-up, so what it read earlier is only known to be a *prefix* of
what the remote holds now. The invariant keeps that (`HistoryRead`), that the
destination is at the revision believed or past it, and is the decision's result
while it is there (`Believed`), that what was replayed has arrived
(`Arrived`, `AllReplayed`), that the next record is one step on (`OneStepOn`), and
that a local store is moved by the catch-up alone (`LocalStays`, `Loaded`).
`MergesNothing` follows: a replay writes at the believed revision, where the
instance is known, and a mirrored instance cannot replace one that is past every
record, as those have arrived and cover it (`Covered`). `NeverAhead` carries
`NeverSilent` for the policies that write the remote first. The proofs speak of
stores *without* their unrecorded events (`Bare`, `Shaped`), which no property
here tells apart and whose selection from a sequence the prover cannot follow.

What catch-up *achieves* needs a second invariant, over the side written first
(`Leader`). `SteadyInvariant` says that the leader's recorded decisions are the
store's own and the last of them is where it stands (`OwnRecords`), that what a
catch-up read is still what the leader holds (`AsRead`), that the revision
believed covers every record that has arrived (`BelievedCovers`), that no
observation is skipped as not due (`Restoration`), and that a follower is only
called caught up when it is (`Caught`). What is outstanding was written, and no
divergence is dropped between a catch-up and the next process (`Listed`); what
is not outstanding has followed, but for the half of a write under way
(`AllFollowed`). It holds of a `Steady` store: a local one that is written first,
or one that is alone and gets its answers, whose recorded decisions nobody else
commits (`Apart`) and where no unrecorded decision follows a recorded one
(`NoSuffix`). `NoSilentLoss` joins it with `NeverAhead`, so `NeverSilent` holds
in both write orders; `ClearedWasReplicated` says that a cleared divergence was
delivered. `QuietInvariant` adds, for a store that is alone and loses no reply,
that the follower has no decision of its own (`Backed`) and that a write between
its halves has moved the leader, unless it is a retry of what both hold
(`HalfMoved`); sides that differ then have a divergence that says so, which is
`DisagreementRecorded`. What a catch-up clears depends on these conditions:
without `NoSuffix` the run `hybrid_suffix` refutes `ClearedIsReplicated`,
and without `Apart` "Limits" has an instance that does. All three setups of the
run `hybrid` satisfy `NoSuffix` and `Apart`.

**Recorded store and executor.** That a store *verifies* is not inductive: the
verifier reads a history and believes the index, and an append is only safe
when the two agree. `StoreHolds` is what an append keeps: every record of a
subject is a valid entry on the state before it and the last state is the one
served (`HistoryHolds`), the index names every record and piece of evidence by
its id and nothing else (`IndexNames`, `Named`), a batch is its records at
consecutive positions (`BatchHolds`), and a record is in its batch and below the
next position, which no two records share (`RecordsPlaced`). `AppendKept` and `SeedKept` show that one `append_transaction` and
one `seed_imported` keep it and only add to the store (`Grows`); the hard part is
that the members of a batch may decide on one another, so the state a history
reaches is followed member by member (`StateReached`). `StoreVerified` shows
that `StoreHolds` implies what `verify_complete_store` checks.

On top of it, `ExecutorInvariant` follows a debt: once the store holds a request
(before the call began, or by an append whose reply was lost), it is `Owed`, and
the call can no longer be where it would decide anew (`Unowed`), nor find the
key, a member or a record wanting on its way through recovery (`BatchChecked`,
`RecordChecked`). What a call holds stays true while others append because stores
only grow (`CallStays`). A fresh answer means the key was free just before, so
two callers are never both fresh on it (`Fresh`), which gives `OneReceipt`.

**Eventlog adapter.** `AnswersAreTrue` says two things that no single step shows.
A committed answer is built from a *model*, which may have been made of a capture
that is long out of date, reused by another caller, or advanced by the handle's
own events; a call answered `NotCommitted` may have a write under way that lands
later. `AdapterInvariant` therefore says of the log what the adapter's groups put
there (`LogHolds`: every event is the body its command stands for, a command is
recorded under one hash, the binding is recorded once); of a handle, that the log
it verified is the beginning of the log as it is now (`Continues`) and that its
model says what those events say (`ModelHolds`); and of a call, step by step, what
it takes for granted (`CallHolds`): a plan or an upload has written nothing and has
nothing under way (`Unpublished`, `Unwritten`), an `ok` or a deduplicated append is
in the log under its own command (`RecordedFor`), every import still asked for is in
the log or in the group to be written (`PendingHolds`). `LateHolds` keeps what is
under way tied to the operation that began it, so that an answer given without
it is known not to be contradicted by it; the one group that may still be under way
behind a `NotCommitted` is a binding that will find another one (`AnswerHolds`).
The long part is that building, advancing and reusing a model each keep
`ModelHolds`: that the records of a batch are found at the places of its group
is what makes a receipt point at the entries the caller sent.

Only model-checked, and why:

* Liveness (`CatchUpDrains`, `CallsReturn`, `ShutdownJoins`): the prover has no
  fairness.
* `EventsReadInOrder` of the shells: sorting and flattening are folds over a
  sequence, and what they compute is induction over data.
* The hybrid store outside the conditions of its theorems:
  `NeverSilent` of a local store written first whose recorded decisions another
  client commits too, or that has an unrecorded decision behind a recorded one;
  `ClearedIsReplicated` of a remote written first with rivals or lost replies
  (the run `hybrid` checks it there).
* `NoFalseAlarm`, `LogVerifies`, `RecordedCommandAnswers`, `ServedModelIsLog` and
  `AppendsFollowContract` of the Eventlog adapter: each compares the log with a
  model or with rows that are built from *all* of its events, by folds over their
  sequence; that a row is there for every event folded, or that a build of a
  longer log extends that of a shorter one, is induction over data.
* `Values` to `EntityRuntime`: values and conditions nest, their modules use
  `RECURSIVE` operators, and the prover cannot reason about those.

## Not modelled

* Eventlog adapter: the policy `ProviderTracked` (`tracked.rs`), cost accounting,
  forks and lineage, `VerifiedMemory` (a cache of decoded bytes), bounded pages
  and the contents of open checkpoints (`Bridge` has the moment one is written).
* Eventlog facade and the remote protocol's encodings: they translate arguments
  and results.
* Record reads of the hybrid store, which ask the authority and nothing else.
* Executor: lineage merges, explicit definition versions, corrupted bytes.
* SQLite and PostgreSQL providers: their atomicity is the database's. The
  advisory locks of the PostgreSQL provider are listed among the hazards and not
  covered.
* Digits and calendar text of numbers and timestamps, patterns of checked text,
  byte layouts and digests; which of several defects a validation lists first.
* Legacy import (a one-shot conversion; the root it leaves is an initial state of
  `FileStore`), projections, queries, the conformance suite, surfaces, CLI, MCP,
  graphs, YAML and documentation tools: pure functions, text or test code.

## Plan

1. Done: `Kernel`, `StoreContract`, `StoredRuntime` with proofs; `FileStore`
   against `AtomicStore`; `Hybrid` with restarts; `RecordedStore` and `Executor`;
   `Bridge` with its start-up; the Eventlog adapter against the recorded store's
   transactions; the kernel from values to replay.
2. Done: the proofs of the shells, the bridge, the file provider and its
   refinement, the hybrid store, the recorded store, the executor and the answers
   of the Eventlog adapter, and what a hybrid store's catch-up achieves in either
   write order. Next: `ClearedIsReplicated` of a remote written first that others
   write too.
3. Models that remain worth writing: `ProviderTracked` reads of the adapter, and
   PostgreSQL's locks as a provider that refines `AtomicStore`.
