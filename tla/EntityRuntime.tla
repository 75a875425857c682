--------------------------- MODULE EntityRuntime ----------------------------
(***************************************************************************)
(* The kernel in use (crates/entity-core/src: Registry, Runtime, Prepared- *)
(* Operation, PreparedOutcome, Decision): definitions are registered and   *)
(* replaced, an instance is created or imported, and commands are decided  *)
(* on it, at once or in the three steps of a caller that must load the     *)
(* subject and fulfil fields, with other commands in between.  The kernel  *)
(* keeps nothing: the instance and its records are what the caller keeps.  *)
(*                                                                         *)
(* A definition is known by its name in Candidates, so that the copies the *)
(* records carry stay small in the state.                                  *)
(***************************************************************************)
EXTENDS Replay, Registry

CONSTANTS
  Candidates,     \* name |-> the definition and the inputs commands carry:
                  \* [definition, ids, inputs, arguments, actions, imports]
  MaxRegistered,  \* bound: registrations and replacements
  MaxRecords      \* bound: decisions kept of the one instance

VARIABLES
  registry,   \* names of the registered definitions
  installs,   \* registrations and replacements so far
  instance,   \* option: the instance the caller keeps
  records,    \* the decision records the caller keeps, oldest first
  prepared,   \* option: the operation being prepared, loaded or fulfilled
  answer      \* what the last command answered

vars == <<registry, installs, instance, records, prepared, answer>>

Definition(name) == Candidates[name].definition
Registered == {Definition(name) : name \in registry}
Valid == {name \in DOMAIN Candidates : Validated({Definition(name)}) # {}}

(* Runtime::definition *)
Named(entity, version) ==
  {name \in registry : Key(Definition(name)) = <<entity, version>>}

(* A record as kept: its snapshot by name, and the record again. *)
Keep(record, name) == [record EXCEPT !.definition = <<name>>]
Kept(record) ==
  [record EXCEPT !.definition = IF record.definition = <<>> THEN <<>>
                                ELSE <<Definition(record.definition[1])>>]
History == [i \in DOMAIN records |-> Kept(records[i])]

Idle == <<"idle">>

Init ==
  /\ registry = {}
  /\ installs = 0
  /\ instance = <<>>
  /\ records = <<>>
  /\ prepared = <<>>
  /\ answer = Idle

-----------------------------------------------------------------------------

(* The caller keeps an accepted decision and drops any other answer. *)
Answered(evaluation) ==
  CASE IsErr(evaluation)      -> evaluation
    [] IsRefused(evaluation)  -> evaluation[2]
    [] OTHER                  -> <<"accepted">>

Commit(evaluation, name) ==
  /\ answer' = Answered(evaluation)
  /\ IF IsAccepted(evaluation)
       THEN /\ instance' = <<RecordOf(evaluation).result>>
            /\ records' = Append(records, Keep(RecordOf(evaluation), name))
       ELSE UNCHANGED <<instance, records>>

Install(name) ==
  /\ installs < MaxRegistered
  /\ installs' = installs + 1
  /\ registry' = (registry \ Named(Definition(name).entity, Definition(name).version))
                   \cup {name}
  /\ answer' = Idle
  /\ UNCHANGED <<instance, records, prepared>>

(* Registry::register and Registry::replace *)
Register(name) ==
  /\ CanRegister(Registered, Definition(name))
  /\ Install(name)

Replace(name) ==
  /\ ~CanRegister(Registered, Definition(name))
  /\ name \notin registry
  /\ Install(name)

(* Runtime::decide_create and decide_create_derived *)
Create(name, id, input) ==
  /\ instance = <<>>
  /\ Commit(decide_create(Definition(name), id, input), name)
  /\ UNCHANGED <<registry, installs, prepared>>

CreateDerived(name, input) ==
  /\ instance = <<>>
  /\ Commit(decide_create_derived(Definition(name), input), name)
  /\ UNCHANGED <<registry, installs, prepared>>

(* Decision::legacy_import: nothing is checked, and no definition is kept. *)
Import(imported) ==
  /\ instance = <<>>
  /\ instance' = <<imported>>
  /\ records' = <<legacy_import(imported, <<>>)>>
  /\ answer' = Idle
  /\ UNCHANGED <<registry, installs, prepared>>

(* Runtime::decide, under the definition registered now. *)
Execute(name, operation, input) ==
  /\ IsSome(instance)
  /\ name \in Named(instance[1].entity, instance[1].version)
  /\ Len(records) < MaxRecords
  /\ Commit(decide(Definition(name), instance[1], operation, input), name)
  /\ UNCHANGED <<registry, installs, prepared>>

-----------------------------------------------------------------------------

(* Runtime::decide_before_load, before the subject is read. *)
PrepareAs(name, operation, id, preload) ==
  /\ answer' = IF IsErr(preload) THEN preload
               ELSE IF IsRefused(preload) THEN preload[2] ELSE Idle
  /\ prepared' = IF IsErr(preload) \/ IsRefused(preload) THEN <<>>
                 ELSE <<[name |-> name, operation |-> operation, id |-> id,
                         arguments |-> preload[2][2].arguments,
                         loaded |-> <<>>]>>

Prepare(name, operation, input) ==
  /\ IsSome(instance)
  /\ prepared = <<>>
  /\ Len(records) < MaxRecords
  /\ PrepareAs(name, operation, instance[1].id,
       decide_before_load_as(Definition(name), instance[1].id, operation, input,
                             "Checked"))
  /\ UNCHANGED <<registry, installs, instance, records>>

PreparedNow ==
  Prepared(Definition(prepared[1].name), prepared[1].id, prepared[1].operation,
           prepared[1].arguments, "Checked")

(* PreparedOperation::select_with, over the subject as it is now. *)
LoadAs(selected) ==
  IF selected = NeedsFulfillment
    THEN /\ prepared' = <<[prepared[1] EXCEPT !.loaded = instance]>>
         /\ answer' = Idle
         /\ UNCHANGED <<instance, records>>
    ELSE /\ prepared' = <<>>
         /\ Commit(selected, prepared[1].name)

LoadSubject ==
  /\ IsSome(prepared)
  /\ prepared[1].loaded = <<>>
  /\ Len(records) < MaxRecords
  /\ LoadAs(select_with(PreparedNow, instance[1]))
  /\ UNCHANGED <<registry, installs>>

(* PreparedOutcome::complete: the decision is about the subject as it was  *)
(* loaded, and the caller keeps it only over that revision.                *)
CompleteAs(decided) ==
  IF IsAccepted(decided) /\ instance # prepared[1].loaded
    THEN answer' = Idle /\ UNCHANGED <<instance, records>>
    ELSE Commit(decided, prepared[1].name)

Complete(actions) ==
  /\ IsSome(prepared)
  /\ IsSome(prepared[1].loaded)
  /\ prepared' = <<>>
  /\ CompleteAs(complete(PreparedNow, prepared[1].loaded[1], actions))
  /\ UNCHANGED <<registry, installs>>

Next ==
  \/ \E name \in Valid : Register(name) \/ Replace(name)
  \/ \E name \in registry :
       \/ \E input \in Candidates[name].inputs :
            \/ \E id \in Candidates[name].ids : Create(name, id, input)
            \/ CreateDerived(name, input)
       \/ \E imported \in Candidates[name].imports : Import(imported)
       \/ \E operation \in DOMAIN Candidates[name].arguments :
            \E input \in Candidates[name].arguments[operation] :
              Execute(name, operation, input) \/ Prepare(name, operation, input)
  \/ LoadSubject
  \/ \E name \in registry : \E actions \in Candidates[name].actions : Complete(actions)

Spec == Init /\ [][Next]_vars

-----------------------------------------------------------------------------

(* The registry holds one definition under each key, the instance is the   *)
(* result of the last record, and every answer is one the kernel has.      *)
TypeOK ==
  /\ registry \subseteq DOMAIN Candidates
  /\ \A d, e \in Registered : Key(d) = Key(e) => d = e
  /\ installs \in 0 .. MaxRegistered
  /\ IsSome(instance) <=> records # <<>>
  /\ records # <<>> => instance = <<records[Len(records)].result>>
  /\ \A i \in DOMAIN records : records[i].revision = records[1].revision + i - 1
  /\ IsErr(answer) => answer[2] \in CoreErrors

LastDefinition == Definition(records[Len(records)].definition[1])

(* Whatever was decided, created or fulfilled, and by whichever path, the  *)
(* instance satisfies the definition that decided it last: its schema, its *)
(* invariants, its lifecycle, and the address its identity field derives.  *)
(* An import is not held to anything until a command is decided on it      *)
(* (runtime.rs, decide_create_as and decide_with_fulfillments).            *)
InstanceSound ==
  records # <<>> /\ records[Len(records)].definition # <<>> =>
    LET held == instance[1]
        context == TemplateContext(LastDefinition, <<held.id>>, EmptyMap, <<>>,
                     EmptyMap, held.fields, <<>>, held.lifecycle_state) IN
    /\ validate_object_under(LastDefinition.schema, held.fields,
                             LastDefinition.semantics)
    /\ held.lifecycle_state \in States(LastDefinition)
    /\ check_invariants(LastDefinition, context) = "none"
    /\ check_identity_mirror(LastDefinition, held)
    /\ held.revision <= I64Max

(* The records alone rebuild the instance, each under the definition it    *)
(* carries, whatever has been registered since and however the identity,   *)
(* the defaults or the fulfilled fields came about; a history that begins  *)
(* with an import is refused (replay.rs, replay).                          *)
ReplayReproduces ==
  LET expected(rebuilt) ==
        IF records[1].definition = <<>> THEN IsErr(rebuilt)
        ELSE rebuilt = Ok(instance[1]) IN
  records # <<>> => expected(replay(History))

EventsOf(kept) ==
  LET RECURSIVE Flat(_)
      Flat(rest) == IF rest = <<>> THEN <<>> ELSE Head(rest).events \o Flat(Tail(rest))
  IN Flat(kept)

(* One definition decided the whole history, from a creation on. *)
UnderOneDefinition ==
  /\ records # <<>>
  /\ records[1].definition # <<>>
  /\ \A i \in DOMAIN records : records[i].definition = records[1].definition
  /\ ~has_service_semantics(LastDefinition.semantics)

Without(sequence, i) ==
  SubSeq(sequence, 1, i - 1) \o SubSeq(sequence, i + 1, Len(sequence))
Twice(sequence, i) == SubSeq(sequence, 1, i) \o SubSeq(sequence, i, Len(sequence))
Swapped(sequence, i) ==
  [sequence EXCEPT ![i] = sequence[i + 1], ![i + 1] = sequence[i]]

FoldAnswers(folded) ==
  LET telling == {i \in DOMAIN records : records[i].events # <<>>} IN
  /\ ~IsErr(folded) => \E i \in telling : folded[2] = records[i].result
  /\ ~IsErr(folded) <=> telling # {} /\ \E n \in DOMAIN records : telling = 1 .. n

FoldedBefore(folded) ==
  IsErr(folded) \/ \E i \in 1 .. Len(records) - 1 : folded[2] = records[i].result

FoldRefusesDamage(events) ==
  LET damaged == {Without(events, i) : i \in DOMAIN events}
                   \cup {Twice(events, i) : i \in DOMAIN events}
                   \cup {Swapped(events, i) : i \in 1 .. Len(events) - 1} IN
  \A sequence \in damaged \ {events} :
    FoldedBefore(rehydrate(LastDefinition, sequence))

(* A fold of the events never invents: it answers the instance as the last *)
(* event left it, whenever no decision before that event was silent, and   *)
(* refuses otherwise; events that were lost, delivered twice or reordered  *)
(* are refused or answer an instance the history really went through       *)
(* (replay.rs, rehydrate).                                                 *)
FoldIsExact ==
  UnderOneDefinition =>
    /\ FoldAnswers(rehydrate(LastDefinition, EventsOf(records)))
    /\ FoldRefusesDamage(EventsOf(records))

SameAnswer(preload, decided) ==
  decided = Err("UnknownState") \/
    CASE IsErr(preload)     -> IsErr(decided)
      [] IsRefused(preload) -> decided = preload
      [] OTHER -> continue_with(preload[2][2], instance[1]) = decided

(* Preparing a command before its subject is read never changes what is    *)
(* decided: a refusal or an error the arguments alone settle is what the   *)
(* decision over the subject answers, and the prepared operation decides   *)
(* as the direct one does (runtime.rs, decide_before_load_as).             *)
PreloadSound ==
  IsSome(instance) =>
    \A name \in Named(instance[1].entity, instance[1].version) :
      \A operation \in DOMAIN Candidates[name].arguments :
        \A input \in Candidates[name].arguments[operation] :
          SameAnswer(decide_before_load_as(Definition(name), instance[1].id,
                                           operation, input, "Checked"),
                     decide(Definition(name), instance[1], operation, input))

(* A decision's delta is the whole difference it makes: what it removed    *)
(* and what it changed turn the instance before into the one after, and    *)
(* nothing is in both (runtime.rs, changed_fields).                        *)
DeltaExplains ==
  [][Len(records') > Len(records) /\ IsSome(instance) =>
       LET record == records'[Len(records')] IN
       /\ record.removed \cap DOMAIN record.changed = {}
       /\ apply_event_changes(instance[1].fields, record.removed, record.changed)
            = instance'[1].fields
       /\ \A field \in DOMAIN record.changed :
            \/ field \notin DOMAIN instance[1].fields
            \/ instance[1].fields[field] # record.changed[field]]_vars

(* A registered definition never meets an expression it cannot resolve:    *)
(* what registration admits, the runtime can evaluate (validation.rs,      *)
(* validate_definition; runtime.rs, resolve_template).                     *)
NoTemplateFault == IsErr(answer) => answer[2] \notin TemplateFaults

(* Versions of one entity can be rolled out side by side: a registry that  *)
(* is whole stays whole when a version with the same relations is added    *)
(* (registry.rs, Registry and validate_all).                               *)
VersionsCoexist ==
  \A d, e \in Registered :
    /\ d # e /\ d.entity = e.entity /\ d.relations = e.relations
    /\ validate_all(Registered \ {e})
    => validate_all(Registered)
=============================================================================
