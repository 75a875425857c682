------------------------------- MODULE Kernel -------------------------------
(***************************************************************************)
(* The decision kernel (crates/entity-core/src/runtime.rs), abstracted to  *)
(* what a store can tell apart: a pure function from a held instance and a *)
(* command to a decision or a refusal.  A decision is the next instance,   *)
(* one revision further, with the command and the events that explain it.  *)
(* A state stands for the lifecycle state together with the fields.        *)
(***************************************************************************)
EXTENDS Integers, Sequences

CONSTANTS
  Subjects,      \* identities: the (entity, id) pairs
  States,        \* lifecycle state and fields of an instance
  Creations,     \* inputs of a create command
  Operations,    \* operations, each with its normalised arguments
  InitialState,  \* [Creations -> States]
  Lifecycle,     \* [Operations -> partial functions from States to States]
  Emits,         \* [Commands -> Nat]: how many events a command declares
  MaxRevision,   \* i64::MAX in the code: the last revision the kernel mints
  None           \* Rust's Option::None

Commands == Creations \cup Operations

Revisions == 1 .. MaxRevision

Instance == [subject : Subjects, revision : Revisions, state : States]

Event == [revision : Revisions, command : Commands, index : Nat \ {0}]

Decision == [instance : Instance, command : Commands, events : Seq(Event)]

ASSUME KernelAssumption ==
  /\ MaxRevision \in Nat \ {0}
  /\ Creations \cap Operations = {}
  /\ InitialState \in [Creations -> States]
  /\ DOMAIN Lifecycle = Operations
  /\ \A op \in Operations :
       /\ DOMAIN Lifecycle[op] \subseteq States
       /\ \A st \in DOMAIN Lifecycle[op] : Lifecycle[op][st] \in States
  /\ Emits \in [Commands -> Nat]
  /\ None \notin Instance \cup Decision

-----------------------------------------------------------------------------

(* materialize_event: one event per declaration, in declaration order, all *)
(* at the revision the decision produces.                                  *)
materialize_events(command, revision) ==
  [i \in 1 .. Emits[command] |->
     [revision |-> revision, command |-> command, index |-> i]]

(* decide_create_as: a created instance starts at revision 1. *)
create(subject, input) ==
  [instance |-> [subject  |-> subject,
                 revision |-> 1,
                 state    |-> InitialState[input]],
   command  |-> input,
   events   |-> materialize_events(input, 1)]

(* The refusals of decide: the operation does not move the held state, or  *)
(* the next revision would pass the largest the kernel supports            *)
(* (RevisionExhausted).                                                    *)
Admits(instance, operation) ==
  /\ instance.state \in DOMAIN Lifecycle[operation]
  /\ instance.revision < MaxRevision

(* decide: the accepted decision.  Defined where Admits holds. *)
execute(instance, operation) ==
  [instance |-> [subject  |-> instance.subject,
                 revision |-> instance.revision + 1,
                 state    |-> Lifecycle[operation][instance.state]],
   command  |-> operation,
   events   |-> materialize_events(operation, instance.revision + 1)]

=============================================================================
