---------------------------- MODULE AtomicStore ----------------------------
(***************************************************************************)
(* The contract of a provider as a specification of its own: writes take   *)
(* effect one at a time, each with the effect StoreContract gives it.  A   *)
(* write settles at some later moment; a power cut may undo, subject by    *)
(* subject, what has not settled, and nothing else.                        *)
(***************************************************************************)
EXTENDS StoreContract

CONSTANTS
  Writes,        \* the writes callers make
  InitialStores  \* what the provider may hold at first

VARIABLES
  store,    \* what callers see
  settled   \* what a power cut leaves

Init == store \in InitialStores /\ settled = store

Apply(w) == store' = Perform(store, w).store /\ UNCHANGED settled

(* The subject of what a record id names. *)
Named(document) ==
  IF "note" \in DOMAIN document THEN document.subject ELSE document.instance.subject

(* The first store, with some subjects as the second has them.  Either     *)
(* store names a record id for the same document, if it names it at all.   *)
Mixed(first, second, S) ==
  LET Part(a, b) == [s \in Subjects |-> IF s \in S THEN b[s] ELSE a[s]]
      Moves(document) == document # None /\ Named(document) \in S
  IN [instances    |-> Part(first.instances, second.instances),
      events       |-> Part(first.events, second.events),
      records      |-> Part(first.records, second.records),
      observations |-> Part(first.observations, second.observations),
      record_ids   |-> [r \in RecordIds |->
         IF Moves(first.record_ids[r]) \/ Moves(second.record_ids[r])
         THEN second.record_ids[r] ELSE first.record_ids[r]]]

Settle(S) == settled' = Mixed(settled, store, S) /\ UNCHANGED store

PowerCut(S) ==
  /\ store' = Mixed(store, settled, S)
  /\ settled' = store'

(* A step that changes nothing is a stutter. *)
Next ==
  \/ store' # store /\ \E w \in Writes : Apply(w)
  \/ store' # store /\ \E S \in SUBSET Subjects : PowerCut(S)
  \/ settled' # settled /\ \E S \in SUBSET Subjects : Settle(S)

Spec == Init /\ [][Next]_<<store, settled>>

=============================================================================
