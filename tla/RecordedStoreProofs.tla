------------------------- MODULE RecordedStoreProofs -------------------------
(***************************************************************************)
(* The recorded store: what one append and one import keep, for every      *)
(* store, every batch and every kernel.                                    *)
(***************************************************************************)
EXTENDS RecordedStore, StoreContractProofs, FiniteSetTheorems

-----------------------------------------------------------------------------
(* Sets of places. *)

(* The last of a nonempty set of places. *)
LEMMA LastPlace ==
  ASSUME NEW n \in Nat, NEW T, T \subseteq 1 .. n, T # {}
  PROVE  Max(T) \in T /\ \A i \in T : i <= Max(T)
<1> DEFINE back == {n - i : i \in T}
<1>1. back \subseteq Nat /\ back # {}
  <2>1. ASSUME NEW i \in T PROVE n - i \in Nat
    <3>1. i \in 1 .. n
      OBVIOUS
    <3> QED
      BY <3>1
  <2> QED
    BY <2>1
<1>2. PICK x \in back : \A y \in back : x <= y
  <2>1. PICK x \in back : \A y \in back : ~ (<<y, x>> \in Below)
    BY <1>1, WFMin, BelowIsWellFounded
  <2>2. ASSUME NEW y \in back PROVE x <= y
    <3>1. <<y, x>> \in Nat \X Nat /\ <<y, x>>[1] = y /\ <<y, x>>[2] = x
      BY <1>1
    <3> QED
      BY <1>1, <2>1, <3>1 DEF Below
  <2> QED
    BY <2>2
<1>3. PICK m \in T : x = n - m
  OBVIOUS
<1>4. \A i \in T : i <= m
  <2>1. ASSUME NEW i \in T PROVE i <= m
    <3>1. n - i \in back
      OBVIOUS
    <3>2. n - m <= n - i
      BY <1>2, <1>3, <3>1
    <3> QED
      BY <3>2
  <2> QED
    BY <2>1
<1> QED
  BY <1>4 DEF Max

(* The places of a set that come before a place. *)
Before(T, i) == {j \in T : j < i}

(* The places before one are finitely many, fewer than all, and more for a *)
(* later one.                                                              *)
LEMMA BeforeFacts ==
  ASSUME NEW n \in Nat, NEW T, T \subseteq 1 .. n
  PROVE  /\ IsFiniteSet(T) /\ Cardinality(T) \in Nat
         /\ \A i \in T : /\ Cardinality(Before(T, i)) \in Nat
                         /\ Cardinality(Before(T, i)) < Cardinality(T)
         /\ \A i, k \in T : i < k => Cardinality(Before(T, i)) < Cardinality(Before(T, k))
<1>1. IsFiniteSet(T) /\ Cardinality(T) \in Nat
  <2>1. IsFiniteSet(1 .. n)
    BY FS_Interval
  <2>2. T \in SUBSET (1 .. n)
    OBVIOUS
  <2>3. IsFiniteSet(T)
    BY <2>1, <2>2, FS_Subset
  <2> QED
    BY <2>3, FS_CardinalityType
<1>2. \A i : IsFiniteSet(Before(T, i)) /\ Cardinality(Before(T, i)) \in Nat
  BY <1>1, FS_Subset, FS_CardinalityType DEF Before
<1>3. ASSUME NEW i \in T, NEW S, Before(T, i) \subseteq S, i \in S, S \subseteq T
      PROVE  Cardinality(Before(T, i)) < Cardinality(S)
  <2>1. IsFiniteSet(S) /\ Cardinality(S) \in Nat
    BY <1>1, <1>3, FS_Subset, FS_CardinalityType
  <2>2. i \notin Before(T, i)
    BY <1>3 DEF Before
  <2>3. Before(T, i) # S /\ Before(T, i) \in SUBSET S
    BY <1>3, <2>2
  <2>4. Cardinality(Before(T, i)) <= Cardinality(S)
        /\ Cardinality(S) # Cardinality(Before(T, i))
    BY <2>1, <2>3, FS_Subset
  <2> QED
    BY <1>2, <2>1, <2>4
<1>4. ASSUME NEW i \in T
      PROVE  Cardinality(Before(T, i)) < Cardinality(T)
  BY <1>3 DEF Before
<1>5. ASSUME NEW i \in T, NEW k \in T, i < k
      PROVE  Cardinality(Before(T, i)) < Cardinality(Before(T, k))
  <2>1. Before(T, i) \subseteq Before(T, k)
    <3>1. ASSUME NEW j \in T, j < i PROVE j < k
      <4>1. i \in Int /\ k \in Int /\ j \in Int
        OBVIOUS
      <4> QED
        BY <1>5, <3>1, <4>1
    <3> QED
      BY <3>1 DEF Before
  <2>2. i \in Before(T, k) /\ Before(T, k) \subseteq T
    BY <1>5 DEF Before
  <2> QED
    BY <1>3, <2>1, <2>2
<1> QED
  BY <1>1, <1>2, <1>4, <1>5

(* A set of places has an increasing enumeration. *)
LEMMA Enumerable ==
  ASSUME NEW n \in Nat, NEW T, T \subseteq 1 .. n
  PROVE  \E f \in [1 .. Cardinality(T) -> T] :
           \A k, m \in DOMAIN f : k < m => f[k] < f[m]
<1> DEFINE c == Cardinality(T)
           rank == [i \in T |-> Cardinality(Before(T, i)) + 1]
           f == [m \in 1 .. c |-> CHOOSE i \in T : rank[i] = m]
<1>1. IsFiniteSet(T) /\ c \in Nat
  BY BeforeFacts
<1>2. \A i \in T : rank[i] \in 1 .. c
  <2>1. ASSUME NEW i \in T PROVE rank[i] \in 1 .. c
    <3>1. Cardinality(Before(T, i)) \in Nat /\ Cardinality(Before(T, i)) < c
      BY BeforeFacts
    <3>2. rank[i] = Cardinality(Before(T, i)) + 1
      OBVIOUS
    <3> QED
      BY <1>1, <3>1, <3>2
  <2> QED
    BY <2>1
<1>3. \A i, k \in T : i < k => rank[i] < rank[k]
  <2>1. ASSUME NEW i \in T, NEW k \in T, i < k PROVE rank[i] < rank[k]
    <3>1. Cardinality(Before(T, i)) < Cardinality(Before(T, k))
      BY <2>1, BeforeFacts
    <3>2. Cardinality(Before(T, i)) \in Nat /\ Cardinality(Before(T, k)) \in Nat
      BY BeforeFacts
    <3>3. /\ rank[i] = Cardinality(Before(T, i)) + 1
          /\ rank[k] = Cardinality(Before(T, k)) + 1
      OBVIOUS
    <3> HIDE DEF rank
    <3> QED
      BY <3>1, <3>2, <3>3
  <2> QED
    BY <2>1
<1>4. rank \in [T -> 1 .. c] /\ \A i \in T : i \in Int /\ rank[i] \in Int
  <2>1. ASSUME NEW i \in T PROVE i \in Int
    <3>1. i \in 1 .. n
      OBVIOUS
    <3> QED
      BY <3>1
  <2> QED
    BY <1>2, <2>1
<1> HIDE DEF rank, c
<1>5. \A i, k \in T : rank[i] = rank[k] => i = k
  BY <1>3, <1>4
<1>6. rank \in Injection(T, 1 .. c)
  BY <1>4, <1>5 DEF Injection, IsInjective
<1>7. IsFiniteSet(1 .. c) /\ Cardinality(1 .. c) = c
  BY <1>1, FS_Interval
<1>8. rank \in Surjection(T, 1 .. c)
  BY <1>6, <1>7, FS_Injection DEF c
<1>9. \A m \in 1 .. c : \E i \in T : rank[i] = m
  BY <1>8 DEF Surjection
<1>10. \A m \in 1 .. c : f[m] \in T /\ rank[f[m]] = m
  BY <1>9
<1>11. ASSUME NEW k \in 1 .. c, NEW m \in 1 .. c, k < m
       PROVE  f[k] < f[m]
  <2>1. f[k] \in T /\ f[m] \in T /\ rank[f[k]] = k /\ rank[f[m]] = m
    BY <1>10
  <2> HIDE DEF f
  <2>2. f[k] \in Int /\ f[m] \in Int /\ k \in Int /\ m \in Int
    BY <1>1, <1>4, <2>1
  <2>3. CASE f[m] <= f[k]
    <3>1. f[m] = f[k] \/ f[m] < f[k]
      BY <2>2, <2>3
    <3>2. m = k \/ m < k
      BY <1>3, <2>1, <3>1
    <3> QED
      BY <1>11, <2>2, <3>2
  <2> QED
    BY <2>2, <2>3
<1>12. f \in [1 .. c -> T] /\ DOMAIN f = 1 .. c
  BY <1>10
<1> HIDE DEF f
<1> QED
  BY <1>11, <1>12 DEF c

(* What the enumeration of a set of places is. *)
LEMMA InOrderFacts ==
  ASSUME NEW n \in Nat, NEW T, T \subseteq 1 .. n
  PROVE  LET f == InOrder(T)
             c == Cardinality(T)
         IN /\ c \in Nat
            /\ f \in [1 .. c -> T]
            /\ \A k, m \in 1 .. c : k < m <=> f[k] < f[m]
            /\ \A i \in T : \E m \in 1 .. c : f[m] = i
            /\ \A m \in 1 .. c : Cardinality(Before(T, f[m])) = m - 1
<1> DEFINE c == Cardinality(T)
           f == InOrder(T)
<1>1. IsFiniteSet(T) /\ c \in Nat /\ \A i \in T : i \in Int
  <2>1. ASSUME NEW i \in T PROVE i \in Int
    <3>1. i \in 1 .. n
      OBVIOUS
    <3> QED
      BY <3>1
  <2> QED
    BY <2>1, BeforeFacts
<1>2. f \in [1 .. c -> T] /\ \A k, m \in DOMAIN f : k < m => f[k] < f[m]
  BY Enumerable DEF InOrder
<1> HIDE DEF c, f
<1>3. \A k, m \in 1 .. c : k < m => f[k] < f[m]
  BY <1>2
<1>4. \A k \in 1 .. c : f[k] \in T /\ f[k] \in Int
  BY <1>1, <1>2
<1>5. ASSUME NEW k \in 1 .. c, NEW m \in 1 .. c, f[k] < f[m]
      PROVE  k < m
  <2>1. m = k \/ m < k \/ k < m
    BY <1>1
  <2>2. f[k] \in Int /\ f[m] \in Int
    BY <1>4
  <2>3. m < k => f[m] < f[k]
    BY <1>3
  <2> QED
    BY <1>5, <2>1, <2>2, <2>3
<1>6. \A k, m \in 1 .. c : f[k] = f[m] => k = m
  <2>1. ASSUME NEW k \in 1 .. c, NEW m \in 1 .. c, f[k] = f[m]
        PROVE  k = m
    <3>1. m = k \/ m < k \/ k < m
      BY <1>1
    <3>2. m < k => f[m] < f[k]
      BY <1>3
    <3>3. k < m => f[k] < f[m]
      BY <1>3
    <3>4. f[k] \in Int
      BY <1>4
    <3> QED
      BY <2>1, <3>1, <3>2, <3>3, <3>4
  <2> QED
    BY <2>1
<1>7. f \in Injection(1 .. c, T)
  BY <1>2, <1>6 DEF Injection, IsInjective
<1>8. IsFiniteSet(1 .. c) /\ Cardinality(1 .. c) = c
  BY <1>1, FS_Interval
<1>9. f \in Surjection(1 .. c, T)
  BY <1>1, <1>7, <1>8, FS_Injection DEF c
<1>10. \A i \in T : \E m \in 1 .. c : f[m] = i
  BY <1>9 DEF Surjection
<1>11. ASSUME NEW m \in 1 .. c
       PROVE  Cardinality(Before(T, f[m])) = m - 1
  <2> DEFINE g == [k \in 1 .. m - 1 |-> f[k]]
  <2>1. m \in Int /\ m >= 1 /\ m <= c
    BY <1>1
  <2>2. \A k \in 1 .. m - 1 : k \in 1 .. c /\ k < m
    BY <1>1, <2>1
  <2>3. \A k \in 1 .. m - 1 : g[k] = f[k] /\ f[k] \in Before(T, f[m])
    BY <1>3, <1>4, <2>2 DEF Before
  <2>4. g \in [1 .. m - 1 -> Before(T, f[m])]
    BY <2>3
  <2>5. \A i \in Before(T, f[m]) : \E k \in 1 .. m - 1 : g[k] = i
    <3>1. ASSUME NEW i \in Before(T, f[m])
          PROVE  \E k \in 1 .. m - 1 : g[k] = i
      <4>1. i \in T /\ i < f[m]
        BY DEF Before
      <4>2. PICK k \in 1 .. c : f[k] = i
        BY <1>10, <4>1
      <4>3. k < m
        BY <1>5, <4>1, <4>2
      <4>4. k \in 1 .. m - 1
        BY <1>1, <2>1, <4>3
      <4> QED
        BY <4>2, <4>4
    <3> QED
      BY <3>1
  <2>6. \A k, l \in 1 .. m - 1 : g[k] = g[l] => k = l
    BY <1>6, <2>2, <2>3
  <2> HIDE DEF g
  <2>7. g \in Bijection(1 .. m - 1, Before(T, f[m]))
    BY <2>4, <2>5, <2>6 DEF Bijection, Injection, Surjection, IsInjective
  <2>8. IsFiniteSet(1 .. m - 1) /\ Cardinality(1 .. m - 1) = m - 1
    BY <2>1, FS_Interval
  <2> QED
    BY <2>7, <2>8, FS_Bijection DEF ExistsBijection
<1> QED
  BY <1>1, <1>2, <1>3, <1>5, <1>10, <1>11 DEF c, f

-----------------------------------------------------------------------------
(* Entries. *)

(* The parts of an entry. *)
LEMMA EntryFacts ==
  ASSUME NEW e \in Document
  PROVE  /\ EntryId(e) \in RecordId
         /\ EntrySubject(e) \in Subjects
         /\ EntryRevision(e) \in Nat
         /\ IsDecision(e) => e.instance \in Instance /\ e.instance # None
                             /\ e.instance.subject = EntrySubject(e)
                             /\ e.envelope.command \in Commands
         /\ ~IsDecision(e) => e \in RecordedObservation
<1>1. CASE e \in RecordedCommit
  <2>1. /\ e.instance \in Instance /\ e.envelope \in Envelope
        /\ EntryId(e) = e.envelope.record_id
        /\ EntrySubject(e) = e.instance.subject
        /\ EntryRevision(e) = e.instance.revision
    BY <1>1 DEF RecordedCommit, EntryId, EntrySubject, EntryRevision, IsDecision
  <2> QED
    BY <1>1, <2>1, InstanceFacts, EnvelopeFacts DEF IsDecision
<1>2. CASE e \notin RecordedCommit
  <2>1. e \in RecordedObservation
    BY <1>2 DEF Document
  <2>2. /\ EntryId(e) = e.record_id /\ EntrySubject(e) = e.subject
        /\ EntryRevision(e) = e.revision
    BY <1>2 DEF EntryId, EntrySubject, EntryRevision, IsDecision
  <2> QED
    BY <1>2, <2>1, <2>2 DEF RecordedObservation, IsDecision
<1> QED
  BY <1>1, <1>2

(* What a valid entry was validated against. *)
LEMMA ValidFacts ==
  ASSUME NEW m, NEW current, validate_entry(m, current) = "ok"
  PROVE  /\ check(m.expect, FoundRevision(current))
         /\ ~IsDecision(m.entry) => current # None
                                    /\ m.entry.revision = FoundRevision(current)
         /\ IsDecision(m.entry) =>
              \E d \in Recomputed(m.entry, current) : Seal(d, EntryId(m.entry)) = m.entry
  BY DEF validate_entry

(* The parts of a stored record. *)
LEMMA RecordFacts ==
  ASSUME NEW x \in StoredRecord
  PROVE  /\ x.entry \in Document /\ x.expect \in Expect
         /\ x.receipt.record_id \in RecordIds /\ x.receipt.subject \in Subjects
         /\ x.receipt.position.subject \in Nat /\ x.receipt.position.store \in Nat
         /\ x.receipt.batch_key \in Key /\ x.receipt.member_index \in Nat
  BY DEF StoredRecord, RecordReceipt, Position

(* The parts of a history. *)
LEMMA HistoryFacts ==
  ASSUME NEW st \in MemoryState, NEW s \in Subjects
  PROVE  LET h == st.histories[s] IN
         /\ h \in SubjectHistory
         /\ h.records \in Seq(StoredRecord) /\ h.evidence \in Seq(Document)
         /\ h.origin # None => h.origin \in Instance
         /\ Len(h.records) \in Nat /\ DOMAIN h.records = 1 .. Len(h.records)
         /\ \A i \in DOMAIN h.records : h.records[i] \in StoredRecord
         /\ \A i \in DOMAIN h.evidence : h.evidence[i] \in Document
         /\ st.instances[s] # None => st.instances[s] \in Instance
<1>1. /\ st.histories[s] \in SubjectHistory
      /\ st.instances[s] \in Instance \cup {None}
  BY DEF MemoryState
<1> QED
  BY <1>1 DEF SubjectHistory

-----------------------------------------------------------------------------
(* What a store keeps. *)

(* The receipt of a record is of the record, at its subject. *)
OfItsEntry(s, x) ==
  /\ EntrySubject(x.entry) = s
  /\ x.receipt.record_id = EntryId(x.entry)
  /\ x.receipt.subject = s
  /\ x.receipt.revision = EntryRevision(x.entry)
  /\ x.receipt.batch_key.kind = "single" =>
       x.receipt.batch_key.id = EntryId(x.entry) /\ x.receipt.member_index = 0

LaterThan(x, y) ==
  /\ x.receipt.position.subject < y.receipt.position.subject
  /\ x.receipt.position.store < y.receipt.position.store

(* Every record of a subject is a valid entry on the state before it, at a *)
(* later position, and the last state is the one served.                   *)
HistoryHolds(st, s) ==
  LET h == st.histories[s] IN
  /\ h.origin = None => h.evidence = << >>
  /\ h.origin # None => h.origin.subject = s /\ BoundaryValid(h.origin, h.evidence)
  /\ \A i \in DOMAIN h.records :
       OfItsEntry(s, h.records[i]) /\ validate_entry(h.records[i], StateAt(h, i - 1)) = "ok"
  /\ \A i, j \in DOMAIN h.records : i < j => LaterThan(h.records[i], h.records[j])
  /\ StateAt(h, Len(h.records)) = st.instances[s]

AsCommitted(x) == [kind |-> "committed", record |-> x]

AsImported(e) == [kind |-> "imported", entry |-> e]

(* The index names every record and every piece of evidence by its id. *)
IndexNames(st, s) ==
  LET h == st.histories[s] IN
  /\ \A i \in DOMAIN h.records :
       st.records[EntryId(h.records[i].entry)] = AsCommitted(h.records[i])
  /\ \A i \in DOMAIN h.evidence :
       /\ EntryId(h.evidence[i]) \in RecordIds
       /\ st.records[EntryId(h.evidence[i])] = AsImported(h.evidence[i])

(* It names nothing else. *)
Named(st, r) ==
  LET lookup == st.records[r]
      h == st.histories[EntrySubject(LookupEntry(lookup))]
  IN lookup # None =>
       /\ EntryId(LookupEntry(lookup)) = r
       /\ lookup.kind = "committed" => \E i \in DOMAIN h.records : h.records[i] = lookup.record
       /\ lookup.kind = "imported" => \E i \in DOMAIN h.evidence : h.evidence[i] = lookup.entry

(* A batch is its records, in their order, at consecutive positions. *)
BatchHolds(st, k) ==
  LET batch == st.batches[k] IN
  /\ \A i \in DOMAIN batch :
       /\ batch[i].receipt.batch_key = k /\ batch[i].receipt.member_index = i - 1
       /\ EntryId(batch[i].entry) \in RecordIds
       /\ st.records[EntryId(batch[i].entry)] = AsCommitted(batch[i])
       /\ batch[i].receipt.position.store = batch[1].receipt.position.store + i - 1
  /\ k.kind = "single" /\ batch # << >> => Len(batch) = 1 /\ EntryId(batch[1].entry) = k.id

InItsBatch(st, x) ==
  LET batch == st.batches[x.receipt.batch_key] IN
  x.receipt.member_index + 1 \in DOMAIN batch /\ batch[x.receipt.member_index + 1] = x

(* Every record is in its batch and below the next position, which no two  *)
(* records share.                                                          *)
RecordsPlaced(st) ==
  /\ \A s \in Subjects : \A i \in DOMAIN st.histories[s].records :
       LET x == st.histories[s].records[i] IN
       InItsBatch(st, x) /\ x.receipt.position.store < st.next_store_position
  /\ \A s, t \in Subjects :
       \A i \in DOMAIN st.histories[s].records, j \in DOMAIN st.histories[t].records :
         st.histories[s].records[i].receipt.position.store
           = st.histories[t].records[j].receipt.position.store => s = t /\ i = j

StoreHolds(st) ==
  /\ st \in MemoryState
  /\ \A s \in Subjects : HistoryHolds(st, s) /\ IndexNames(st, s)
  /\ \A r \in RecordIds : Named(st, r)
  /\ \A k \in Key : BatchHolds(st, k)
  /\ RecordsPlaced(st)

-----------------------------------------------------------------------------
(* The state a history reaches. *)

(* The greatest member of a set of numbers that has one. *)
LEMMA MaxIs ==
  ASSUME NEW n \in Nat, NEW T, T \subseteq 1 .. n, NEW m \in T, \A i \in T : i <= m
  PROVE  Max(T) = m
<1>1. Max(T) \in T /\ \A i \in T : i <= Max(T)
  BY LastPlace
<1>2. \A i \in T : i \in 1 .. n
  OBVIOUS
<1>3. Max(T) <= m /\ m <= Max(T)
  BY <1>1
<1>4. Max(T) \in 1 .. n /\ m \in 1 .. n
  BY <1>1, <1>2
<1> QED
  BY <1>3, <1>4

(* A decision brings its instance, an observation leaves the state. *)
LEMMA StateAtStep ==
  ASSUME NEW h, NEW n \in Nat
  PROVE  /\ StateAt(h, 0) = h.origin
         /\ n > 0 => StateAt(h, n) = IF IsDecision(h.records[n].entry)
                                     THEN h.records[n].entry.instance
                                     ELSE StateAt(h, n - 1)
<1> DEFINE D(k) == {i \in 1 .. k : IsDecision(h.records[i].entry)}
<1>1. StateAt(h, 0) = h.origin
  <2>1. D(0) = {}
    OBVIOUS
  <2> QED
    BY <2>1 DEF StateAt
<1>2. CASE n > 0 /\ IsDecision(h.records[n].entry)
  <2> DEFINE T == D(n)
  <2>1. n \in T /\ T \subseteq 1 .. n /\ \A i \in T : i <= n
    BY <1>2
  <2>2. StateAt(h, n) = h.records[Max(T)].entry.instance
    BY <2>1 DEF StateAt
  <2> HIDE DEF T
  <2>3. Max(T) = n
    BY <2>1, MaxIs
  <2> QED
    BY <1>1, <1>2, <2>2, <2>3
<1>3. CASE n > 0 /\ ~IsDecision(h.records[n].entry)
  <2>1. D(n) = D(n - 1)
    <3>1. 1 .. n = (1 .. n - 1) \cup {n} /\ n \notin 1 .. n - 1
      BY <1>3
    <3> QED
      BY <1>3, <3>1
  <2>2. StateAt(h, n) = StateAt(h, n - 1)
    BY <2>1 DEF StateAt
  <2> QED
    BY <1>1, <1>3, <2>2
<1>4. CASE ~(n > 0)
  BY <1>1, <1>4
<1> QED
  BY <1>2, <1>3, <1>4

(* A history that has begun has a state. *)
LEMMA Begun ==
  ASSUME NEW st \in MemoryState, NEW s \in Subjects, HistoryHolds(st, s),
         NEW n \in 0 .. Len(st.histories[s].records),
         n > 0 \/ st.histories[s].origin # None
  PROVE  /\ StateAt(st.histories[s], n) # None
         /\ StateAt(st.histories[s], n) \in Instance
         /\ StateAt(st.histories[s], n).subject = s
<1> DEFINE h == st.histories[s]
           good(x) == x # None /\ x \in Instance /\ x.subject = s
<1>1. CASE n = 0
  <2>1. h.origin # None /\ h.origin \in Instance /\ h.origin.subject = s
    BY <1>1, HistoryFacts DEF HistoryHolds
  <2> QED
    BY <1>1, <2>1, StateAtStep
<1>2. CASE n > 0
  <2>1. n \in Nat /\ n \in DOMAIN h.records /\ h.records[n] \in StoredRecord
    BY <1>2, HistoryFacts
  <2>2. validate_entry(h.records[n], StateAt(h, n - 1)) = "ok"
        /\ EntrySubject(h.records[n].entry) = s
    BY <2>1 DEF HistoryHolds, OfItsEntry
  <2>3. h.records[n].entry \in Document
    BY <2>1, RecordFacts
  <2>4. CASE IsDecision(h.records[n].entry)
    BY <1>2, <2>1, <2>2, <2>3, <2>4, StateAtStep, EntryFacts
  <2>5. CASE ~IsDecision(h.records[n].entry)
    <3> DEFINE D == {i \in 1 .. n - 1 : IsDecision(h.records[i].entry)}
    <3>1. StateAt(h, n) = StateAt(h, n - 1) /\ StateAt(h, n - 1) # None
      BY <1>2, <2>1, <2>2, <2>5, StateAtStep, ValidFacts
    <3>2. CASE D = {}
      <4>1. StateAt(h, n - 1) = h.origin
        BY <3>2 DEF StateAt
      <4> QED
        BY <3>1, <4>1, HistoryFacts DEF HistoryHolds
    <3>3. CASE D # {}
      <4>1. n - 1 \in Nat /\ D \subseteq 1 .. n - 1
        BY <1>2, <2>1
      <4>2. Max(D) \in D
        BY <3>3, <4>1, LastPlace
      <4>3. StateAt(h, n - 1) = h.records[Max(D)].entry.instance
        BY <3>3 DEF StateAt
      <4> HIDE DEF D
      <4>4. Max(D) \in DOMAIN h.records /\ IsDecision(h.records[Max(D)].entry)
        <5>1. Max(D) \in 1 .. n - 1 /\ IsDecision(h.records[Max(D)].entry)
          BY <4>2 DEF D
        <5>2. n \in 1 .. Len(h.records) /\ Len(h.records) \in Nat
              /\ DOMAIN h.records = 1 .. Len(h.records)
          BY <2>1, HistoryFacts
        <5> QED
          BY <5>1, <5>2
      <4>5. h.records[Max(D)].entry \in Document
            /\ EntrySubject(h.records[Max(D)].entry) = s
        BY <4>4, HistoryFacts, RecordFacts DEF HistoryHolds, OfItsEntry
      <4> QED
        BY <3>1, <4>3, <4>4, <4>5, EntryFacts
    <3> QED
      BY <3>2, <3>3
  <2> QED
    BY <2>4, <2>5
<1> QED
  BY <1>1, <1>2

-----------------------------------------------------------------------------
(* What the verifier finds. *)

(* No two records share an id. *)
LEMMA IdsDiffer ==
  ASSUME NEW st, StoreHolds(st), NEW s \in Subjects, NEW t \in Subjects,
         NEW i \in DOMAIN st.histories[s].records,
         NEW j \in DOMAIN st.histories[t].records,
         EntryId(st.histories[s].records[i].entry) = EntryId(st.histories[t].records[j].entry)
  PROVE  s = t /\ i = j
<1> DEFINE x == st.histories[s].records[i]
           y == st.histories[t].records[j]
<1>1. AsCommitted(x) = AsCommitted(y)
  BY DEF StoreHolds, IndexNames
<1>2. x = y
  BY <1>1 DEF AsCommitted
<1> QED
  BY <1>2 DEF StoreHolds, RecordsPlaced

(* A record is in the index under its id. *)
LEMMA RecordNamed ==
  ASSUME NEW st, StoreHolds(st), NEW s \in Subjects,
         NEW i \in DOMAIN st.histories[s].records
  PROVE  LET x == st.histories[s].records[i] IN
         /\ x \in StoredRecord /\ x.entry \in Document
         /\ EntryId(x.entry) \in RecordIds /\ EntrySubject(x.entry) = s
         /\ st.records[EntryId(x.entry)] = AsCommitted(x)
<1> DEFINE x == st.histories[s].records[i]
<1>1. st \in MemoryState /\ HistoryHolds(st, s) /\ IndexNames(st, s)
  BY DEF StoreHolds
<1>2. x \in StoredRecord
  BY <1>1, HistoryFacts
<1>3. OfItsEntry(s, x) /\ st.records[EntryId(x.entry)] = AsCommitted(x)
  BY <1>1 DEF HistoryHolds, IndexNames
<1> QED
  BY <1>2, <1>3, RecordFacts DEF OfItsEntry

(* Every prefix of a history verifies. *)
LEMMA Verifies ==
  ASSUME NEW st, StoreHolds(st), NEW s \in Subjects,
         NEW n \in 0 .. Len(st.histories[s].records),
         n > 0 \/ st.histories[s].origin # None
  PROVE  VerifiesTo(s, st.histories[s], n)
<1> DEFINE h == st.histories[s]
<1>1. st \in MemoryState /\ HistoryHolds(st, s)
  BY DEF StoreHolds
<1>2. StateAt(h, n) # None
  BY <1>1, Begun
<1>3. Len(h.records) \in Nat /\ DOMAIN h.records = 1 .. Len(h.records)
  BY <1>1, HistoryFacts
<1>4. ASSUME NEW i \in 1 .. n
      PROVE  /\ CoordinatesValid(s, h.records, i)
             /\ validate_entry(h.records[i], StateAt(h, i - 1)) = "ok"
  <2>1. i \in DOMAIN h.records /\ (i > 1 => i - 1 \in DOMAIN h.records /\ i - 1 < i)
    BY <1>3
  <2>2. OfItsEntry(s, h.records[i])
        /\ validate_entry(h.records[i], StateAt(h, i - 1)) = "ok"
    BY <1>1, <2>1 DEF HistoryHolds
  <2>3. i > 1 => LaterThan(h.records[i - 1], h.records[i])
    BY <1>1, <2>1 DEF HistoryHolds
  <2>4. h.records[i].receipt.record_id = EntryId(h.records[i].entry)
    BY <2>2 DEF OfItsEntry
  <2> QED
    BY <2>2, <2>3, <2>4 DEF CoordinatesValid, OfItsEntry, LaterThan
<1>5. ASSUME NEW i \in 1 .. n, NEW j \in 1 .. n,
             EntryId(h.records[i].entry) = EntryId(h.records[j].entry)
      PROVE  i = j
  <2>1. i \in DOMAIN h.records /\ j \in DOMAIN h.records
    BY <1>3
  <2> QED
    BY <1>5, <2>1, IdsDiffer
<1> QED
  BY <1>1, <1>2, <1>4, <1>5 DEF VerifiesTo, HistoryHolds

(* What an id names is of that id. *)
LEMMA NamedFacts ==
  ASSUME NEW st, StoreHolds(st), NEW r \in RecordIds, st.records[r] # None
  PROVE  LET lookup == st.records[r] IN
         /\ lookup \in RecordLookup /\ lookup.kind \in {"committed", "imported"}
         /\ LookupEntry(lookup) \in Document /\ EntryId(LookupEntry(lookup)) = r
         /\ EntrySubject(LookupEntry(lookup)) \in Subjects
         /\ lookup.kind = "committed" =>
              /\ lookup = AsCommitted(lookup.record) /\ lookup.record \in StoredRecord
              /\ LookupEntry(lookup) = lookup.record.entry
         /\ lookup.kind = "imported" =>
              lookup = AsImported(lookup.entry) /\ LookupEntry(lookup) = lookup.entry
<1> DEFINE l == st.records[r]
<1>1. l \in RecordLookup
  BY DEF StoreHolds, MemoryState
<1>2. CASE l \in [kind : {"committed"}, record : StoredRecord]
  <2>1. l = AsCommitted(l.record) /\ l.kind = "committed" /\ l.record \in StoredRecord
    BY <1>2 DEF AsCommitted
  <2>2. LookupEntry(l) = l.record.entry
    BY <2>1 DEF LookupEntry
  <2> QED
    BY <1>1, <2>1, <2>2, RecordFacts, EntryFacts DEF StoreHolds, Named
<1>3. CASE l \in [kind : {"imported"}, entry : Document]
  <2>1. l = AsImported(l.entry) /\ l.kind = "imported" /\ l.entry \in Document
    BY <1>3 DEF AsImported
  <2>2. LookupEntry(l) = l.entry
    BY <2>1 DEF LookupEntry
  <2> QED
    BY <1>1, <2>1, <2>2, EntryFacts DEF StoreHolds, Named
<1> QED
  BY <1>1, <1>2, <1>3 DEF RecordLookup

(* The record an id names is where its subject's history says. *)
LEMMA CommittedFound ==
  ASSUME NEW st, StoreHolds(st), NEW r \in RecordIds, st.records[r] # None,
         st.records[r].kind = "committed"
  PROVE  LET x == st.records[r].record
             h == st.histories[EntrySubject(x.entry)]
         IN /\ PlaceOf(h, r) # {} /\ h.records[Min(PlaceOf(h, r))] = x
            /\ verify_subject_prefix(EntrySubject(x.entry), h, r)
<1> DEFINE x == st.records[r].record
           s == EntrySubject(x.entry)
           h == st.histories[s]
<1>1. x \in StoredRecord /\ LookupEntry(st.records[r]) = x.entry /\ EntryId(x.entry) = r
      /\ s \in Subjects
  BY NamedFacts
<1>2. PICK i \in DOMAIN h.records : h.records[i] = x
  BY <1>1 DEF StoreHolds, Named
<1> HIDE DEF x, s
<1>3. DOMAIN h.records = 1 .. Len(h.records) /\ Len(h.records) \in Nat
  BY <1>1, HistoryFacts DEF StoreHolds
<1>4. PlaceOf(h, r) = {i}
  <2>1. ASSUME NEW j \in DOMAIN h.records, EntryId(h.records[j].entry) = r
        PROVE  j = i
    BY <1>1, <1>2, <2>1, IdsDiffer
  <2> QED
    BY <1>1, <1>2, <2>1 DEF PlaceOf
<1>5. Min(PlaceOf(h, r)) = i
  <2>1. {i} \subseteq Nat
    BY <1>3
  <2> QED
    BY <1>4, <2>1, FirstPlace
<1>6. VerifiesTo(s, h, i)
  BY <1>1, <1>3, Verifies
<1> QED
  BY <1>2, <1>4, <1>5, <1>6 DEF verify_subject_prefix, x, s

(* The evidence an id names is in its subject's origin. *)
LEMMA ImportedFound ==
  ASSUME NEW st, StoreHolds(st), NEW r \in RecordIds, st.records[r] # None,
         st.records[r].kind = "imported"
  PROVE  LET e == st.records[r].entry IN
         verify_imported_record(EntrySubject(e), st.histories[EntrySubject(e)], e)
<1> DEFINE e == st.records[r].entry
           s == EntrySubject(e)
           h == st.histories[s]
<1>1. LookupEntry(st.records[r]) = e /\ s \in Subjects
  BY NamedFacts
<1>2. PICK i \in DOMAIN h.evidence : h.evidence[i] = e
  BY <1>1 DEF StoreHolds, Named
<1>3. h.origin # None /\ BoundaryValid(h.origin, h.evidence)
  BY <1>1, <1>2 DEF StoreHolds, HistoryHolds
<1>4. e \in ToSet(h.evidence)
  BY <1>2 DEF ToSet
<1> QED
  BY <1>3, <1>4 DEF verify_imported_record

(* The whole store verifies. *)
LEMMA StoreVerified ==
  ASSUME NEW st, StoreHolds(st)
  PROVE  verify_complete_store(st)
<1>1. ASSUME NEW s \in Listed(st)
      PROVE  verify_subject_history(s, st.histories[s], st.instances[s])
  <2> DEFINE h == st.histories[s]
  <2>1. s \in Subjects /\ (h.origin # None \/ h.records # << >>)
    BY DEF Listed, HasHistory
  <2>2. Len(h.records) \in Nat /\ HistoryHolds(st, s) /\ h.records \in Seq(StoredRecord)
    BY <2>1, HistoryFacts DEF StoreHolds
  <2>3. h.origin # None \/ Len(h.records) > 0
    BY <2>1, <2>2
  <2>4. VerifiesTo(s, h, Len(h.records))
    BY <2>1, <2>2, <2>3, Verifies
  <2> QED
    BY <2>2, <2>4 DEF verify_subject_history, HistoryHolds
<1>2. ASSUME NEW a \in CommittedIn(st)
      PROVE  \E s \in Subjects : \E i \in DOMAIN st.histories[s].records :
               a = st.histories[s].records[i]
  BY DEF CommittedIn, Listed, ToSet
<1>3. ASSUME NEW e \in ImportedIn(st)
      PROVE  EntryId(e) \in RecordIds /\ st.records[EntryId(e)] = AsImported(e)
  <2>1. PICK s \in Subjects : \E i \in DOMAIN st.histories[s].evidence :
               e = st.histories[s].evidence[i]
    BY DEF ImportedIn, Listed, ToSet
  <2> QED
    BY <2>1 DEF StoreHolds, IndexNames
<1>4. ASSUME NEW a \in CommittedIn(st), NEW b \in CommittedIn(st)
      PROVE  /\ EntryId(a.entry) = EntryId(b.entry) => a = b
             /\ a.receipt.position.store = b.receipt.position.store => a = b
             /\ a.receipt.batch_key = b.receipt.batch_key /\ a # b =>
                  (a.receipt.member_index < b.receipt.member_index
                     <=> a.receipt.position.store < b.receipt.position.store)
  <2>1. PICK s \in Subjects : \E i \in DOMAIN st.histories[s].records :
               a = st.histories[s].records[i]
    BY <1>2
  <2>2. PICK t \in Subjects : \E j \in DOMAIN st.histories[t].records :
               b = st.histories[t].records[j]
    BY <1>2
  <2>3. EntryId(a.entry) = EntryId(b.entry) => a = b
    BY <2>1, <2>2, IdsDiffer
  <2>4. a.receipt.position.store = b.receipt.position.store => a = b
    BY <2>1, <2>2 DEF StoreHolds, RecordsPlaced
  <2>5. ASSUME a.receipt.batch_key = b.receipt.batch_key
        PROVE  a.receipt.member_index < b.receipt.member_index
                 <=> a.receipt.position.store < b.receipt.position.store
    <3> DEFINE k == a.receipt.batch_key
               batch == st.batches[k]
    <3>1. /\ a \in StoredRecord /\ b \in StoredRecord
          /\ k \in Key /\ a.receipt.member_index \in Nat /\ b.receipt.member_index \in Nat
      BY <2>1, <2>2, RecordNamed, RecordFacts
    <3>2. InItsBatch(st, a) /\ InItsBatch(st, b)
      BY <2>1, <2>2 DEF StoreHolds, RecordsPlaced
    <3>3. BatchHolds(st, k)
      BY <3>1 DEF StoreHolds
    <3>4. /\ a.receipt.position.store
               = batch[1].receipt.position.store + a.receipt.member_index
          /\ b.receipt.position.store
               = batch[1].receipt.position.store + b.receipt.member_index
      BY ZenonT(60), <2>5, <3>1, <3>2, <3>3 DEF BatchHolds, InItsBatch
    <3>5. batch[1].receipt.position.store \in Nat
      <4>1. batch \in Seq(StoredRecord)
        BY <3>1 DEF StoreHolds, MemoryState
      <4>2. batch # << >>
        BY <3>2, <4>1 DEF InItsBatch
      <4>3. batch[1] \in StoredRecord
        BY <4>1, <4>2
      <4> QED
        BY <4>3, RecordFacts
    <3> HIDE DEF batch, k
    <3> QED
      BY <3>1, <3>4, <3>5
  <2> QED
    BY <2>3, <2>4, <2>5
<1>5. ASSUME NEW a \in CommittedIn(st), NEW e \in ImportedIn(st)
      PROVE  EntryId(a.entry) # EntryId(e)
  <2>1. PICK s \in Subjects : \E i \in DOMAIN st.histories[s].records :
               a = st.histories[s].records[i]
    BY <1>2
  <2>2. st.records[EntryId(a.entry)] = AsCommitted(a)
    BY <2>1, RecordNamed
  <2>3. AsCommitted(a).kind # AsImported(e).kind
    BY DEF AsCommitted, AsImported
  <2> QED
    BY <1>3, <2>2, <2>3
<1>6. ASSUME NEW d \in ImportedIn(st), NEW e \in ImportedIn(st), EntryId(d) = EntryId(e)
      PROVE  d = e
  <2>1. AsImported(d) = AsImported(e)
    BY <1>3, <1>6
  <2> QED
    BY <2>1 DEF AsImported
<1> QED
  BY <1>1, <1>4, <1>5, <1>6 DEF verify_complete_store

-----------------------------------------------------------------------------
(* An append. *)

(* What a caller of the append, and its earlier returns, guarantee. *)
Appendable(st, key, members) ==
  /\ key \in Key /\ members \in Seq(AppendMember)
  /\ st.batches[key] = << >>
  /\ \A i \in DOMAIN members :
       /\ EntryId(members[i].entry) \in RecordIds
       /\ st.records[EntryId(members[i].entry)] = None
  /\ \A i, j \in DOMAIN members :
       EntryId(members[i].entry) = EntryId(members[j].entry) => i = j
  /\ key.kind = "single" => Len(members) = 1 /\ EntryId(members[1].entry) = key.id
  /\ Admission(st, members) = "ok"

StoredBatch(st, key, members) == [i \in DOMAIN members |-> StoredAs(st, key, members, i)]

After(st, key, members) == Publish(st, key, StoredBatch(st, key, members))

(* The members on a subject. *)
On(members, s) == {i \in DOMAIN members : EntrySubject(members[i].entry) = s}

(* The last decision on a subject among the members before place b. *)
LastOn(st, members, s, b) ==
  LET earlier == {j \in 1 .. b - 1 :
                    IsDecision(members[j].entry) /\ EntrySubject(members[j].entry) = s}
  IN IF earlier = {} THEN st.instances[s] ELSE members[Max(earlier)].entry.instance

(* Every member of an admitted batch passes. *)
LEMMA AppendAdmitted ==
  ASSUME NEW st \in MemoryState, NEW members \in Seq(AppendMember),
         Admission(st, members) = "ok", NEW i \in DOMAIN members
  PROVE  /\ validate_entry(members[i],
                           LastOn(st, members, EntrySubject(members[i].entry), i)) = "ok"
         /\ ~Exhausted(st, members, i)
<1> DEFINE bad == {j \in DOMAIN members : Verdict(st, members, j) # "ok"}
<1>1. bad = {}
  <2>1. CASE bad # {}
    <3>1. bad \subseteq Nat
      OBVIOUS
    <3>2. Min(bad) \in bad
      BY <2>1, <3>1, FirstPlace
    <3> QED
      BY <2>1, <3>2 DEF Admission
  <2> QED
    BY <2>1
<1>2. Verdict(st, members, i) = "ok"
  BY <1>1
<1>3. StateBefore(st.instances, members, i)
        = LastOn(st, members, EntrySubject(members[i].entry), i)
  BY DEF StateBefore, LastOn
<1> QED
  BY <1>2, <1>3 DEF Verdict

(* How many records a subject has, and where its next one goes. *)
LEMMA FirstFacts ==
  ASSUME NEW st \in MemoryState, NEW s \in Subjects, HistoryHolds(st, s)
  PROVE  LET records == st.histories[s].records
             first == IF records = << >> THEN 0 ELSE Last(records).receipt.position.subject + 1
         IN /\ first \in Nat
            /\ \A i \in DOMAIN records : records[i].receipt.position.subject < first
<1> DEFINE records == st.histories[s].records
           first == IF records = << >> THEN 0 ELSE Last(records).receipt.position.subject + 1
<1>1. /\ records \in Seq(StoredRecord) /\ Len(records) \in Nat
      /\ DOMAIN records = 1 .. Len(records)
  BY HistoryFacts
<1>2. CASE records = << >>
  BY <1>1, <1>2
<1>3. CASE records # << >>
  <2> DEFINE n == Len(records)
  <2>1. n \in DOMAIN records /\ Last(records) = records[n]
    BY <1>1, <1>3 DEF Last
  <2>2. \A i \in DOMAIN records : records[i].receipt.position.subject \in Nat
    BY <1>1, RecordFacts
  <2>3. first = records[n].receipt.position.subject + 1
    BY <1>3, <2>1
  <2>4. ASSUME NEW i \in DOMAIN records
        PROVE  records[i].receipt.position.subject <= records[n].receipt.position.subject
    <3>1. i = n \/ i < n
      BY <1>1
    <3>2. i < n => LaterThan(records[i], records[n])
      BY <2>1 DEF HistoryHolds
    <3>3. /\ records[i].receipt.position.subject \in Nat
          /\ records[n].receipt.position.subject \in Nat
      BY <2>1, <2>2
    <3> HIDE DEF n, first, records
    <3> QED
      BY <3>1, <3>2, <3>3 DEF LaterThan
  <2>5. ASSUME NEW i \in DOMAIN records
        PROVE  records[i].receipt.position.subject < first
    <3>1. /\ records[i].receipt.position.subject \in Nat
          /\ records[n].receipt.position.subject \in Nat
          /\ records[i].receipt.position.subject <= records[n].receipt.position.subject
      BY <2>1, <2>2, <2>4
    <3> HIDE DEF n, first, records
    <3> QED
      BY <2>3, <3>1
  <2>6. first \in Nat
    BY SMTT(40), <2>1, <2>2, <2>3
  <2> QED
    BY <2>5, <2>6
<1> QED
  BY <1>2, <1>3

(* The stored form of a member. *)
LEMMA StoredFields ==
  ASSUME NEW st \in MemoryState, NEW key \in Key, NEW members \in Seq(AppendMember),
         \A s \in Subjects : HistoryHolds(st, s),
         \A i \in DOMAIN members : EntryId(members[i].entry) \in RecordIds,
         NEW i \in DOMAIN members
  PROVE  LET x == StoredBatch(st, key, members)[i] IN
         /\ x \in StoredRecord
         /\ x.entry = members[i].entry /\ x.expect = members[i].expect
         /\ x.receipt.record_id = EntryId(x.entry)
         /\ x.receipt.subject = EntrySubject(x.entry)
         /\ x.receipt.revision = EntryRevision(x.entry)
         /\ x.receipt.batch_key = key /\ x.receipt.member_index = i - 1
         /\ x.receipt.position.store = st.next_store_position + i - 1
         /\ x.receipt.position.subject = SubjectPosition(st, members, i)
<1> DEFINE x == StoredBatch(st, key, members)[i]
           m == members[i]
           s == EntrySubject(m.entry)
<1>1. /\ m \in AppendMember /\ i \in 1 .. Len(members) /\ Len(members) \in Nat
      /\ m.entry \in Document /\ m.expect \in Expect
  <2>1. m \in AppendMember /\ i \in 1 .. Len(members) /\ Len(members) \in Nat
    OBVIOUS
  <2> HIDE DEF m
  <2> QED
    BY <2>1 DEF AppendMember
<1>2. EntrySubject(m.entry) \in Subjects /\ EntryRevision(m.entry) \in Nat
  BY <1>1, EntryFacts
<1>3. st.next_store_position \in Nat
  <2>1. st.next_store_position \in 0 .. MaxPosition + 1
    BY DEF MemoryState
  <2> QED
    BY <2>1, RecordedAssumption
<1>4. SubjectPosition(st, members, i) \in Nat
  <2> DEFINE T == {j \in 1 .. i - 1 : EntrySubject(members[j].entry) = s}
  <2>1. Cardinality(T) \in Nat
    BY <1>1, BeforeFacts
  <2> HIDE DEF T
  <2>2. SubjectPosition(st, members, i)
          = (IF st.histories[s].records = << >> THEN 0
             ELSE Last(st.histories[s].records).receipt.position.subject + 1)
            + Cardinality(T)
    BY DEF SubjectPosition, T
  <2> QED
    BY <1>2, <2>1, <2>2, FirstFacts
<1>5. x = StoredAs(st, key, members, i)
  BY DEF StoredBatch
<1>6. /\ x.entry = m.entry /\ x.expect = m.expect
      /\ x.receipt.record_id = EntryId(m.entry)
      /\ x.receipt.subject = EntrySubject(m.entry)
      /\ x.receipt.revision = EntryRevision(m.entry)
      /\ x.receipt.batch_key = key /\ x.receipt.member_index = i - 1
      /\ x.receipt.position = Positions(st, members, i)
  BY <1>5 DEF StoredAs
<1>7. /\ x.receipt.position.store = st.next_store_position + i - 1
      /\ x.receipt.position.subject = SubjectPosition(st, members, i)
      /\ x.receipt.position \in Position
  <2>1. st.next_store_position + i - 1 \in Nat
    BY <1>1, <1>3
  <2> QED
    BY <1>4, <1>6, <2>1 DEF Positions, StorePosition, Position
<1>8. x \in StoredRecord
  <2>1. x.receipt \in RecordReceipt
    <3>1. i - 1 \in Nat /\ EntryId(m.entry) \in RecordIds
      BY <1>1
    <3>2. Positions(st, members, i) \in Position
      BY <1>6, <1>7
    <3> HIDE DEF m
    <3> QED
      BY <1>2, <1>5, <3>1, <3>2 DEF StoredAs, RecordReceipt, m
  <2> QED
    BY <1>1, <1>5, <2>1 DEF StoredRecord, StoredAs
<1> QED
  BY <1>6, <1>7, <1>8

(* The members on one subject, as they are stored. *)
LEMMA OfSubjectFacts ==
  ASSUME NEW st, StoreHolds(st), NEW key, NEW members, Appendable(st, key, members),
         NEW s \in Subjects
  PROVE  LET stored == StoredBatch(st, key, members)
             T == On(members, s)
             f == InOrder(T)
             c == Cardinality(T)
             records == st.histories[s].records
             first == IF records = << >> THEN 0 ELSE Last(records).receipt.position.subject + 1
         IN /\ T \subseteq 1 .. Len(members) /\ c \in Nat
            /\ OfSubject(stored, s) \in Seq(StoredRecord)
            /\ Len(OfSubject(stored, s)) = c
            /\ \A m \in 1 .. c :
                 /\ f[m] \in T /\ f[m] \in DOMAIN members
                 /\ OfSubject(stored, s)[m] = stored[f[m]]
                 /\ stored[f[m]].receipt.position.subject = first + m - 1
<1> DEFINE stored == StoredBatch(st, key, members)
           T == On(members, s)
           f == InOrder(T)
           c == Cardinality(T)
           records == st.histories[s].records
           first == IF records = << >> THEN 0 ELSE Last(records).receipt.position.subject + 1
<1>1. /\ st \in MemoryState /\ key \in Key /\ members \in Seq(AppendMember)
      /\ \A t \in Subjects : HistoryHolds(st, t)
      /\ \A i \in DOMAIN members : EntryId(members[i].entry) \in RecordIds
  BY DEF StoreHolds, Appendable
<1>2. DOMAIN members = 1 .. Len(members) /\ Len(members) \in Nat
  BY <1>1
<1>3. T \subseteq 1 .. Len(members)
  BY <1>2 DEF On
<1>4. /\ c \in Nat /\ f \in [1 .. c -> T]
      /\ \A m \in 1 .. c : Cardinality(Before(T, f[m])) = m - 1
  BY <1>2, <1>3, InOrderFacts
<1>5. {i \in DOMAIN stored : stored[i].receipt.subject = s} = T
  <2>1. DOMAIN stored = DOMAIN members
    BY DEF StoredBatch
  <2>2. \A i \in DOMAIN members :
          stored[i].receipt.subject = EntrySubject(members[i].entry)
    BY <1>1, StoredFields
  <2> HIDE DEF stored
  <2> QED
    BY <2>1, <2>2 DEF On
<1>6. OfSubject(stored, s) = [m \in 1 .. c |-> stored[f[m]]]
  BY <1>5 DEF OfSubject
<1>7. ASSUME NEW m \in 1 .. c
      PROVE  /\ f[m] \in T /\ f[m] \in DOMAIN members
             /\ stored[f[m]] \in StoredRecord
             /\ stored[f[m]].receipt.position.subject = first + m - 1
  <2>1. f[m] \in T /\ f[m] \in DOMAIN members
    BY <1>4 DEF On
  <2> DEFINE i == f[m]
  <2> HIDE DEF f, i, T
  <2>2. EntrySubject(members[i].entry) = s /\ i \in DOMAIN members
    BY <2>1 DEF On, T, i
  <2>3. stored[i] \in StoredRecord
        /\ stored[i].receipt.position.subject = SubjectPosition(st, members, i)
    BY <1>1, <2>2, StoredFields
  <2>4. {j \in 1 .. i - 1 : EntrySubject(members[j].entry) = s} = Before(T, i)
    <3>1. i \in 1 .. Len(members)
      BY <1>2, <2>2
    <3>2. \A j : j \in 1 .. i - 1 <=> j \in DOMAIN members /\ j < i
      BY <1>2, <3>1
    <3> QED
      BY <3>2 DEF Before, On, T
  <2>5. Cardinality(Before(T, i)) = m - 1
    BY <1>4 DEF i
  <2>6. first \in Nat /\ m \in Int
    BY <1>1, <1>4, FirstFacts
  <2> HIDE DEF first
  <2>7. SubjectPosition(st, members, i) = first + (m - 1)
    BY <2>2, <2>4, <2>5 DEF SubjectPosition, first
  <2>8. first + (m - 1) = first + m - 1
    BY <2>6
  <2> QED
    BY <2>1, <2>3, <2>7, <2>8 DEF i
<1> HIDE DEF f, c, T, stored, first
<1>8. OfSubject(stored, s) \in Seq(StoredRecord) /\ Len(OfSubject(stored, s)) = c
  BY <1>4, <1>6, <1>7
<1>9. \A m \in 1 .. c : OfSubject(stored, s)[m] = stored[f[m]]
  BY <1>6
<1> QED
  BY <1>3, <1>4, <1>7, <1>8, <1>9 DEF f, c, T, stored, first

(* A history after an append: what it was, then the members on it. *)
LEMMA AfterHistory ==
  ASSUME NEW st, StoreHolds(st), NEW key, NEW members, Appendable(st, key, members),
         NEW s \in Subjects
  PROVE  LET stored == StoredBatch(st, key, members)
             f == InOrder(On(members, s))
             c == Cardinality(On(members, s))
             h == st.histories[s]
             g == After(st, key, members).histories[s]
         IN /\ g \in SubjectHistory /\ g.origin = h.origin /\ g.evidence = h.evidence
            /\ Len(h.records) \in Nat /\ c \in Nat
            /\ g.records = h.records \o OfSubject(stored, s)
            /\ DOMAIN h.records = 1 .. Len(h.records)
            /\ DOMAIN g.records = 1 .. Len(h.records) + c /\ Len(g.records) = Len(h.records) + c
            /\ \A i \in DOMAIN h.records : g.records[i] = h.records[i]
            /\ \A m \in 1 .. c : g.records[Len(h.records) + m] = stored[f[m]]
<1> DEFINE stored == StoredBatch(st, key, members)
           new == OfSubject(stored, s)
           h == st.histories[s]
           g == After(st, key, members).histories[s]
           c == Cardinality(On(members, s))
           f == InOrder(On(members, s))
<1>1. new \in Seq(StoredRecord) /\ Len(new) = c /\ c \in Nat
      /\ \A m \in 1 .. c : new[m] = stored[f[m]]
  BY OfSubjectFacts
<1>2. h \in SubjectHistory /\ h.records \in Seq(StoredRecord)
  BY HistoryFacts DEF StoreHolds
<1>3. g = [h EXCEPT !.records = @ \o new]
  BY DEF After, Publish
<1> HIDE DEF new, g, h, c, f, stored
<1>4. /\ h.records \o new \in Seq(StoredRecord)
      /\ Len(h.records \o new) = Len(h.records) + c
      /\ \A i \in 1 .. Len(h.records) : (h.records \o new)[i] = h.records[i]
      /\ \A m \in 1 .. c : (h.records \o new)[Len(h.records) + m] = new[m]
  <2>1. h.records \o new \in Seq(StoredRecord)
        /\ Len(h.records \o new) = Len(h.records) + c
    BY SMTT(40), <1>1, <1>2
  <2>2. ASSUME NEW i \in 1 .. Len(h.records)
        PROVE  (h.records \o new)[i] = h.records[i]
    BY <1>1, <1>2
  <2>3. ASSUME NEW m \in 1 .. c
        PROVE  (h.records \o new)[Len(h.records) + m] = new[m]
    BY <1>1, <1>2
  <2> QED
    BY <2>1, <2>2, <2>3
<1> DEFINE joined == h.records \o new
<1> HIDE DEF joined
<1>5. joined \in Seq(StoredRecord) /\ g = [h EXCEPT !.records = joined]
  BY <1>3, <1>4 DEF joined
<1>6. /\ g \in SubjectHistory /\ g.origin = h.origin /\ g.evidence = h.evidence
      /\ g.records = joined
  BY <1>2, <1>5 DEF SubjectHistory
<1>7. /\ Len(h.records) \in Nat /\ DOMAIN h.records = 1 .. Len(h.records)
      /\ Len(joined) = Len(h.records) + c /\ DOMAIN joined = 1 .. Len(h.records) + c
  BY <1>1, <1>2, <1>4, <1>5 DEF joined
<1> QED
  BY <1>1, <1>4, <1>6, <1>7 DEF new, g, h, c, f, stored, joined

(* The states a history passed stay what they were. *)
LEMMA StatesStay ==
  ASSUME NEW g, NEW h, NEW n \in Nat, g.origin = h.origin,
         \A i \in 1 .. n : g.records[i] = h.records[i]
  PROVE  StateAt(g, n) = StateAt(h, n)
<1> DEFINE D == {i \in 1 .. n : IsDecision(g.records[i].entry)}
           E == {i \in 1 .. n : IsDecision(h.records[i].entry)}
<1>1. D = E
  OBVIOUS
<1>2. CASE E = {}
  BY <1>1, <1>2 DEF StateAt
<1>3. CASE E # {}
  <2>1. E \subseteq 1 .. n
    OBVIOUS
  <2>2. StateAt(g, n) = g.records[Max(E)].entry.instance
        /\ StateAt(h, n) = h.records[Max(E)].entry.instance
    BY <1>1, <1>3 DEF StateAt
  <2> HIDE DEF E, D
  <2>3. Max(E) \in 1 .. n
    BY <1>3, <2>1, LastPlace
  <2> QED
    BY <2>2, <2>3
<1> QED
  BY <1>2, <1>3

(* After m of the members on it, a history is where the last of them that  *)
(* is a decision left it.                                                  *)
LEMMA StateReached ==
  ASSUME NEW st, StoreHolds(st), NEW key, NEW members, Appendable(st, key, members),
         NEW s \in Subjects,
         NEW m \in 0 .. Cardinality(On(members, s)), NEW b \in 1 .. Len(members) + 1,
         \A k \in 1 .. Cardinality(On(members, s)) :
           k <= m <=> InOrder(On(members, s))[k] < b
  PROVE  StateAt(After(st, key, members).histories[s], Len(st.histories[s].records) + m)
           = LastOn(st, members, s, b)
<1> DEFINE T == On(members, s)
           f == InOrder(T)
           c == Cardinality(T)
           h == st.histories[s]
           g == After(st, key, members).histories[s]
           L == Len(h.records)
           D == {i \in 1 .. L + m : IsDecision(g.records[i].entry)}
           B == {j \in 1 .. b - 1 :
                   IsDecision(members[j].entry) /\ EntrySubject(members[j].entry) = s}
<1>1. /\ members \in Seq(AppendMember) /\ Len(members) \in Nat
      /\ DOMAIN members = 1 .. Len(members)
  BY DEF Appendable
<1>2. /\ g.origin = h.origin /\ L \in Nat /\ c \in Nat
      /\ DOMAIN h.records = 1 .. L
      /\ \A i \in DOMAIN h.records : g.records[i] = h.records[i]
      /\ \A k \in 1 .. c : g.records[L + k] = StoredBatch(st, key, members)[f[k]]
  BY AfterHistory
<1>3. T \subseteq 1 .. Len(members)
  BY <1>1 DEF On
<1>4. /\ f \in [1 .. c -> T]
      /\ \A k, l \in 1 .. c : k < l <=> f[k] < f[l]
      /\ \A i \in T : \E k \in 1 .. c : f[k] = i
  BY <1>1, <1>3, InOrderFacts
<1>5. \A k \in 1 .. c :
        g.records[L + k].entry = members[f[k]].entry
        /\ EntrySubject(members[f[k]].entry) = s /\ f[k] \in 1 .. Len(members)
  <2>1. ASSUME NEW k \in 1 .. c
        PROVE  /\ g.records[L + k].entry = members[f[k]].entry
               /\ EntrySubject(members[f[k]].entry) = s /\ f[k] \in 1 .. Len(members)
    <3>1. f[k] \in T /\ f[k] \in DOMAIN members
      BY <1>1, <1>3, <1>4
    <3>2. g.records[L + k] = StoredBatch(st, key, members)[f[k]]
      BY <1>2
    <3>3. StoredBatch(st, key, members)[f[k]] = StoredAs(st, key, members, f[k])
      BY <3>1 DEF StoredBatch
    <3>4. StoredAs(st, key, members, f[k]).entry = members[f[k]].entry
      BY DEF StoredAs
    <3>5. EntrySubject(members[f[k]].entry) = s
      BY <3>1 DEF On
    <3> QED
      BY <1>1, <3>1, <3>2, <3>3, <3>4, <3>5
  <2> QED
    BY <2>1
<1>6. m \in Nat /\ m <= c /\ b \in Nat /\ b - 1 \in Nat /\ b - 1 <= Len(members)
  BY <1>1, <1>2
<1>7. \A k \in 1 .. c : k <= m <=> f[k] < b
  OBVIOUS
<1>8. \A j \in B : \E k \in 1 .. m : f[k] = j
  <2>1. ASSUME NEW j \in B
        PROVE  \E k \in 1 .. m : f[k] = j
    <3>1. j \in T /\ j < b
      BY <1>1, <1>6 DEF On
    <3>2. PICK k \in 1 .. c : f[k] = j
      BY <1>4, <3>1
    <3>3. k \in 1 .. m
      BY <1>2, <1>6, <1>7, <3>1, <3>2
    <3> QED
      BY <3>2, <3>3
  <2> QED
    BY <2>1
<1>9. \A k \in 1 .. m : /\ k \in 1 .. c /\ L + k \in 1 .. L + m
                        /\ f[k] \in B <=> L + k \in D
  <2>1. ASSUME NEW k \in 1 .. m
        PROVE  /\ k \in 1 .. c /\ L + k \in 1 .. L + m
               /\ f[k] \in B <=> L + k \in D
    <3>1. k \in 1 .. c /\ L + k \in 1 .. L + m
      BY <1>2, <1>6
    <3>2. f[k] \in 1 .. b - 1
      BY <1>5, <1>6, <1>7, <3>1
    <3> HIDE DEF g, f, L
    <3> QED
      BY <1>5, <3>1, <3>2
  <2> QED
    BY <2>1
<1> HIDE DEF f, g, c, T, L, h
<1>10. CASE B = {}
  <2>1. \A i \in D : i \in 1 .. L
    <3>1. ASSUME NEW i \in D, i \notin 1 .. L
          PROVE  FALSE
      <4>1. i - L \in 1 .. m /\ L + (i - L) = i
        BY <1>2, <1>6, <3>1
      <4> QED
        BY <1>9, <1>10, <4>1
    <3> QED
      BY <3>1
  <2>2. D = {i \in 1 .. L : IsDecision(g.records[i].entry)}
    <3>1. \A i \in 1 .. L : i \in 1 .. L + m
      BY <1>2, <1>6
    <3> QED
      BY <2>1, <3>1
  <2>3. StateAt(g, L + m) = StateAt(g, L)
    BY <2>2 DEF StateAt
  <2>4. StateAt(g, L) = StateAt(h, L)
    BY <1>2, StatesStay
  <2>5. StateAt(h, L) = st.instances[s]
    BY DEF StoreHolds, HistoryHolds, h, L
  <2> QED
    BY <1>10, <2>3, <2>4, <2>5 DEF LastOn, g, h, L
<1>11. CASE B # {}
  <2>1. B \subseteq 1 .. b - 1
    OBVIOUS
  <2>2. Max(B) \in B /\ \A j \in B : j <= Max(B)
    BY <1>6, <1>11, <2>1, LastPlace
  <2>3. PICK k \in 1 .. m : f[k] = Max(B)
    BY <1>8, <2>2
  <2>4. L + k \in D /\ k \in 1 .. c
    BY <1>9, <2>2, <2>3
  <2>5. ASSUME NEW i \in D
        PROVE  i <= L + k
    <3>1. i \in Int /\ L \in Int /\ k \in Int /\ m \in Int
      BY <1>2, <1>6
    <3>2. CASE i <= L
      BY <3>1, <3>2, <1>2, <2>3
    <3>3. CASE i > L
      <4>1. i - L \in 1 .. m /\ L + (i - L) = i
        BY <1>2, <1>6, <3>1, <3>3
      <4>2. f[i - L] \in B /\ i - L \in 1 .. c
        BY <1>9, <4>1
      <4>3. f[i - L] <= f[k]
        BY <2>2, <2>3, <4>2
      <4>4. f[i - L] \in 1 .. Len(members) /\ f[k] \in 1 .. Len(members)
        BY <1>5, <2>4, <4>2
      <4>5. ~ (f[k] < f[i - L])
        BY <4>3, <4>4
      <4>6. ~ (k < i - L)
        BY <1>4, <2>4, <4>2, <4>5
      <4> QED
        BY <3>1, <4>6
    <3> QED
      BY <3>1, <3>2, <3>3
  <2>6. D \subseteq 1 .. L + m /\ L + m \in Nat
    BY <1>2, <1>6
  <2>7. StateAt(g, L + m) = g.records[Max(D)].entry.instance
    BY <2>4 DEF StateAt
  <2>8. LastOn(st, members, s, b) = members[Max(B)].entry.instance
    BY <1>11 DEF LastOn
  <2> HIDE DEF B, D
  <2>9. Max(D) = L + k
    BY <2>4, <2>5, <2>6, MaxIs
  <2> QED
    BY <1>5, <2>3, <2>4, <2>7, <2>8, <2>9 DEF g, h, L
<1> QED
  BY <1>10, <1>11

(* The state an append leaves of a subject. *)
LEMMA AfterInstance ==
  ASSUME NEW st, NEW key, NEW members, Appendable(st, key, members), NEW s \in Subjects,
         StoreHolds(st)
  PROVE  After(st, key, members).instances[s]
           = LastOn(st, members, s, Len(members) + 1)
<1> DEFINE stored == StoredBatch(st, key, members)
           n == Len(stored)
           A == {i \in 1 .. n : stored[i].receipt.subject = s /\ IsDecision(stored[i].entry)}
           B == {j \in 1 .. Len(members) + 1 - 1 :
                   IsDecision(members[j].entry) /\ EntrySubject(members[j].entry) = s}
<1>1. /\ members \in Seq(AppendMember) /\ Len(members) \in Nat
      /\ DOMAIN members = 1 .. Len(members) /\ Len(members) + 1 - 1 = Len(members)
  BY DEF Appendable
<1>2. n = Len(members)
  BY <1>1 DEF StoredBatch
<1>3. \A i \in DOMAIN members : /\ stored[i].receipt.subject = EntrySubject(members[i].entry)
                                /\ stored[i].entry = members[i].entry
  BY StoredFields DEF StoreHolds, Appendable
<1>4. A = B
  BY <1>1, <1>2, <1>3
<1>5. After(st, key, members).instances[s]
        = IF A = {} THEN st.instances[s] ELSE stored[Max(A)].entry.instance
  BY DEF After, Publish
<1>6. LastOn(st, members, s, Len(members) + 1)
        = IF B = {} THEN st.instances[s] ELSE members[Max(B)].entry.instance
  BY DEF LastOn
<1>7. B # {} => Max(B) \in DOMAIN members
  <2>1. ASSUME B # {} PROVE Max(B) \in B
    <3>1. B \subseteq 1 .. Len(members)
      BY <1>1
    <3> HIDE DEF B
    <3> QED
      BY <1>1, <2>1, <3>1, LastPlace
  <2> QED
    BY <1>1, <2>1
<1> HIDE DEF A, B, stored
<1> QED
  BY <1>3, <1>4, <1>5, <1>6, <1>7

(* An append keeps every history valid. *)
LEMMA AfterHistoryHolds ==
  ASSUME NEW st, StoreHolds(st), NEW key, NEW members, Appendable(st, key, members),
         NEW s \in Subjects
  PROVE  HistoryHolds(After(st, key, members), s)
<1> DEFINE T == On(members, s)
           f == InOrder(T)
           c == Cardinality(T)
           h == st.histories[s]
           g == After(st, key, members).histories[s]
           L == Len(h.records)
           stored == StoredBatch(st, key, members)
<1>1. /\ st \in MemoryState /\ key \in Key /\ members \in Seq(AppendMember)
      /\ \A t \in Subjects : HistoryHolds(st, t)
      /\ \A i \in DOMAIN members : EntryId(members[i].entry) \in RecordIds
      /\ Len(members) \in Nat /\ DOMAIN members = 1 .. Len(members)
  BY DEF StoreHolds, Appendable
<1>2. /\ g.origin = h.origin /\ g.evidence = h.evidence /\ L \in Nat /\ c \in Nat
      /\ DOMAIN h.records = 1 .. L /\ DOMAIN g.records = 1 .. L + c
      /\ Len(g.records) = L + c
      /\ \A i \in DOMAIN h.records : g.records[i] = h.records[i]
      /\ \A k \in 1 .. c : g.records[L + k] = stored[f[k]]
  BY AfterHistory
<1>3. T \subseteq 1 .. Len(members)
  BY <1>1 DEF On
<1>4. \A k, l \in 1 .. c : k < l <=> f[k] < f[l]
  BY <1>1, <1>3, InOrderFacts
<1>5. \A k \in 1 .. c : f[k] \in T /\ f[k] \in DOMAIN members
  BY OfSubjectFacts
<1> DEFINE first == IF h.records = << >> THEN 0
                    ELSE Last(h.records).receipt.position.subject + 1
<1>6. /\ first \in Nat
      /\ \A i \in DOMAIN h.records : h.records[i].receipt.position.subject < first
  BY <1>1, FirstFacts
<1>7. \A k \in 1 .. c : stored[f[k]].receipt.position.subject = first + k - 1
  BY OfSubjectFacts
<1>8. \A k \in 1 .. c :
        stored[f[k]].receipt.position.store = st.next_store_position + f[k] - 1
  BY <1>1, <1>5, StoredFields
<1>9. \A i \in DOMAIN h.records :
        h.records[i].receipt.position.store < st.next_store_position
  BY DEF StoreHolds, RecordsPlaced
<1>10. \A i \in DOMAIN h.records :
         h.records[i].receipt.position.store \in Nat
         /\ h.records[i].receipt.position.subject \in Nat
  BY <1>1, HistoryFacts, RecordFacts
<1>11. st.next_store_position \in Nat
  <2>1. st.next_store_position \in 0 .. MaxPosition + 1
    BY <1>1 DEF MemoryState
  <2> QED
    BY <2>1, RecordedAssumption
<1> HIDE DEF f, g, c, T, L, h, stored, first
<1>12. \A i \in 1 .. L + c : i \in 1 .. L \/ (i - L \in 1 .. c /\ i = L + (i - L))
  BY <1>2
<1>13. ASSUME NEW i \in DOMAIN h.records
       PROVE  /\ OfItsEntry(s, g.records[i])
              /\ validate_entry(g.records[i], StateAt(g, i - 1)) = "ok"
  <2>1. i - 1 \in Nat /\ \A j \in 1 .. i - 1 : j \in DOMAIN h.records
    BY <1>2
  <2>2. StateAt(g, i - 1) = StateAt(h, i - 1)
    BY <1>2, <2>1, StatesStay
  <2>3. OfItsEntry(s, h.records[i]) /\ validate_entry(h.records[i], StateAt(h, i - 1)) = "ok"
    BY <1>1 DEF HistoryHolds, h
  <2> QED
    BY <1>2, <2>2, <2>3
<1>14. ASSUME NEW k \in 1 .. c
       PROVE  /\ OfItsEntry(s, g.records[L + k])
              /\ validate_entry(g.records[L + k], StateAt(g, L + k - 1)) = "ok"
  <2> DEFINE i == f[k]
  <2>1. i \in T /\ i \in DOMAIN members /\ g.records[L + k] = stored[i]
    BY <1>2, <1>5
  <2>2. EntrySubject(members[i].entry) = s
    BY <2>1 DEF On, T
  <2>3. validate_entry(members[i], LastOn(st, members, s, i)) = "ok"
    BY <1>1, <2>1, <2>2, AppendAdmitted DEF Appendable
  <2>4. /\ stored[i].entry = members[i].entry /\ stored[i].expect = members[i].expect
        /\ stored[i].receipt.record_id = EntryId(stored[i].entry)
        /\ stored[i].receipt.subject = EntrySubject(stored[i].entry)
        /\ stored[i].receipt.revision = EntryRevision(stored[i].entry)
        /\ stored[i].receipt.batch_key = key /\ stored[i].receipt.member_index = i - 1
    BY <1>1, <2>1, StoredFields DEF stored
  <2>5. key.kind = "single" => i = 1 /\ EntryId(members[i].entry) = key.id
    BY <1>1, <2>1 DEF Appendable
  <2>6. OfItsEntry(s, stored[i])
    BY <2>2, <2>4, <2>5 DEF OfItsEntry
  <2>7. k - 1 \in 0 .. c /\ i \in 1 .. Len(members) + 1 /\ L + k - 1 = L + (k - 1)
    BY <1>1, <1>2, <2>1
  <2>8. \A l \in 1 .. c : l <= k - 1 <=> f[l] < i
    <3>1. \A l \in 1 .. c : l <= k - 1 <=> l < k
      BY <1>2
    <3> QED
      BY <1>4, <3>1
  <2>9. StateAt(g, L + (k - 1)) = LastOn(st, members, s, i)
    BY <2>7, <2>8, StateReached DEF g, L, h, c, f, T
  <2>10. validate_entry(stored[i], LastOn(st, members, s, i)) = "ok"
    BY <2>3, <2>4 DEF validate_entry
  <2> QED
    BY <2>1, <2>6, <2>7, <2>9, <2>10
<1>15. ASSUME NEW i \in DOMAIN g.records, NEW j \in DOMAIN g.records, i < j
       PROVE  LaterThan(g.records[i], g.records[j])
  <2>1. i \in 1 .. L + c /\ j \in 1 .. L + c /\ L \in Int
    BY <1>2
  <2>2. CASE i \in 1 .. L /\ j \in 1 .. L
    BY <1>1, <1>2, <1>15, <2>2 DEF HistoryHolds, h
  <2>3. CASE i \in 1 .. L /\ j - L \in 1 .. c
    <3> DEFINE k == j - L
    <3>0. j = L + k /\ k \in 1 .. c /\ i \in DOMAIN h.records
      BY <1>2, <2>1, <2>3
    <3> HIDE DEF k
    <3>1. g.records[j] = stored[f[k]] /\ g.records[i] = h.records[i]
      BY <1>2, <3>0
    <3>2. f[k] \in 1 .. Len(members)
      BY <1>1, <1>5, <3>0
    <3>3. /\ h.records[i].receipt.position.subject < first
          /\ h.records[i].receipt.position.store < st.next_store_position
          /\ h.records[i].receipt.position.store \in Nat
          /\ h.records[i].receipt.position.subject \in Nat
      BY <1>6, <1>9, <1>10, <3>0
    <3>4. /\ stored[f[k]].receipt.position.subject = first + k - 1
          /\ stored[f[k]].receipt.position.store = st.next_store_position + f[k] - 1
      BY <1>7, <1>8, <3>0
    <3>5. f[k] - 1 >= 0 /\ k - 1 >= 0 /\ f[k] \in Int /\ k \in Int
      BY <1>1, <1>2, <3>0, <3>2
    <3> QED
      BY <1>6, <1>11, <3>1, <3>3, <3>4, <3>5 DEF LaterThan
  <2>4. CASE i - L \in 1 .. c /\ j - L \in 1 .. c
    <3> DEFINE k == i - L
               l == j - L
    <3>0. i = L + k /\ j = L + l /\ k \in 1 .. c /\ l \in 1 .. c /\ k < l
      BY <1>2, <1>15, <2>1, <2>4
    <3> HIDE DEF k, l
    <3>1. g.records[i] = stored[f[k]] /\ g.records[j] = stored[f[l]]
      BY <1>2, <3>0
    <3>2. f[k] \in 1 .. Len(members) /\ f[l] \in 1 .. Len(members)
      BY <1>1, <1>5, <3>0
    <3>3. f[k] < f[l]
      BY <1>4, <3>0
    <3>4. /\ stored[f[k]].receipt.position.subject = first + k - 1
          /\ stored[f[k]].receipt.position.store = st.next_store_position + f[k] - 1
          /\ stored[f[l]].receipt.position.subject = first + l - 1
          /\ stored[f[l]].receipt.position.store = st.next_store_position + f[l] - 1
      BY <1>7, <1>8, <3>0
    <3>5. f[k] \in Int /\ f[l] \in Int /\ k \in Int /\ l \in Int
      BY <1>1, <1>2, <3>0, <3>2
    <3> QED
      BY <1>6, <1>11, <3>0, <3>1, <3>3, <3>4, <3>5 DEF LaterThan
  <2> QED
    BY <1>12, <1>15, <2>1, <2>2, <2>3, <2>4
<1>16. StateAt(g, Len(g.records)) = After(st, key, members).instances[s]
  <2>1. c \in 0 .. c /\ Len(members) + 1 \in 1 .. Len(members) + 1
    BY <1>1, <1>2
  <2>2. \A k \in 1 .. c : k <= c <=> f[k] < Len(members) + 1
    <3>1. \A k \in 1 .. c : k <= c /\ f[k] \in 1 .. Len(members)
      BY <1>1, <1>2, <1>5
    <3> QED
      BY <1>1, <3>1
  <2>3. StateAt(g, L + c) = LastOn(st, members, s, Len(members) + 1)
    BY <2>1, <2>2, StateReached DEF g, L, h, c, f, T
  <2> QED
    BY <1>2, <2>3, AfterInstance
<1>17. \A i \in DOMAIN g.records :
         OfItsEntry(s, g.records[i]) /\ validate_entry(g.records[i], StateAt(g, i - 1)) = "ok"
  <2>1. ASSUME NEW i \in DOMAIN g.records, i \notin 1 .. L
        PROVE  OfItsEntry(s, g.records[i])
               /\ validate_entry(g.records[i], StateAt(g, i - 1)) = "ok"
    <3>1. i - L \in 1 .. c /\ i = L + (i - L)
      BY <1>2, <1>12, <2>1
    <3>2. PICK k \in 1 .. c : i = L + k
      BY <3>1
    <3>3. OfItsEntry(s, g.records[L + k])
          /\ validate_entry(g.records[L + k], StateAt(g, L + k - 1)) = "ok"
      BY <1>14
    <3>4. L + k - 1 = i - 1
      BY <1>2, <3>2
    <3>5. OfItsEntry(s, g.records[i])
      BY <3>2, <3>3
    <3>6. validate_entry(g.records[i], StateAt(g, i - 1)) = "ok"
      BY <3>2, <3>3, <3>4
    <3> QED
      BY <3>5, <3>6
  <2> QED
    BY <1>2, <1>13, <2>1
<1>18. /\ g.origin = None => g.evidence = << >>
       /\ g.origin # None => g.origin.subject = s /\ BoundaryValid(g.origin, g.evidence)
  BY <1>1, <1>2 DEF HistoryHolds, h
<1> QED
  BY <1>15, <1>16, <1>17, <1>18 DEF HistoryHolds, g

(* A place of a history after an append is an old one or a member's. *)
LEMMA AfterPlace ==
  ASSUME NEW st, StoreHolds(st), NEW key, NEW members, Appendable(st, key, members),
         NEW s \in Subjects
  PROVE  LET stored == StoredBatch(st, key, members)
             f == InOrder(On(members, s))
             c == Cardinality(On(members, s))
             h == st.histories[s]
             g == After(st, key, members).histories[s]
             L == Len(h.records)
         IN /\ \A i \in DOMAIN g.records :
                 \/ i \in DOMAIN h.records /\ g.records[i] = h.records[i]
                 \/ \E k \in 1 .. c :
                      /\ i = L + k /\ f[k] \in DOMAIN members
                      /\ EntrySubject(members[f[k]].entry) = s
                      /\ g.records[i] = stored[f[k]]
            /\ \A i \in DOMAIN h.records : i \in DOMAIN g.records /\ g.records[i] = h.records[i]
            /\ \A j \in On(members, s) : \E i \in DOMAIN g.records : g.records[i] = stored[j]
<1> DEFINE stored == StoredBatch(st, key, members)
           f == InOrder(On(members, s))
           c == Cardinality(On(members, s))
           h == st.histories[s]
           g == After(st, key, members).histories[s]
           L == Len(h.records)
<1>1. /\ L \in Nat /\ c \in Nat
      /\ DOMAIN h.records = 1 .. L /\ DOMAIN g.records = 1 .. L + c
      /\ \A i \in DOMAIN h.records : g.records[i] = h.records[i]
      /\ \A k \in 1 .. c : g.records[L + k] = stored[f[k]]
  BY AfterHistory
<1>2. \A k \in 1 .. c : f[k] \in On(members, s) /\ f[k] \in DOMAIN members
  BY OfSubjectFacts
<1>3. \A j \in On(members, s) : \E k \in 1 .. c : f[k] = j
  <2>1. On(members, s) \subseteq 1 .. Len(members) /\ Len(members) \in Nat
    BY DEF On, Appendable
  <2> QED
    BY <2>1, InOrderFacts
<1> HIDE DEF stored, f, c, h, g, L
<1>4. ASSUME NEW i \in DOMAIN g.records, i \notin DOMAIN h.records
      PROVE  \E k \in 1 .. c :
               /\ i = L + k /\ f[k] \in DOMAIN members
               /\ EntrySubject(members[f[k]].entry) = s
               /\ g.records[i] = stored[f[k]]
  <2>1. i - L \in 1 .. c /\ i = L + (i - L)
    BY <1>1, <1>4
  <2>2. PICK k \in 1 .. c : i = L + k
    BY <2>1
  <2>3. f[k] \in DOMAIN members /\ EntrySubject(members[f[k]].entry) = s
    BY <1>2 DEF On
  <2>4. g.records[i] = stored[f[k]]
    BY <1>1, <2>2
  <2> QED
    BY <2>2, <2>3, <2>4
<1>5. ASSUME NEW j \in On(members, s)
      PROVE  \E i \in DOMAIN g.records : g.records[i] = stored[j]
  <2>1. PICK k \in 1 .. c : f[k] = j
    BY <1>3
  <2>2. L + k \in 1 .. L + c
    BY <1>1
  <2> QED
    BY <1>1, <2>1, <2>2
<1>6. \A i \in DOMAIN h.records : i \in DOMAIN g.records /\ g.records[i] = h.records[i]
  BY <1>1
<1> QED
  BY <1>1, <1>4, <1>5, <1>6 DEF stored, f, c, h, g, L

(* What the ids name after an append, and what its key holds. *)
LEMMA AfterIndex ==
  ASSUME NEW st, StoreHolds(st), NEW key, NEW members, Appendable(st, key, members)
  PROVE  LET stored == StoredBatch(st, key, members)
             nu == After(st, key, members)
         IN /\ \A i \in DOMAIN members :
                 nu.records[EntryId(members[i].entry)] = AsCommitted(stored[i])
            /\ \A r \in RecordIds :
                 (\A i \in DOMAIN members : EntryId(members[i].entry) # r)
                   => nu.records[r] = st.records[r]
            /\ \A r \in RecordIds : st.records[r] # None => nu.records[r] = st.records[r]
            /\ nu.batches[key] = stored
            /\ \A k \in Key \ {key} : nu.batches[k] = st.batches[k]
            /\ \A k \in Key : st.batches[k] # << >> => nu.batches[k] = st.batches[k]
            /\ nu.next_store_position = st.next_store_position + Len(members)
            /\ stored \in Seq(StoredRecord) /\ Len(stored) = Len(members)
<1> DEFINE stored == StoredBatch(st, key, members)
           nu == After(st, key, members)
           n == Len(stored)
           index == [i \in 1 .. n |-> stored[i].receipt.record_id]
<1>1. /\ st \in MemoryState /\ key \in Key /\ members \in Seq(AppendMember)
      /\ \A t \in Subjects : HistoryHolds(st, t)
      /\ \A i \in DOMAIN members : EntryId(members[i].entry) \in RecordIds
      /\ Len(members) \in Nat /\ DOMAIN members = 1 .. Len(members)
      /\ \A i, j \in DOMAIN members :
           EntryId(members[i].entry) = EntryId(members[j].entry) => i = j
  BY DEF StoreHolds, Appendable
<1>2. stored \in [1 .. Len(members) -> StoredRecord]
      /\ \A i \in DOMAIN members : stored[i].receipt.record_id = EntryId(members[i].entry)
  <2>1. \A i \in DOMAIN members :
          stored[i] \in StoredRecord /\ stored[i].receipt.record_id = EntryId(members[i].entry)
    BY <1>1, StoredFields
  <2>2. stored = [i \in 1 .. Len(members) |-> stored[i]]
    BY <1>1 DEF StoredBatch
  <2> HIDE DEF stored
  <2> QED
    BY <1>1, <2>1, <2>2
<1>3. stored \in Seq(StoredRecord) /\ n = Len(members)
  <2> HIDE DEF stored
  <2> QED
    BY <1>1, <1>2
<1>4. \A r \in RecordIds : nu.records[r] =
        IF \E i \in 1 .. n : index[i] = r
        THEN [kind |-> "committed", record |-> stored[CHOOSE i \in 1 .. n : index[i] = r]]
        ELSE st.records[r]
  BY DEF After, Publish
<1>5. \A i \in DOMAIN members : i \in 1 .. n /\ index[i] = EntryId(members[i].entry)
  BY <1>1, <1>2, <1>3
<1>6. nu.batches = [st.batches EXCEPT ![key] = stored]
      /\ nu.next_store_position = st.next_store_position + n
  BY DEF After, Publish
<1> HIDE DEF stored, nu, index, n
<1>7. ASSUME NEW i \in DOMAIN members
      PROVE  nu.records[EntryId(members[i].entry)] = AsCommitted(stored[i])
  <2> DEFINE r == EntryId(members[i].entry)
             j == CHOOSE j \in 1 .. n : index[j] = r
  <2>1. j \in 1 .. n /\ index[j] = r
    BY <1>5
  <2>2. j \in DOMAIN members /\ index[j] = EntryId(members[j].entry)
    BY <1>1, <1>3, <1>5, <2>1
  <2>3. j = i
    BY <1>1, <2>1, <2>2
  <2>4. nu.records[r] = [kind |-> "committed", record |-> stored[j]]
    BY <1>1, <1>4, <2>1
  <2> QED
    BY <2>3, <2>4 DEF AsCommitted
<1>8. ASSUME NEW r \in RecordIds, \A i \in DOMAIN members : EntryId(members[i].entry) # r
      PROVE  nu.records[r] = st.records[r]
  <2>1. DOMAIN members = 1 .. n
    BY <1>1, <1>3
  <2>2. \A i \in 1 .. n : index[i] # r
    BY <1>5, <1>8, <2>1
  <2> QED
    BY <1>4, <2>2
<1>9. ASSUME NEW r \in RecordIds, st.records[r] # None
      PROVE  nu.records[r] = st.records[r]
  BY <1>8, <1>9 DEF Appendable
<1>10. /\ nu.batches[key] = stored
       /\ \A k \in Key \ {key} : nu.batches[k] = st.batches[k]
  BY <1>1, <1>6 DEF MemoryState
<1>11. \A k \in Key : st.batches[k] # << >> => nu.batches[k] = st.batches[k]
  BY <1>10 DEF Appendable
<1> QED
  BY <1>3, <1>6, <1>7, <1>8, <1>9, <1>10, <1>11 DEF stored, nu, n

(* An append keeps the index exact. *)
LEMMA AfterIndexNames ==
  ASSUME NEW st, StoreHolds(st), NEW key, NEW members, Appendable(st, key, members)
  PROVE  LET nu == After(st, key, members) IN
         /\ \A s \in Subjects : IndexNames(nu, s)
         /\ \A r \in RecordIds : Named(nu, r)
<1> DEFINE stored == StoredBatch(st, key, members)
           nu == After(st, key, members)
<1>1. /\ st \in MemoryState /\ key \in Key /\ members \in Seq(AppendMember)
      /\ \A t \in Subjects : HistoryHolds(st, t)
      /\ \A i \in DOMAIN members : EntryId(members[i].entry) \in RecordIds
  BY DEF StoreHolds, Appendable
<1>2. \A i \in DOMAIN members : /\ stored[i].entry = members[i].entry
                                /\ stored[i].receipt.record_id = EntryId(members[i].entry)
                                /\ members[i].entry \in Document
  <2>1. ASSUME NEW i \in DOMAIN members
        PROVE  /\ stored[i].entry = members[i].entry /\ members[i].entry \in Document
               /\ stored[i].receipt.record_id = EntryId(members[i].entry)
    <3>1. stored[i] \in StoredRecord /\ stored[i].entry = members[i].entry
          /\ stored[i].receipt.record_id = EntryId(stored[i].entry)
      BY <1>1, StoredFields
    <3> HIDE DEF stored
    <3> QED
      BY <3>1, RecordFacts
  <2> QED
    BY <2>1
<1>3. ASSUME NEW s \in Subjects
      PROVE  IndexNames(nu, s)
  <2> DEFINE h == st.histories[s]
             g == nu.histories[s]
  <2>1. ASSUME NEW i \in DOMAIN g.records
        PROVE  nu.records[EntryId(g.records[i].entry)] = AsCommitted(g.records[i])
    <3>1. CASE i \in DOMAIN h.records /\ g.records[i] = h.records[i]
      <4>1. /\ EntryId(h.records[i].entry) \in RecordIds
            /\ st.records[EntryId(h.records[i].entry)] = AsCommitted(h.records[i])
            /\ AsCommitted(h.records[i]) \in RecordLookup
        BY <3>1, RecordNamed DEF AsCommitted, RecordLookup
      <4>2. AsCommitted(h.records[i]) # None
        BY <4>1, RecordedAssumption
      <4> HIDE DEF g, h, nu
      <4> QED
        BY <3>1, <4>1, <4>2, AfterIndex DEF nu
    <3>2. CASE \E j \in DOMAIN members : g.records[i] = stored[j]
      <4>1. PICK j \in DOMAIN members : g.records[i] = stored[j]
        BY <3>2
      <4> QED
        BY <1>2, <4>1, AfterIndex
    <3> QED
      BY <3>1, <3>2, AfterPlace
  <2>2. ASSUME NEW i \in DOMAIN g.evidence
        PROVE  /\ EntryId(g.evidence[i]) \in RecordIds
               /\ nu.records[EntryId(g.evidence[i])] = AsImported(g.evidence[i])
    <3>1. g.evidence = h.evidence
      BY AfterHistory
    <3>2. /\ EntryId(h.evidence[i]) \in RecordIds
          /\ st.records[EntryId(h.evidence[i])] = AsImported(h.evidence[i])
      BY <3>1 DEF StoreHolds, IndexNames
    <3>3. h.evidence[i] \in Document
      BY <1>1, <3>1, HistoryFacts
    <3>4. AsImported(h.evidence[i]) # None
      BY <3>3, RecordedAssumption DEF AsImported, RecordLookup
    <3> HIDE DEF g, h, nu
    <3> QED
      BY <3>1, <3>2, <3>4, AfterIndex DEF nu
  <2> QED
    BY <2>1, <2>2 DEF IndexNames
<1>4. ASSUME NEW r \in RecordIds
      PROVE  Named(nu, r)
  <2>1. CASE \E i \in DOMAIN members : EntryId(members[i].entry) = r
    <3>1. PICK i \in DOMAIN members : EntryId(members[i].entry) = r
      BY <2>1
    <3> DEFINE s == EntrySubject(members[i].entry)
    <3>2. nu.records[r] = AsCommitted(stored[i])
      BY <3>1, AfterIndex
    <3>3. LookupEntry(nu.records[r]) = members[i].entry
          /\ nu.records[r].kind = "committed" /\ nu.records[r].record = stored[i]
      BY <1>2, <3>2 DEF LookupEntry, AsCommitted
    <3>4. s \in Subjects /\ i \in On(members, s)
      BY <1>2, EntryFacts DEF On
    <3>5. \E j \in DOMAIN nu.histories[s].records : nu.histories[s].records[j] = stored[i]
      BY <3>4, AfterPlace
    <3> HIDE DEF nu, stored
    <3> QED
      BY <3>1, <3>3, <3>5 DEF Named
  <2>2. CASE ~ \E i \in DOMAIN members : EntryId(members[i].entry) = r
    <3>1. nu.records[r] = st.records[r]
      BY <2>2, AfterIndex
    <3>2. CASE st.records[r] = None
      <4> HIDE DEF nu
      <4> QED
        BY <3>1, <3>2 DEF Named
    <3>3. CASE st.records[r] # None
      <4> DEFINE l == st.records[r]
                 s == EntrySubject(LookupEntry(l))
                 h == st.histories[s]
                 g == nu.histories[s]
      <4>1. Named(st, r) /\ s \in Subjects
        BY <3>3, NamedFacts DEF StoreHolds
      <4>2. \A i \in DOMAIN h.records : i \in DOMAIN g.records /\ g.records[i] = h.records[i]
        BY <4>1, AfterPlace
      <4>3. g.evidence = h.evidence
        BY <4>1, AfterHistory
      <4>4. /\ EntryId(LookupEntry(l)) = r
            /\ l.kind = "committed" => \E i \in DOMAIN h.records : h.records[i] = l.record
            /\ l.kind = "imported" => \E i \in DOMAIN h.evidence : h.evidence[i] = l.entry
        BY <3>3, <4>1 DEF Named
      <4>5. l.kind = "committed" => \E i \in DOMAIN g.records : g.records[i] = l.record
        BY <4>2, <4>4
      <4>6. l.kind = "imported" => \E i \in DOMAIN g.evidence : g.evidence[i] = l.entry
        BY <4>3, <4>4
      <4> HIDE DEF nu
      <4> QED
        BY <3>1, <4>4, <4>5, <4>6 DEF Named
    <3> QED
      BY <3>2, <3>3
  <2> QED
    BY <2>1, <2>2
<1> QED
  BY <1>3, <1>4

(* An append keeps every batch what it was, and its own is the members. *)
LEMMA AfterBatches ==
  ASSUME NEW st, StoreHolds(st), NEW key, NEW members, Appendable(st, key, members),
         NEW k \in Key
  PROVE  BatchHolds(After(st, key, members), k)
<1> DEFINE stored == StoredBatch(st, key, members)
           nu == After(st, key, members)
<1>1. /\ st \in MemoryState /\ key \in Key /\ members \in Seq(AppendMember)
      /\ \A t \in Subjects : HistoryHolds(st, t)
      /\ \A i \in DOMAIN members : EntryId(members[i].entry) \in RecordIds
      /\ Len(members) \in Nat /\ DOMAIN members = 1 .. Len(members)
  BY DEF StoreHolds, Appendable
<1>2. CASE k = key
  <2>1. nu.batches[k] = stored /\ Len(stored) = Len(members)
    BY <1>2, AfterIndex
  <2>2. DOMAIN stored = DOMAIN members
    BY DEF StoredBatch
  <2>3. st.next_store_position \in Int
    <3>1. st.next_store_position \in 0 .. MaxPosition + 1
      BY <1>1 DEF MemoryState
    <3> QED
      BY <3>1, RecordedAssumption
  <2>4. ASSUME NEW i \in DOMAIN members
        PROVE  /\ stored[i].receipt.batch_key = k /\ stored[i].receipt.member_index = i - 1
               /\ EntryId(stored[i].entry) \in RecordIds
               /\ nu.records[EntryId(stored[i].entry)] = AsCommitted(stored[i])
               /\ stored[i].receipt.position.store = stored[1].receipt.position.store + i - 1
               /\ stored[i].entry = members[i].entry
    <3>1. 1 \in DOMAIN members /\ i \in Int
      BY <1>1
    <3>2. \A j \in DOMAIN members :
            /\ stored[j].entry = members[j].entry
            /\ stored[j].receipt.batch_key = key /\ stored[j].receipt.member_index = j - 1
            /\ stored[j].receipt.position.store = st.next_store_position + j - 1
      BY <1>1, StoredFields
    <3>3. nu.records[EntryId(members[i].entry)] = AsCommitted(stored[i])
      BY AfterIndex
    <3> HIDE DEF stored, nu
    <3>4. stored[i].receipt.position.store = stored[1].receipt.position.store + i - 1
      BY <2>3, <3>1, <3>2
    <3> QED
      BY <1>1, <1>2, <3>2, <3>3, <3>4
  <2>5. k.kind = "single" => Len(members) = 1 /\ EntryId(members[1].entry) = k.id
    BY <1>2 DEF Appendable
  <2> HIDE DEF stored, nu
  <2>6. k.kind = "single" => Len(stored) = 1 /\ EntryId(stored[1].entry) = k.id
    BY <1>1, <2>1, <2>4, <2>5
  <2> QED
    BY <2>1, <2>2, <2>4, <2>6 DEF BatchHolds, nu
<1>3. CASE k # key
  <2> DEFINE batch == st.batches[k]
  <2>1. nu.batches[k] = batch /\ BatchHolds(st, k)
    BY <1>3, AfterIndex DEF StoreHolds
  <2>2. ASSUME NEW i \in DOMAIN batch
        PROVE  /\ batch[i].receipt.batch_key = k /\ batch[i].receipt.member_index = i - 1
               /\ EntryId(batch[i].entry) \in RecordIds
               /\ nu.records[EntryId(batch[i].entry)] = AsCommitted(batch[i])
               /\ batch[i].receipt.position.store
                    = batch[1].receipt.position.store + i - 1
    <3>1. /\ batch[i].receipt.batch_key = k /\ batch[i].receipt.member_index = i - 1
          /\ EntryId(batch[i].entry) \in RecordIds
          /\ st.records[EntryId(batch[i].entry)] = AsCommitted(batch[i])
          /\ batch[i].receipt.position.store = batch[1].receipt.position.store + i - 1
      BY <2>1 DEF BatchHolds
    <3>2. st.records[EntryId(batch[i].entry)] # None
      <4>1. batch[i] \in StoredRecord
        BY <1>1 DEF MemoryState
      <4>2. AsCommitted(batch[i]) \in RecordLookup
        BY <4>1 DEF AsCommitted, RecordLookup
      <4> QED
        BY <3>1, <4>2, RecordedAssumption
    <3> QED
      BY <3>1, <3>2, AfterIndex
  <2>3. k.kind = "single" /\ batch # << >> => Len(batch) = 1 /\ EntryId(batch[1].entry) = k.id
    BY <2>1 DEF BatchHolds
  <2> HIDE DEF nu, batch
  <2> QED
    BY <2>1, <2>2, <2>3 DEF BatchHolds, nu
<1> QED
  BY <1>2, <1>3

(* An append takes positions nobody had. *)
LEMMA AfterPlaced ==
  ASSUME NEW st, StoreHolds(st), NEW key, NEW members, Appendable(st, key, members)
  PROVE  RecordsPlaced(After(st, key, members))
<1> DEFINE stored == StoredBatch(st, key, members)
           nu == After(st, key, members)
           next == st.next_store_position
           n == Len(members)
           at(s, i) == st.histories[s].records[i].receipt.position.store
           to(s, i) == nu.histories[s].records[i].receipt.position.store
<1>1. /\ st \in MemoryState /\ key \in Key /\ members \in Seq(AppendMember)
      /\ \A t \in Subjects : HistoryHolds(st, t)
      /\ \A i \in DOMAIN members : EntryId(members[i].entry) \in RecordIds
      /\ n \in Nat /\ DOMAIN members = 1 .. n
  BY DEF StoreHolds, Appendable
<1>2. next \in Nat
  <2>1. next \in 0 .. MaxPosition + 1
    BY <1>1 DEF MemoryState
  <2> QED
    BY <2>1, RecordedAssumption
<1>3. \A i \in DOMAIN members :
        /\ stored[i].receipt.batch_key = key /\ stored[i].receipt.member_index = i - 1
        /\ stored[i].receipt.position.store = next + i - 1
  BY <1>1, StoredFields
<1>4. /\ nu.batches[key] = stored /\ DOMAIN stored = DOMAIN members
      /\ nu.next_store_position = next + n
      /\ \A k \in Key : st.batches[k] # << >> => nu.batches[k] = st.batches[k]
  BY AfterIndex DEF StoredBatch
<1>5. ASSUME NEW s \in Subjects, NEW i \in DOMAIN st.histories[s].records
      PROVE  /\ InItsBatch(nu, st.histories[s].records[i])
             /\ at(s, i) \in Nat /\ at(s, i) < next
  <2> DEFINE x == st.histories[s].records[i]
             batch == st.batches[x.receipt.batch_key]
  <2>1. InItsBatch(st, x) /\ at(s, i) < next
    BY DEF StoreHolds, RecordsPlaced
  <2>2. x \in StoredRecord
    BY <1>1, HistoryFacts
  <2>3. x.receipt.batch_key \in Key /\ at(s, i) \in Nat
    BY <2>2, RecordFacts
  <2>4. batch \in Seq(StoredRecord) /\ x.receipt.member_index + 1 \in DOMAIN batch
    BY <1>1, <2>1, <2>3 DEF InItsBatch, MemoryState
  <2>5. batch # << >>
    BY <2>4
  <2>6. nu.batches[x.receipt.batch_key] = batch
    BY <1>4, <2>3, <2>5
  <2> HIDE DEF nu
  <2> QED
    BY <2>1, <2>3, <2>6 DEF InItsBatch
<1>6. ASSUME NEW j \in DOMAIN members
      PROVE  InItsBatch(nu, stored[j])
  <2>1. /\ stored[j].receipt.batch_key = key
        /\ stored[j].receipt.member_index + 1 = j
    BY <1>1, <1>3
  <2> HIDE DEF nu, stored
  <2> QED
    BY <1>4, <2>1 DEF InItsBatch
<1> DEFINE T(s) == On(members, s)
           f(s) == InOrder(T(s))
           c(s) == Cardinality(T(s))
           L(s) == Len(st.histories[s].records)
<1>7. ASSUME NEW s \in Subjects, NEW i \in DOMAIN nu.histories[s].records
      PROVE  \/ /\ i \in DOMAIN st.histories[s].records /\ to(s, i) = at(s, i)
                /\ nu.histories[s].records[i] = st.histories[s].records[i]
             \/ \E k \in 1 .. c(s) :
                  /\ i = L(s) + k /\ f(s)[k] \in DOMAIN members
                  /\ EntrySubject(members[f(s)[k]].entry) = s
                  /\ nu.histories[s].records[i] = stored[f(s)[k]]
                  /\ to(s, i) = next + f(s)[k] - 1
  <2>1. CASE i \in DOMAIN st.histories[s].records
             /\ nu.histories[s].records[i] = st.histories[s].records[i]
    BY <2>1
  <2>2. CASE \E k \in 1 .. c(s) :
                  /\ i = L(s) + k /\ f(s)[k] \in DOMAIN members
                  /\ EntrySubject(members[f(s)[k]].entry) = s
                  /\ nu.histories[s].records[i] = stored[f(s)[k]]
    BY <1>3, <2>2
  <2> QED
    BY <2>1, <2>2, AfterPlace
<1>8. \A s \in Subjects : \A k, l \in 1 .. c(s) : f(s)[k] = f(s)[l] => k = l
  <2>1. ASSUME NEW s \in Subjects, NEW k \in 1 .. c(s), NEW l \in 1 .. c(s), f(s)[k] = f(s)[l]
        PROVE  k = l
    <3>1. T(s) \subseteq 1 .. n
      BY <1>1 DEF On
    <3>2. c(s) \in Nat /\ f(s) \in [1 .. c(s) -> T(s)]
          /\ \A a, b \in 1 .. c(s) : a < b <=> f(s)[a] < f(s)[b]
      BY <1>1, <3>1, InOrderFacts
    <3>3. f(s)[k] \in 1 .. n
      BY <3>1, <3>2
    <3>4. ~ (f(s)[k] < f(s)[l]) /\ ~ (f(s)[l] < f(s)[k])
      BY <2>1, <3>3
    <3>5. ~ (k < l) /\ ~ (l < k)
      BY <3>2, <3>4
    <3> QED
      BY <3>2, <3>5
  <2> QED
    BY <2>1
<1>9. \A j \in DOMAIN members : j \in 1 .. n /\ next <= next + j - 1 /\ next + j - 1 < next + n
  BY <1>1, <1>2
<1>10. \A s, t \in Subjects :
         \A i \in DOMAIN st.histories[s].records, j \in DOMAIN st.histories[t].records :
           at(s, i) = at(t, j) => s = t /\ i = j
  BY DEF StoreHolds, RecordsPlaced
<1> HIDE DEF nu, stored, T, f, c, L, at, to, next, n
<1>11. ASSUME NEW s \in Subjects, NEW i \in DOMAIN nu.histories[s].records
       PROVE  /\ InItsBatch(nu, nu.histories[s].records[i])
              /\ to(s, i) < nu.next_store_position
  <2>1. CASE i \in DOMAIN st.histories[s].records /\ to(s, i) = at(s, i)
             /\ nu.histories[s].records[i] = st.histories[s].records[i]
    <3>1. at(s, i) \in Nat /\ at(s, i) < next
      BY <1>5, <2>1
    <3>2. at(s, i) < next + n
      BY <1>1, <1>2, <3>1
    <3> QED
      BY <1>4, <1>5, <2>1, <3>2
  <2>2. CASE \E j \in DOMAIN members :
               nu.histories[s].records[i] = stored[j] /\ to(s, i) = next + j - 1
    BY <1>4, <1>6, <1>9, <2>2
  <2> QED
    BY <1>7, <2>1, <2>2
<1>12. ASSUME NEW s \in Subjects, NEW t \in Subjects, NEW i \in DOMAIN nu.histories[s].records,
              NEW j \in DOMAIN nu.histories[t].records, to(s, i) = to(t, j)
       PROVE  s = t /\ i = j
  <2>1. CASE i \in DOMAIN st.histories[s].records /\ j \in DOMAIN st.histories[t].records
             /\ to(s, i) = at(s, i) /\ to(t, j) = at(t, j)
    BY ZenonT(60), <1>10, <1>12, <2>1
  <2>2. ASSUME NEW u \in Subjects, NEW a \in DOMAIN st.histories[u].records,
               NEW b \in DOMAIN members
        PROVE  at(u, a) # next + b - 1
    <3>1. at(u, a) \in Nat /\ at(u, a) < next /\ next <= next + b - 1 /\ b \in Int
      BY <1>1, <1>5, <1>9
    <3> QED
      BY <1>2, <3>1
  <2>3. CASE \E k \in 1 .. c(s), l \in 1 .. c(t) :
                  /\ i = L(s) + k /\ f(s)[k] \in DOMAIN members
                  /\ EntrySubject(members[f(s)[k]].entry) = s
                  /\ to(s, i) = next + f(s)[k] - 1
                  /\ j = L(t) + l /\ f(t)[l] \in DOMAIN members
                  /\ EntrySubject(members[f(t)[l]].entry) = t
                  /\ to(t, j) = next + f(t)[l] - 1
    <3>1. PICK k \in 1 .. c(s), l \in 1 .. c(t) :
                  /\ i = L(s) + k /\ f(s)[k] \in DOMAIN members
                  /\ EntrySubject(members[f(s)[k]].entry) = s
                  /\ to(s, i) = next + f(s)[k] - 1
                  /\ j = L(t) + l /\ f(t)[l] \in DOMAIN members
                  /\ EntrySubject(members[f(t)[l]].entry) = t
                  /\ to(t, j) = next + f(t)[l] - 1
      BY <2>3
    <3>2. f(s)[k] \in Int /\ f(t)[l] \in Int
      BY <1>1, <3>1
    <3>3. f(s)[k] = f(t)[l]
      BY <1>2, <1>12, <3>1, <3>2
    <3>4. s = t
      BY <3>1, <3>3
    <3>5. k = l
      BY <1>8, <3>3, <3>4
    <3> QED
      BY <3>1, <3>4, <3>5
  <2> QED
    BY <1>7, <1>12, <2>1, <2>2, <2>3
<1> QED
  BY <1>11, <1>12 DEF RecordsPlaced, nu, to

(* What holds of a store holds of it after an append. *)
LEMMA AfterHolds ==
  ASSUME NEW st, StoreHolds(st), NEW key, NEW members, Appendable(st, key, members)
  PROVE  StoreHolds(After(st, key, members))
<1> DEFINE stored == StoredBatch(st, key, members)
           nu == After(st, key, members)
<1>1. /\ st \in MemoryState /\ key \in Key /\ members \in Seq(AppendMember)
      /\ \A t \in Subjects : HistoryHolds(st, t)
      /\ \A i \in DOMAIN members : EntryId(members[i].entry) \in RecordIds
      /\ Len(members) \in Nat /\ DOMAIN members = 1 .. Len(members)
  BY DEF StoreHolds, Appendable
<1>2. ASSUME NEW s \in Subjects
      PROVE  nu.histories[s] \in SubjectHistory /\ nu.instances[s] \in Instance \cup {None}
  <2>1. nu.histories[s] \in SubjectHistory /\ HistoryHolds(nu, s)
    BY AfterHistory, AfterHistoryHolds
  <2> DEFINE B == {j \in 1 .. Len(members) + 1 - 1 :
                   IsDecision(members[j].entry) /\ EntrySubject(members[j].entry) = s}
  <2>2. nu.instances[s]
          = IF B = {} THEN st.instances[s] ELSE members[Max(B)].entry.instance
    BY AfterInstance DEF LastOn
  <2>3. st.instances[s] \in Instance \cup {None}
    BY <1>1, HistoryFacts
  <2>4. B # {} => Max(B) \in B
    <3>1. B \subseteq 1 .. Len(members)
      BY <1>1
    <3> HIDE DEF B
    <3> QED
      BY <1>1, <3>1, LastPlace
  <2>5. B # {} => members[Max(B)].entry \in RecordedCommit
    BY <2>4 DEF IsDecision
  <2> HIDE DEF nu, B
  <2>6. B # {} => members[Max(B)].entry.instance \in Instance
    BY <2>5 DEF RecordedCommit
  <2> QED
    BY <2>1, <2>2, <2>3, <2>6
<1>3. ASSUME NEW r \in RecordIds
      PROVE  nu.records[r] \in RecordLookup \cup {None}
  <2>1. CASE \E i \in DOMAIN members : EntryId(members[i].entry) = r
    <3>1. PICK i \in DOMAIN members : EntryId(members[i].entry) = r
      BY <2>1
    <3>2. nu.records[r] = AsCommitted(stored[i])
      BY <3>1, AfterIndex
    <3>3. stored[i] \in StoredRecord
      BY <1>1, StoredFields
    <3> HIDE DEF nu, stored
    <3> QED
      BY <3>2, <3>3 DEF AsCommitted, RecordLookup
  <2>2. CASE ~ \E i \in DOMAIN members : EntryId(members[i].entry) = r
    <3>1. nu.records[r] = st.records[r]
      BY <2>2, AfterIndex
    <3> QED
      BY <1>1, <3>1 DEF MemoryState
  <2> QED
    BY <2>1, <2>2
<1>4. ASSUME NEW k \in Key
      PROVE  nu.batches[k] \in Seq(StoredRecord)
  BY <1>1, AfterIndex DEF MemoryState
<1>5. nu.next_store_position \in 0 .. MaxPosition + 1
  <2>1. st.next_store_position \in 0 .. MaxPosition + 1 /\ MaxPosition \in Nat
    BY <1>1, RecordedAssumption DEF MemoryState
  <2>2. nu.next_store_position = st.next_store_position + Len(members)
    BY AfterIndex
  <2> HIDE DEF nu
  <2>3. CASE Len(members) = 0
    BY <2>1, <2>2, <2>3
  <2>4. CASE Len(members) > 0
    <3>1. Len(members) \in DOMAIN members
      BY <1>1, <2>4
    <3>2. ~Exhausted(st, members, Len(members))
      BY <1>1, <3>1, AppendAdmitted DEF Appendable
    <3>3. ~ (st.next_store_position + Len(members) - 1 > MaxPosition)
      BY <3>2 DEF Exhausted, StorePosition
    <3> QED
      BY <1>1, <2>1, <2>2, <3>3
  <2> QED
    BY <1>1, <2>3, <2>4
<1>6. nu = [instances |-> nu.instances, histories |-> nu.histories, records |-> nu.records,
            batches |-> nu.batches, next_store_position |-> nu.next_store_position]
      /\ nu.instances = [s \in Subjects |-> nu.instances[s]]
      /\ nu.histories = [s \in Subjects |-> nu.histories[s]]
      /\ nu.records = [r \in RecordIds |-> nu.records[r]]
      /\ nu.batches = [k \in Key |-> nu.batches[k]]
  BY <1>1 DEF After, Publish, MemoryState
<1> HIDE DEF nu
<1>7. /\ nu.instances \in [Subjects -> Instance \cup {None}]
      /\ nu.histories \in [Subjects -> SubjectHistory]
      /\ nu.records \in [RecordIds -> RecordLookup \cup {None}]
      /\ nu.batches \in [Key -> Seq(StoredRecord)]
  BY <1>2, <1>3, <1>4, <1>6
<1>8. nu \in MemoryState
  BY <1>5, <1>6, <1>7 DEF MemoryState
<1> QED
  BY <1>8, AfterHistoryHolds, AfterIndexNames, AfterBatches, AfterPlaced
     DEF StoreHolds, nu

-----------------------------------------------------------------------------
(* An import. *)

(* Well formed evidence has an id. *)
LEMMA EvidenceIds ==
  ASSUME NEW import \in Import, BoundaryValid(import.anchor, import.evidence),
         NEW i \in DOMAIN import.evidence
  PROVE  /\ import.evidence[i] \in Document
         /\ EntryId(import.evidence[i]) \in RecordIds
         /\ EntrySubject(import.evidence[i]) = import.anchor.subject
<1> DEFINE e == import.evidence[i]
<1>1. e \in Document
  BY DEF Import
<1>2. EntryValid(e) /\ EntrySubject(e) = import.anchor.subject
  BY DEF BoundaryValid
<1> HIDE DEF e
<1>3. EntryId(e) # Blank
  BY <1>2 DEF EntryValid, EntryId, CommitValid, ObservationValid
<1>4. EntryId(e) \in RecordId
  BY <1>1, EntryFacts
<1> QED
  BY <1>1, <1>2, <1>3, <1>4 DEF RecordId, e

(* What an import changes. *)
LEMMA SeedFacts ==
  ASSUME NEW st, StoreHolds(st), NEW import \in Import, MaySeed(st, import)
  PROVE  LET nu == seed_imported(st, import)
             s == import.anchor.subject
         IN /\ s \in Subjects
            /\ st.histories[s].records = << >> /\ st.histories[s].evidence = << >>
            /\ nu.instances[s] = import.anchor
            /\ nu.histories[s] = [origin |-> import.anchor, evidence |-> import.evidence,
                                  records |-> << >>]
            /\ \A t \in Subjects : t # s => /\ nu.instances[t] = st.instances[t]
                                            /\ nu.histories[t] = st.histories[t]
            /\ \A i \in DOMAIN import.evidence :
                 nu.records[EntryId(import.evidence[i])] = AsImported(import.evidence[i])
            /\ \A r \in RecordIds :
                 (\A i \in DOMAIN import.evidence : EntryId(import.evidence[i]) # r)
                   => nu.records[r] = st.records[r]
            /\ \A r \in RecordIds : st.records[r] # None => nu.records[r] = st.records[r]
            /\ nu.batches = st.batches /\ nu.next_store_position = st.next_store_position
            /\ nu \in MemoryState
<1> DEFINE nu == seed_imported(st, import)
           s == import.anchor.subject
           at(r) == {i \in DOMAIN import.evidence : EntryId(import.evidence[i]) = r}
           history == [origin |-> import.anchor, evidence |-> import.evidence, records |-> << >>]
           record == [r \in RecordIds |->
                        IF at(r) = {} THEN st.records[r]
                        ELSE [kind |-> "imported",
                              entry |-> import.evidence[CHOOSE i \in at(r) : TRUE]]]
<1>1. st \in MemoryState /\ import.anchor \in Instance /\ import.evidence \in Seq(Document)
      /\ BoundaryValid(import.anchor, import.evidence)
      /\ ~HasHistory(st.histories[s])
      /\ \A i \in DOMAIN import.evidence : st.records[EntryId(import.evidence[i])] = None
  BY DEF StoreHolds, Import, MaySeed
<1>2. s \in Subjects
  BY <1>1, InstanceFacts
<1>3. st.histories[s].records = << >> /\ st.histories[s].evidence = << >>
  BY <1>1, <1>2 DEF HasHistory, StoreHolds, HistoryHolds
<1>4. /\ nu.instances = [st.instances EXCEPT ![s] = import.anchor]
      /\ nu.histories = [st.histories EXCEPT ![s] = history]
      /\ nu.records = record
      /\ nu.batches = st.batches /\ nu.next_store_position = st.next_store_position
  BY <1>1 DEF seed_imported, MemoryState
<1>5. ASSUME NEW i \in DOMAIN import.evidence
      PROVE  record[EntryId(import.evidence[i])] = AsImported(import.evidence[i])
  <2> DEFINE r == EntryId(import.evidence[i])
             j == CHOOSE j \in at(r) : TRUE
  <2>1. r \in RecordIds
    BY <1>1, EvidenceIds
  <2>2. i \in at(r)
    OBVIOUS
  <2>3. j \in at(r)
    BY <2>2
  <2>4. j = i
    BY <1>1, <2>3 DEF BoundaryValid
  <2> QED
    BY <2>1, <2>2, <2>4 DEF AsImported
<1>6. ASSUME NEW r \in RecordIds,
             \A i \in DOMAIN import.evidence : EntryId(import.evidence[i]) # r
      PROVE  record[r] = st.records[r]
  BY <1>6
<1>7. ASSUME NEW r \in RecordIds
      PROVE  record[r] \in RecordLookup \cup {None}
  <2>1. CASE \A i \in DOMAIN import.evidence : EntryId(import.evidence[i]) # r
    BY <1>1, <1>6, <2>1 DEF MemoryState
  <2>2. CASE \E i \in DOMAIN import.evidence : EntryId(import.evidence[i]) = r
    <3>1. PICK i \in DOMAIN import.evidence : EntryId(import.evidence[i]) = r
      BY <2>2
    <3>2. import.evidence[i] \in Document /\ record[r] = AsImported(import.evidence[i])
      BY <1>1, <1>5, <3>1, EvidenceIds
    <3> HIDE DEF record
    <3> QED
      BY <3>2 DEF AsImported, RecordLookup
  <2> QED
    BY <2>1, <2>2
<1>8. record = [r \in RecordIds |-> record[r]]
  OBVIOUS
<1>9. history \in SubjectHistory
  BY <1>1 DEF SubjectHistory
<1>10. DOMAIN nu = DOMAIN st
       /\ nu = [f \in DOMAIN nu |-> nu[f]]
  BY <1>1 DEF seed_imported, MemoryState
<1> HIDE DEF nu, history, record
<1>11. /\ nu.instances \in [Subjects -> Instance \cup {None}]
       /\ nu.histories \in [Subjects -> SubjectHistory]
       /\ nu.records \in [RecordIds -> RecordLookup \cup {None}]
       /\ nu.batches \in [Key -> Seq(StoredRecord)]
       /\ nu.next_store_position \in 0 .. MaxPosition + 1
       /\ nu.instances[s] = import.anchor /\ nu.histories[s] = history
       /\ \A t \in Subjects : t # s => /\ nu.instances[t] = st.instances[t]
                                       /\ nu.histories[t] = st.histories[t]
  BY <1>1, <1>2, <1>4, <1>7, <1>8, <1>9 DEF MemoryState
<1>12. nu \in MemoryState
  <2>1. DOMAIN st = {"instances", "histories", "records", "batches", "next_store_position"}
    BY <1>1 DEF MemoryState
  <2>2. nu = [instances |-> nu.instances, histories |-> nu.histories, records |-> nu.records,
              batches |-> nu.batches, next_store_position |-> nu.next_store_position]
    BY <1>10, <2>1
  <2> QED
    BY <1>11, <2>2 DEF MemoryState
<1>13. \A r \in RecordIds : st.records[r] # None => record[r] = st.records[r]
  BY <1>1, <1>6
<1> QED
  BY <1>2, <1>3, <1>4, <1>5, <1>6, <1>11, <1>12, <1>13 DEF nu, history

(* What holds of a store holds of it after an import. *)
LEMMA SeedHolds ==
  ASSUME NEW st, StoreHolds(st), NEW import \in Import, MaySeed(st, import)
  PROVE  StoreHolds(seed_imported(st, import))
<1> DEFINE nu == seed_imported(st, import)
           s == import.anchor.subject
<1>1. BoundaryValid(import.anchor, import.evidence) /\ s \in Subjects
  BY ZenonT(60), SeedFacts DEF MaySeed
<1>2. /\ nu.instances[s] = import.anchor /\ nu.histories[s].origin = import.anchor
      /\ nu.histories[s].evidence = import.evidence /\ nu.histories[s].records = << >>
      /\ st.histories[s].records = << >> /\ st.histories[s].evidence = << >>
  <2>1. /\ nu.instances[s] = import.anchor
        /\ nu.histories[s] = [origin |-> import.anchor, evidence |-> import.evidence,
                              records |-> << >>]
        /\ st.histories[s].records = << >> /\ st.histories[s].evidence = << >>
    BY SeedFacts
  <2> HIDE DEF nu
  <2> QED
    BY <2>1
<1>3. \A t \in Subjects : t # s => /\ nu.instances[t] = st.instances[t]
                                   /\ nu.histories[t] = st.histories[t]
  BY SeedFacts
<1>4. \A t \in Subjects : nu.histories[t].records = st.histories[t].records
  BY <1>2, <1>3
<1>5. /\ \A r \in RecordIds : st.records[r] # None => nu.records[r] = st.records[r]
      /\ \A i \in DOMAIN import.evidence :
           nu.records[EntryId(import.evidence[i])] = AsImported(import.evidence[i])
      /\ \A r \in RecordIds :
           (\A i \in DOMAIN import.evidence : EntryId(import.evidence[i]) # r)
             => nu.records[r] = st.records[r]
      /\ nu.batches = st.batches /\ nu.next_store_position = st.next_store_position
      /\ nu \in MemoryState
  BY SeedFacts
<1>6. import.anchor # None
  BY InstanceFacts DEF Import
<1>7. st \in MemoryState
  BY DEF StoreHolds
<1> HIDE DEF nu
<1>8. ASSUME NEW t \in Subjects
      PROVE  HistoryHolds(nu, t)
  <2>1. CASE t = s
    <3>1. StateAt(nu.histories[s], 0) = import.anchor
      BY <1>2, StateAtStep
    <3>2. Len(nu.histories[s].records) = 0 /\ DOMAIN nu.histories[s].records = {}
      BY <1>2
    <3> QED
      BY <1>1, <1>2, <1>6, <2>1, <3>1, <3>2 DEF HistoryHolds
  <2>2. CASE t # s
    <3>1. HistoryHolds(st, t)
      BY DEF StoreHolds
    <3> QED
      BY <1>3, <2>2, <3>1 DEF HistoryHolds
  <2> QED
    BY <2>1, <2>2
<1>9. ASSUME NEW t \in Subjects
      PROVE  IndexNames(nu, t)
  <2>1. ASSUME NEW i \in DOMAIN nu.histories[t].records
        PROVE  nu.records[EntryId(nu.histories[t].records[i].entry)]
                 = AsCommitted(nu.histories[t].records[i])
    <3> DEFINE x == st.histories[t].records[i]
    <3>1. /\ x \in StoredRecord /\ EntryId(x.entry) \in RecordIds
          /\ st.records[EntryId(x.entry)] = AsCommitted(x)
      BY <1>4, RecordNamed
    <3>2. AsCommitted(x) # None
      BY <3>1, RecordedAssumption DEF AsCommitted, RecordLookup
    <3> QED
      BY <1>4, <1>5, <3>1, <3>2
  <2>2. ASSUME NEW i \in DOMAIN nu.histories[t].evidence
        PROVE  /\ EntryId(nu.histories[t].evidence[i]) \in RecordIds
               /\ nu.records[EntryId(nu.histories[t].evidence[i])]
                    = AsImported(nu.histories[t].evidence[i])
    <3>1. CASE t = s
      BY <1>1, <1>2, <1>5, <3>1, EvidenceIds
    <3>2. CASE t # s
      <4> DEFINE e == st.histories[t].evidence[i]
      <4>1. nu.histories[t].evidence[i] = e /\ i \in DOMAIN st.histories[t].evidence
        BY <1>3, <3>2
      <4>2. /\ e \in Document /\ EntryId(e) \in RecordIds
            /\ st.records[EntryId(e)] = AsImported(e)
        BY <1>7, <4>1, HistoryFacts DEF StoreHolds, IndexNames
      <4>3. AsImported(e) # None
        BY <4>2, RecordedAssumption DEF AsImported, RecordLookup
      <4> QED
        BY <1>5, <4>1, <4>2, <4>3
    <3> QED
      BY <3>1, <3>2
  <2> QED
    BY <2>1, <2>2 DEF IndexNames
<1>10. ASSUME NEW r \in RecordIds
       PROVE  Named(nu, r)
  <2>1. CASE \E i \in DOMAIN import.evidence : EntryId(import.evidence[i]) = r
    <3>1. PICK i \in DOMAIN import.evidence : EntryId(import.evidence[i]) = r
      BY <2>1
    <3>2. nu.records[r] = AsImported(import.evidence[i])
      BY <1>5, <3>1
    <3>3. LookupEntry(nu.records[r]) = import.evidence[i]
          /\ nu.records[r].kind = "imported" /\ nu.records[r].entry = import.evidence[i]
      BY <3>2 DEF LookupEntry, AsImported
    <3>4. EntrySubject(import.evidence[i]) = s
      BY <1>1, EvidenceIds
    <3> QED
      BY <1>2, <3>1, <3>3, <3>4 DEF Named
  <2>2. CASE ~ \E i \in DOMAIN import.evidence : EntryId(import.evidence[i]) = r
    <3>1. nu.records[r] = st.records[r]
      BY <1>5, <2>2
    <3>2. CASE st.records[r] # None
      <4> DEFINE l == st.records[r]
                 t == EntrySubject(LookupEntry(l))
      <4>1. Named(st, r) /\ t \in Subjects
        BY <3>2, NamedFacts DEF StoreHolds
      <4>2. t = s => st.histories[t].evidence = << >>
        BY <1>2
      <4>3. \A i : i \in DOMAIN st.histories[t].evidence =>
              /\ i \in DOMAIN nu.histories[t].evidence
              /\ nu.histories[t].evidence[i] = st.histories[t].evidence[i]
        <5>1. CASE t = s
          <6>1. DOMAIN st.histories[t].evidence = {}
            BY <4>2, <5>1
          <6> QED
            BY <6>1
        <5>2. CASE t # s
          BY <1>3, <4>1, <5>2
        <5> QED
          BY <5>1, <5>2
      <4> QED
        BY <1>4, <3>1, <3>2, <4>1, <4>3 DEF Named
    <3> QED
      BY <3>1, <3>2 DEF Named
  <2> QED
    BY <2>1, <2>2
<1>11. ASSUME NEW k \in Key
       PROVE  BatchHolds(nu, k)
  <2> DEFINE batch == st.batches[k]
  <2>1. nu.batches[k] = batch /\ BatchHolds(st, k) /\ batch \in Seq(StoredRecord)
    BY <1>5, <1>7 DEF StoreHolds, MemoryState
  <2>2. ASSUME NEW i \in DOMAIN batch
        PROVE  nu.records[EntryId(batch[i].entry)] = AsCommitted(batch[i])
    <3>1. EntryId(batch[i].entry) \in RecordIds
          /\ st.records[EntryId(batch[i].entry)] = AsCommitted(batch[i])
      BY <2>1 DEF BatchHolds
    <3>2. AsCommitted(batch[i]) \in RecordLookup
      BY <2>1 DEF AsCommitted, RecordLookup
    <3> QED
      BY <1>5, <3>1, <3>2, RecordedAssumption
  <2> HIDE DEF batch
  <2> QED
    BY <2>1, <2>2 DEF BatchHolds, batch
<1>12. RecordsPlaced(nu)
  <2>1. RecordsPlaced(st)
    BY DEF StoreHolds
  <2>2. \A x : InItsBatch(nu, x) <=> InItsBatch(st, x)
    BY <1>5 DEF InItsBatch
  <2>3. \A t \in Subjects : \A i \in DOMAIN nu.histories[t].records :
          LET x == nu.histories[t].records[i] IN
          InItsBatch(nu, x) /\ x.receipt.position.store < nu.next_store_position
    <3>1. ASSUME NEW t \in Subjects, NEW i \in DOMAIN nu.histories[t].records
          PROVE  /\ InItsBatch(nu, nu.histories[t].records[i])
                 /\ nu.histories[t].records[i].receipt.position.store < nu.next_store_position
      <4>1. nu.histories[t].records = st.histories[t].records
        BY <1>4
      <4>2. /\ InItsBatch(st, st.histories[t].records[i])
            /\ st.histories[t].records[i].receipt.position.store < st.next_store_position
        BY <2>1, <4>1 DEF RecordsPlaced
      <4> QED
        BY <1>5, <2>2, <4>1, <4>2
    <3> QED
      BY <3>1
  <2>4. \A t, u \in Subjects :
          \A i \in DOMAIN nu.histories[t].records, j \in DOMAIN nu.histories[u].records :
            nu.histories[t].records[i].receipt.position.store
              = nu.histories[u].records[j].receipt.position.store => t = u /\ i = j
    <3>1. ASSUME NEW t \in Subjects, NEW u \in Subjects,
                 NEW i \in DOMAIN nu.histories[t].records,
                 NEW j \in DOMAIN nu.histories[u].records,
                 nu.histories[t].records[i].receipt.position.store
                   = nu.histories[u].records[j].receipt.position.store
          PROVE  t = u /\ i = j
      <4>1. /\ nu.histories[t].records = st.histories[t].records
            /\ nu.histories[u].records = st.histories[u].records
        BY <1>4
      <4> QED
        BY <2>1, <3>1, <4>1 DEF RecordsPlaced
    <3> QED
      BY <3>1
  <2> QED
    BY <2>3, <2>4 DEF RecordsPlaced
<1> QED
  BY <1>5, <1>8, <1>9, <1>10, <1>11, <1>12 DEF StoreHolds, nu

-----------------------------------------------------------------------------
(* One transaction. *)

(* What every caller of append_transaction passes. *)
Formed(key, members) ==
  /\ key \in Key /\ members \in Seq(AppendMember) /\ members # << >>
  /\ \A i \in DOMAIN members : EntryId(members[i].entry) \in RecordIds
  /\ \A i, j \in DOMAIN members :
       EntryId(members[i].entry) = EntryId(members[j].entry) => i = j
  /\ key.kind = "single" => Len(members) = 1 /\ EntryId(members[1].entry) = key.id

(* A later store still has what an earlier one recorded. *)
Grows(old, new) ==
  /\ \A r \in RecordIds : old.records[r] # None => new.records[r] = old.records[r]
  /\ \A k \in Key : old.batches[k] # << >> => new.batches[k] = old.batches[k]

(* The receipt of the only member of a batch under a record id. *)
AnswersSingle(st, key, members, outcome) ==
  LET lookup == st.records[key.id] IN
  /\ key.kind = "single"
  /\ lookup # None
  /\ LookupEntry(lookup) = members[1].entry
  /\ outcome.answer = "committed" => outcome.receipt = SingleReceipt(lookup.record)

(* What a transaction may do and answer. *)
AppendOutcomes(st, key, members, done) ==
  LET stored == StoredBatch(st, key, members) IN
  \/ /\ Appendable(st, key, members)
     /\ done.state = After(st, key, members)
     /\ done.outcome = Outcome("committed", BatchReceipt(key, stored), FALSE)
  \/ /\ done.state = st /\ st.batches[key] # << >>
     /\ SameMembers(st.batches[key], members)
     /\ done.outcome = Outcome("committed", BatchReceipt(key, st.batches[key]), TRUE)
  \/ /\ done.state = st
     /\ AnswersSingle(st, key, members, done.outcome)
     /\ \/ /\ st.records[key.id].kind = "committed"
           /\ done.outcome = Outcome("committed", SingleReceipt(st.records[key.id].record), TRUE)
        \/ done.outcome = Outcome("historical", None, FALSE)
  \/ /\ done.state = st
     /\ \E why \in {"batch_conflict", "record_conflict", "previously_recorded",
                    "revision_conflict", "corrupt_history", "position_exhausted"} :
          done.outcome = Refused(why)

(* An append of well formed members ends in one of these ways. *)
LEMMA AppendCases ==
  ASSUME NEW st, StoreHolds(st), NEW key, NEW members, Formed(key, members)
  PROVE  AppendOutcomes(st, key, members, append_transaction(st, key, members))
<1> DEFINE done == append_transaction(st, key, members)
           prior == Prior(st, members)
           Known(i) == st.records[EntryId(members[i].entry)]
           stored == StoredBatch(st, key, members)
<1>1. /\ st \in MemoryState /\ key \in Key /\ members \in Seq(AppendMember)
      /\ Len(members) \in Nat /\ DOMAIN members = 1 .. Len(members) /\ 1 \in DOMAIN members
  BY DEF StoreHolds, Formed
<1>2. CASE st.batches[key] # << >>
  <2>1. CASE SameMembers(st.batches[key], members)
    <3>1. done = [state |-> st, outcome |-> Repeated(key, st.batches[key])]
      BY <1>2, <2>1 DEF append_transaction
    <3>2. Repeated(key, st.batches[key])
            = Outcome("committed", BatchReceipt(key, st.batches[key]), TRUE)
      BY DEF Repeated, Replay
    <3>3. /\ done.state = st
          /\ done.outcome = Outcome("committed", BatchReceipt(key, st.batches[key]), TRUE)
      BY <3>1, <3>2
    <3> HIDE DEF done
    <3> QED
      BY <1>2, <2>1, <3>3 DEF AppendOutcomes, done
  <2>2. CASE ~SameMembers(st.batches[key], members)
    <3>1. done = [state |-> st, outcome |-> Refused("batch_conflict")]
      BY <1>2, <2>2 DEF append_transaction
    <3> QED
      BY <3>1 DEF AppendOutcomes
  <2> QED
    BY <2>1, <2>2
<1>3. CASE st.batches[key] = << >> /\ \E i \in prior : LookupEntry(Known(i)) # members[i].entry
  <2>1. done = [state |-> st, outcome |-> Refused("record_conflict")]
    BY <1>3 DEF append_transaction
  <2> QED
    BY <2>1 DEF AppendOutcomes
<1>4. CASE /\ st.batches[key] = << >>
           /\ ~ \E i \in prior : LookupEntry(Known(i)) # members[i].entry
           /\ prior # {} /\ key.kind = "named"
  <2>1. done = [state |-> st, outcome |-> Refused("previously_recorded")]
    BY <1>4 DEF append_transaction
  <2> QED
    BY <2>1 DEF AppendOutcomes
<1>5. CASE /\ st.batches[key] = << >>
           /\ ~ \E i \in prior : LookupEntry(Known(i)) # members[i].entry
           /\ prior # {} /\ key.kind # "named"
  <2>1. done = [state |-> st, outcome |-> Recovered(Known(1), EvidenceHolds(st, Known(1)))]
    BY <1>5 DEF append_transaction
  <2>2. key.kind = "single"
    BY <1>1, <1>5 DEF Key
  <2>3. Len(members) = 1 /\ EntryId(members[1].entry) = key.id
    BY <2>2 DEF Formed
  <2>4. prior = {1} /\ Known(1) # None
    BY <1>1, <1>5, <2>3 DEF Prior
  <2>5. LookupEntry(Known(1)) = members[1].entry /\ Known(1) = st.records[key.id]
    BY <1>5, <2>3, <2>4
  <2> DEFINE holds == EvidenceHolds(st, Known(1))
             lookup == st.records[key.id]
  <2>6. done.state = st /\ done.outcome = Recovered(lookup, holds) /\ lookup # None
        /\ LookupEntry(lookup) = members[1].entry
    BY <2>1, <2>4, <2>5
  <2> HIDE DEF holds, lookup, done
  <2>7. CASE lookup.kind = "committed"
    <3>1. Recovered(lookup, holds) = Outcome("committed", SingleReceipt(lookup.record), TRUE)
      BY <2>7 DEF Recovered
    <3>2. AnswersSingle(st, key, members, done.outcome)
      BY <2>2, <2>6, <3>1 DEF AnswersSingle, Outcome, lookup
    <3> QED
      BY <2>6, <2>7, <3>1, <3>2 DEF AppendOutcomes, lookup, done
  <2>8. CASE lookup.kind # "committed" /\ lookup.kind = "imported" /\ holds
    <3>1. Recovered(lookup, holds) = Outcome("historical", None, FALSE)
      BY <2>8 DEF Recovered
    <3>2. AnswersSingle(st, key, members, done.outcome)
      BY <2>2, <2>6, <3>1 DEF AnswersSingle, Outcome, lookup
    <3> QED
      BY <2>6, <3>1, <3>2 DEF AppendOutcomes, done
  <2>9. CASE lookup.kind # "committed" /\ ~(lookup.kind = "imported" /\ holds)
    <3>1. Recovered(lookup, holds) = Refused("corrupt_history")
      BY <2>9 DEF Recovered
    <3> QED
      BY <2>6, <3>1 DEF AppendOutcomes, done
  <2> QED
    BY <2>7, <2>8, <2>9
<1>6. CASE st.batches[key] = << >> /\ prior = {} /\ Admission(st, members) # "ok"
  <2>1. done = [state |-> st, outcome |-> Refused(Admission(st, members))]
    BY <1>6 DEF append_transaction
  <2>2. Admission(st, members) \in {"revision_conflict", "corrupt_history", "position_exhausted"}
    <3>1. \A i : Verdict(st, members, i)
            \in {"ok", "revision_conflict", "corrupt_history", "position_exhausted"}
      BY DEF Verdict, validate_entry
    <3>2. Admission(st, members) = "ok" \/ \E i : Admission(st, members) = Verdict(st, members, i)
      BY DEF Admission
    <3> QED
      BY <1>6, <3>1, <3>2
  <2>3. done.state = st /\ done.outcome = Refused(Admission(st, members))
    BY <2>1
  <2> HIDE DEF done
  <2> QED
    BY <2>2, <2>3 DEF AppendOutcomes, done
<1>7. CASE st.batches[key] = << >> /\ prior = {} /\ Admission(st, members) = "ok"
  <2>1. \A i \in DOMAIN members : Known(i) = None
    BY <1>7 DEF Prior
  <2>2. Appendable(st, key, members)
    BY <1>7, <2>1 DEF Appendable, Formed
  <2>3. done = [state |-> Publish(st, key, stored),
                outcome |-> Outcome("committed", BatchReceipt(key, stored), FALSE)]
    BY <1>7 DEF append_transaction, StoredBatch
  <2> QED
    BY <2>2, <2>3 DEF AppendOutcomes, After
<1> QED
  BY <1>2, <1>3, <1>4, <1>5, <1>6, <1>7

(* A transaction keeps what holds of a store, and what it recorded. *)
LEMMA AppendKept ==
  ASSUME NEW st, StoreHolds(st), NEW key, NEW members, Formed(key, members)
  PROVE  LET nu == append_transaction(st, key, members).state IN
         StoreHolds(nu) /\ Grows(st, nu)
<1> DEFINE done == append_transaction(st, key, members)
<1>1. AppendOutcomes(st, key, members, done)
  BY AppendCases
<1>2. done.state = st
      \/ (Appendable(st, key, members) /\ done.state = After(st, key, members))
  BY <1>1 DEF AppendOutcomes
<1>3. Grows(st, st)
  BY DEF Grows
<1>4. ASSUME Appendable(st, key, members)
      PROVE  StoreHolds(After(st, key, members)) /\ Grows(st, After(st, key, members))
  BY <1>4, AfterHolds, AfterIndex DEF Grows
<1> HIDE DEF done
<1> QED
  BY <1>2, <1>3, <1>4 DEF done

(* An import does too. *)
LEMMA SeedKept ==
  ASSUME NEW st, StoreHolds(st), NEW import \in Import, MaySeed(st, import)
  PROVE  LET nu == seed_imported(st, import) IN StoreHolds(nu) /\ Grows(st, nu)
  BY SeedHolds, SeedFacts DEF Grows

(* The empty store holds. *)
LEMMA EmptyHolds == StoreHolds(EmptyState)
<1>1. EmptyState \in MemoryState
  <2>1. [origin |-> None, evidence |-> << >>, records |-> << >>] \in SubjectHistory
    BY DEF SubjectHistory
  <2>2. 0 \in 0 .. MaxPosition + 1
    BY RecordedAssumption
  <2> QED
    BY <2>1, <2>2 DEF EmptyState, MemoryState
<1>2. ASSUME NEW s \in Subjects
      PROVE  /\ EmptyState.histories[s] = [origin |-> None, evidence |-> << >>, records |-> << >>]
             /\ EmptyState.instances[s] = None
  BY DEF EmptyState
<1>3. ASSUME NEW s \in Subjects
      PROVE  /\ EmptyState.histories[s].origin = None
             /\ EmptyState.histories[s].evidence = << >>
             /\ EmptyState.histories[s].records = << >>
             /\ DOMAIN EmptyState.histories[s].records = {}
             /\ DOMAIN EmptyState.histories[s].evidence = {}
             /\ Len(EmptyState.histories[s].records) = 0
  BY <1>2
<1>4. ASSUME NEW s \in Subjects
      PROVE  HistoryHolds(EmptyState, s) /\ IndexNames(EmptyState, s)
  <2>1. StateAt(EmptyState.histories[s], 0) = None
    BY <1>3, StateAtStep
  <2> QED
    BY <1>2, <1>3, <2>1 DEF HistoryHolds, IndexNames
<1>5. \A r \in RecordIds : Named(EmptyState, r)
  BY DEF EmptyState, Named
<1>6. \A k \in Key : BatchHolds(EmptyState, k)
  <2>1. \A k \in Key : EmptyState.batches[k] = << >>
    BY DEF EmptyState
  <2> QED
    BY <2>1 DEF BatchHolds
<1>7. RecordsPlaced(EmptyState)
  BY <1>3 DEF RecordsPlaced
<1> QED
  BY <1>1, <1>4, <1>5, <1>6, <1>7 DEF StoreHolds

(* The instance served of a subject is of the subject. *)
LEMMA InstancePlaced ==
  ASSUME NEW st, StoreHolds(st), NEW s \in Subjects, st.instances[s] # None
  PROVE  st.instances[s] \in Instance /\ st.instances[s].subject = s
<1> DEFINE h == st.histories[s]
<1>1. st \in MemoryState /\ HistoryHolds(st, s)
  BY DEF StoreHolds
<1>2. StateAt(h, Len(h.records)) = st.instances[s] /\ Len(h.records) \in Nat
  BY <1>1, HistoryFacts DEF HistoryHolds
<1>3. Len(h.records) = 0 => h.origin # None
  BY <1>2, StateAtStep
<1>4. Len(h.records) \in 0 .. Len(h.records)
      /\ (Len(h.records) > 0 \/ h.origin # None)
  BY <1>2, <1>3
<1> QED
  BY <1>1, <1>2, <1>4, Begun

=============================================================================
