---------------------------- MODULE BridgeProofs ----------------------------
(***************************************************************************)
(* Safety of the synchronous bridge, for any number of calls, any capacity *)
(* of the queue and any mix of deadlines, panics and shutdowns.            *)
(***************************************************************************)
EXTENDS Bridge, SequenceTheorems, FiniteSetTheorems, TLAPS

(* The requests of an empty channel, of one that took a message, and of    *)
(* one that lost its first.                                                *)
LEMMA WorkInEmpty == WorkIn(<< >>) = {}
  BY DEF WorkIn

(* The work in a queue that one more item joined. *)
LEMMA WorkInAppend ==
  ASSUME NEW messages \in Seq(Calls \cup {Wake}), NEW m \in Calls \cup {Wake}
  PROVE  WorkIn(Append(messages, m)) = WorkIn(messages) \cup ({m} \cap Calls)
<1> DEFINE more == Append(messages, m)
<1>1. /\ DOMAIN messages = 1 .. Len(messages) /\ Len(messages) \in Nat
      /\ DOMAIN more = 1 .. Len(messages) + 1
      /\ more[Len(messages) + 1] = m
      /\ \A i \in DOMAIN messages : more[i] = messages[i]
  OBVIOUS
<1> HIDE DEF more
<1> QED
  BY <1>1 DEF WorkIn

(* The work in a queue that lost its head. *)
LEMMA WorkInTail ==
  ASSUME NEW messages \in Seq(Calls \cup {Wake}), messages # << >>
  PROVE  WorkIn(messages) = WorkIn(Tail(messages)) \cup ({Head(messages)} \cap Calls)
<1> DEFINE less == Tail(messages)
<1>1. /\ DOMAIN messages = 1 .. Len(messages) /\ Len(messages) \in Nat \ {0}
      /\ DOMAIN less = 1 .. Len(messages) - 1
      /\ Head(messages) = messages[1]
      /\ \A i \in DOMAIN less : less[i] = messages[i + 1]
  OBVIOUS
<1> HIDE DEF less
<1>2. ASSUME NEW x \in WorkIn(messages)
      PROVE  x \in WorkIn(less) \cup ({Head(messages)} \cap Calls)
  <2>1. PICK i \in DOMAIN messages : messages[i] = x
    BY DEF WorkIn
  <2>2. CASE i = 1
    BY <1>1, <2>1, <2>2 DEF WorkIn
  <2>3. CASE i # 1
    <3>1. i - 1 \in DOMAIN less /\ less[i - 1] = x
      BY <1>1, <2>1, <2>3
    <3> QED
      BY <3>1 DEF WorkIn
  <2> QED
    BY <2>2, <2>3
<1>3. ASSUME NEW x \in WorkIn(less) PROVE x \in WorkIn(messages)
  <2>1. PICK i \in DOMAIN less : less[i] = x
    BY DEF WorkIn
  <2>2. i + 1 \in DOMAIN messages /\ messages[i + 1] = x
    BY <1>1, <2>1
  <2> QED
    BY <2>2 DEF WorkIn
<1>4. {Head(messages)} \cap Calls \subseteq WorkIn(messages)
  BY <1>1 DEF WorkIn
<1> QED
  BY <1>2, <1>3, <1>4 DEF less

(* No request is repeated when a new one is appended, or the first leaves, *)
(* which is then not among the rest.                                       *)
LEMMA AppendOnce ==
  ASSUME NEW messages \in Seq(Calls \cup {Wake}), NEW m \in Calls \cup {Wake},
         NoRepeats(messages), m \notin WorkIn(messages)
  PROVE  NoRepeats(Append(messages, m))
<1> DEFINE more == Append(messages, m)
<1>1. /\ DOMAIN messages = 1 .. Len(messages) /\ Len(messages) \in Nat
      /\ DOMAIN more = 1 .. Len(messages) + 1
      /\ more[Len(messages) + 1] = m
      /\ \A i \in DOMAIN messages : more[i] = messages[i]
  OBVIOUS
<1>2. \A i \in DOMAIN messages : messages[i] \in Calls => messages[i] # m
  BY DEF WorkIn
<1> HIDE DEF more
<1> QED
  BY <1>1, <1>2 DEF NoRepeats

(* An item of the tail is not the head when no item is queued twice. *)
LEMMA TailOnce ==
  ASSUME NEW messages \in Seq(Calls \cup {Wake}), messages # << >>, NoRepeats(messages)
  PROVE  /\ NoRepeats(Tail(messages))
         /\ Head(messages) \in Calls => Head(messages) \notin WorkIn(Tail(messages))
<1> DEFINE less == Tail(messages)
<1>1. /\ DOMAIN messages = 1 .. Len(messages) /\ Len(messages) \in Nat \ {0}
      /\ DOMAIN less = 1 .. Len(messages) - 1
      /\ Head(messages) = messages[1]
      /\ \A i \in DOMAIN less : less[i] = messages[i + 1]
  OBVIOUS
<1> HIDE DEF less
<1> QED
  BY <1>1 DEF NoRepeats, WorkIn

(* When Shared::queued is zero, no request is in the channel. *)
LEMMA NothingQueued ==
  ASSUME InductiveInvariant, queued = 0
  PROVE  WorkIn(channel) = {}
<1>1. Line = {}
  BY FS_EmptySet DEF InductiveInvariant, LineIsCounted
<1> QED
  BY <1>1 DEF Line, InChannel, WorkIn

-----------------------------------------------------------------------------

(* The invariant holds before the worker has opened its provider. *)
LEMMA InitOK == Init => InductiveInvariant
<1> SUFFICES ASSUME Init PROVE InductiveInvariant
  OBVIOUS
<1> USE DEF Init
<1>1. TypeOK
  <2>1. channel \in Seq(Calls \cup {Wake}) /\ Len(channel) <= QueueCapacity
    BY BridgeAssumption
  <2>2. worker \in Worker
    BY BridgeAssumption DEF Worker, Answers
  <2>3. /\ phase \in [Calls -> {"queued", "cancelled", "dispatched", "completed"}]
        /\ result \in [Calls -> Answers] /\ answer \in [Calls -> Answers]
        /\ caller \in [Calls -> {"new", "count", "send", "done"} \cup Waiting]
    BY DEF Answers
  <2> QED
    BY <2>1, <2>2, <2>3 DEF TypeOK
<1>2. WorkIn(channel) = {} /\ WorkIn(worker.pending) = {}
  BY WorkInEmpty
<1>3. OnePlace
  BY <1>2, BridgeAssumption
    DEF OnePlace, NoRepeats, InChannel, IsPending, Outside
<1>4. CellsAgree /\ WorkerAgrees /\ AnswersHold
  BY <1>2 DEF CellsAgree, WorkerAgrees, AnswersHold, InChannel, IsPending,
    InHand,
    Completing, BeforeDispatch
<1>5. LineIsCounted
  <2>1. Line = {}
    BY <1>2 DEF Line, InChannel, InHand
  <2> QED
    BY <2>1, FS_EmptySet DEF LineIsCounted
<1>6. AdmissionHolds /\ StartHolds /\ DrainHolds /\ WaitersHold /\ CheckpointHolds
  BY <1>2 DEF AdmissionHolds, StartHolds, DrainHolds, WaitersHold,
    CheckpointHolds,
    Inside, Drained, Completing, Waiting, Unrun
<1> QED
  BY <1>1, <1>3, <1>4, <1>5, <1>6 DEF InductiveInvariant

(* wait_cell, the look: a settled cell is returned, or the waiter dozes off. *)
LEMMA LookOK ==
  ASSUME InductiveInvariant, NEW c \in Calls, Look(c)
  PROVE  InductiveInvariant'
<1> USE DEF InductiveInvariant
<1>1. /\ caller[c] = "look"
      /\ UNCHANGED <<lifecycle, admission, queued, channel, phase, result, worker, finished,
                     persisted, ran, owner>>
  BY DEF Look, cells
<1>2. \/ /\ phase[c] = "completed"
         /\ caller' = [caller EXCEPT ![c] = "done"]
         /\ answer' = [answer EXCEPT ![c] = result[c]]
      \/ caller' = [caller EXCEPT ![c] = "drowsy"] /\ answer' = answer
  BY DEF Look, Answer, At
<1>3. TypeOK'
  BY <1>1, <1>2 DEF TypeOK, Waiting
<1>4. OnePlace' /\ CellsAgree' /\ WorkerAgrees'
  BY <1>1, <1>2 DEF OnePlace, CellsAgree, WorkerAgrees, TypeOK, InChannel,
    IsPending, Outside, InHand, Completing
<1>5. AnswersHold'
  BY SMTT(40), <1>1, <1>2 DEF AnswersHold, TypeOK, CellsAgree, NeverRuns, Settled,
    Outside, InChannel, IsPending
<1>6. LineIsCounted'
  <2>1. Line' = Line
    BY <1>1, <1>2 DEF Line, InChannel, InHand, TypeOK
  <2> QED
    BY <2>1, <1>1 DEF LineIsCounted
<1>7. AdmissionHolds' /\ StartHolds' /\ DrainHolds' /\ WaitersHold' /\ CheckpointHolds'
  BY <1>1, <1>2
    DEF AdmissionHolds, StartHolds, DrainHolds, WaitersHold, CheckpointHolds,
    Inside, Drained, Completing, Waiting, Unrun, TypeOK, Settled, InChannel, IsPending
<1> QED
  BY <1>3, <1>4, <1>5, <1>6, <1>7

(* wait_cell: a waiter looks, dozes off, wakes up or sees its deadline     *)
(* pass, and still waits.                                                  *)
LEMMA WaiterMoves ==
  ASSUME InductiveInvariant, NEW c \in Calls, NEW to \in Waiting,
         caller[c] \in Waiting, caller' = [caller EXCEPT ![c] = to],
         UNCHANGED <<lifecycle, admission, queued, channel, phase, result, answer,
                     worker, finished, persisted, ran, owner>>
  PROVE  InductiveInvariant'
<1> USE DEF InductiveInvariant
<1>1. UNCHANGED <<lifecycle, admission, queued, channel, phase, result, answer,
                  worker, finished, persisted, ran, owner>>
  OBVIOUS
<1>2. caller[c] \in Waiting /\ to \in Waiting /\ caller' = [caller EXCEPT ![c] = to]
  OBVIOUS
<1>3. TypeOK'
  BY <1>1, <1>2 DEF TypeOK, Waiting
<1>4. OnePlace'
  BY <1>1, <1>2 DEF Waiting, OnePlace, TypeOK, InChannel, IsPending, Outside
<1>5. CellsAgree' /\ WorkerAgrees'
  BY <1>1, <1>2 DEF CellsAgree, WorkerAgrees, OnePlace, TypeOK, InChannel,
    IsPending, Outside, InHand, Completing
<1>6. AnswersHold'
  BY <1>1, <1>2 DEF AnswersHold, CellsAgree, OnePlace, TypeOK, NeverRuns,
    Settled, Outside, InChannel, IsPending
<1>7. LineIsCounted'
  <2>1. Line' = Line
    BY <1>1, <1>2 DEF Waiting, Line, InChannel, InHand, OnePlace, Outside,
      IsPending, TypeOK
  <2> QED
    BY <2>1, <1>1, <1>2 DEF LineIsCounted, TypeOK
<1>8. AdmissionHolds' /\ StartHolds'
  BY <1>1, <1>2 DEF AdmissionHolds, StartHolds, TypeOK, Inside, Waiting
<1>9. DrainHolds'
  BY <1>1, <1>2 DEF DrainHolds, Drained, Completing, StartHolds,
    AdmissionHolds, TypeOK, Inside, Waiting
<1>10. WaitersHold' /\ CheckpointHolds'
  BY <1>1, <1>2 DEF WaitersHold, CheckpointHolds, TypeOK, Completing, Settled,
    InChannel, IsPending, Waiting, Inside, Unrun
<1> QED
  BY <1>3, <1>4, <1>5, <1>6, <1>7, <1>8, <1>9, <1>10

(* A call that is refused before it is admitted. *)
LEMMA TurnedAway ==
  ASSUME InductiveInvariant, NEW c \in Calls, NEW told \in BeforeDispatch,
         caller[c] = "new", ~Borrowed, caller' = [caller EXCEPT ![c] = "done"],
         answer' = [answer EXCEPT ![c] = told],
         UNCHANGED <<lifecycle, admission, queued, channel, phase, result, worker,
                     finished, persisted, ran, owner>>
  PROVE  InductiveInvariant'
<1> USE DEF InductiveInvariant
<1>1. /\ caller[c] = "new" /\ ~Borrowed
      /\ UNCHANGED <<lifecycle, admission, queued, channel, phase, result, worker,
                     finished, persisted, ran, owner>>
  OBVIOUS
<1>2. /\ caller' = [caller EXCEPT ![c] = "done"]
      /\ answer' = [answer EXCEPT ![c] = told]
      /\ told \in BeforeDispatch
  OBVIOUS
<1>3. TypeOK'
  BY <1>1, <1>2 DEF TypeOK, Waiting, Answers
<1>4. OnePlace'
  BY <1>1, <1>2 DEF OnePlace, TypeOK, InChannel, IsPending, Outside
<1>5. CellsAgree' /\ WorkerAgrees'
  BY <1>1, <1>2 DEF CellsAgree, WorkerAgrees, OnePlace, TypeOK, InChannel,
    IsPending, Outside, InHand, Completing
<1>6. AnswersHold'
  BY <1>1, <1>2 DEF AnswersHold, CellsAgree, OnePlace, TypeOK, NeverRuns,
    Settled, Outside, InChannel, IsPending, BeforeDispatch
<1>7. LineIsCounted'
  <2>1. Line' = Line
    BY <1>1, <1>2
      DEF Line, InChannel, InHand, OnePlace, Outside, IsPending, TypeOK
  <2> QED
    BY <2>1, <1>1, <1>2 DEF LineIsCounted, TypeOK
<1>8. AdmissionHolds' /\ StartHolds'
  BY <1>1, <1>2
    DEF Borrowed, AdmissionHolds, StartHolds, TypeOK, Inside, Waiting
<1>9. DrainHolds'
  BY <1>1, <1>2 DEF DrainHolds, Drained, Completing, StartHolds,
    AdmissionHolds, TypeOK, Inside, Waiting
<1>10. WaitersHold' /\ CheckpointHolds'
  BY <1>1, <1>2 DEF WaitersHold, CheckpointHolds, TypeOK, Completing, Settled,
    InChannel, IsPending, Waiting, Inside, Unrun
<1> QED
  BY <1>3, <1>4, <1>5, <1>6, <1>7, <1>8, <1>9, <1>10

(* The deadline cancels a request that was not dispatched, and otherwise   *)
(* leaves the outcome unknown.                                             *)
LEMMA ExpireOK ==
  ASSUME InductiveInvariant, NEW c \in Calls, Expire(c)
  PROVE  InductiveInvariant'
<1> USE DEF InductiveInvariant
<1>1. /\ caller[c] = "expiring"
      /\ UNCHANGED <<lifecycle, admission, queued, channel, result, worker, finished,
                     persisted, ran, owner>>
  BY DEF Expire, cells
<1>2. /\ caller' = [caller EXCEPT ![c] = "done"]
      /\ \/ /\ phase[c] = "queued" /\ phase' = [phase EXCEPT ![c] = "cancelled"]
            /\ answer' = [answer EXCEPT ![c] = "before_dispatch"]
         \/ phase' = phase /\ answer' = [answer EXCEPT ![c] = "unknown"]
  BY DEF Expire, Answer, At, MayCancel
<1>3. TypeOK'
  BY <1>1, <1>2 DEF TypeOK, Waiting, Answers, BeforeDispatch
<1>4. OnePlace'
  BY <1>1, <1>2 DEF OnePlace, TypeOK, InChannel, IsPending, Outside
<1>5. CellsAgree' /\ WorkerAgrees'
  BY <1>1, <1>2 DEF CellsAgree, WorkerAgrees, OnePlace, TypeOK, InChannel,
    IsPending, Outside, InHand, Completing, BeforeDispatch
<1>6. AnswersHold'
  BY <1>1, <1>2 DEF AnswersHold, CellsAgree, OnePlace, TypeOK, NeverRuns,
    Settled, Outside, InChannel, IsPending, BeforeDispatch
<1>7. LineIsCounted'
  <2>1. Line' = Line
    BY <1>1, <1>2
      DEF Line, InChannel, InHand, OnePlace, Outside, IsPending, TypeOK
  <2> QED
    BY <2>1, <1>1, <1>2 DEF LineIsCounted, TypeOK
<1>8. AdmissionHolds' /\ StartHolds'
  BY <1>1, <1>2 DEF AdmissionHolds, StartHolds, TypeOK, Inside, Waiting
<1>9. DrainHolds'
  BY <1>1, <1>2 DEF DrainHolds, Drained, Completing, StartHolds,
    AdmissionHolds, TypeOK, Inside, Waiting
<1>10. WaitersHold' /\ CheckpointHolds'
  BY <1>1, <1>2 DEF WaitersHold, CheckpointHolds, TypeOK, Completing, Settled,
    InChannel, IsPending, Waiting, Inside, Unrun
<1> QED
  BY <1>3, <1>4, <1>5, <1>6, <1>7, <1>8, <1>9, <1>10

(* submit_request, from the admission lock to the channel. *)
LEMMA EnterOK ==
  ASSUME InductiveInvariant, NEW c \in Calls, Admit(c), lifecycle = "running"
  PROVE  InductiveInvariant'
<1> USE DEF InductiveInvariant
<1>1. /\ caller[c] = "new" /\ ~Borrowed /\ admission = None
      /\ lifecycle = "running"
      /\ UNCHANGED <<lifecycle, queued, channel, phase, result, answer, worker,
                     finished, persisted, ran, owner>>
  BY DEF Admit, cells
<1>2. admission' = c /\ caller' = [caller EXCEPT ![c] = "count"]
  BY DEF Admit, At
<1>3. TypeOK'
  BY <1>1, <1>2, BridgeAssumption DEF TypeOK, Waiting
<1>4. OnePlace'
  BY <1>1, <1>2, BridgeAssumption
    DEF OnePlace, TypeOK, InChannel, IsPending, Outside
<1>5. CellsAgree' /\ WorkerAgrees'
  BY <1>1, <1>2, BridgeAssumption DEF CellsAgree, WorkerAgrees, OnePlace,
    TypeOK, InChannel, IsPending, Outside, InHand, Completing
<1>6. AnswersHold'
  BY <1>1, <1>2, BridgeAssumption DEF AnswersHold, CellsAgree, OnePlace,
    TypeOK, NeverRuns, Settled, Outside, InChannel, IsPending
<1>7. LineIsCounted'
  <2>1. Line' = Line
    BY <1>1, <1>2, BridgeAssumption
      DEF Line, InChannel, InHand, OnePlace, Outside, IsPending, TypeOK
  <2> QED
    BY <2>1, <1>1, <1>2 DEF LineIsCounted, TypeOK
<1>8. AdmissionHolds' /\ StartHolds'
  BY <1>1, <1>2, BridgeAssumption
    DEF AdmissionHolds, StartHolds, TypeOK, Inside, Waiting, Borrowed
<1>9. DrainHolds'
  BY <1>1, <1>2, BridgeAssumption DEF DrainHolds, Drained, Completing,
    StartHolds, AdmissionHolds, TypeOK, Inside, Waiting
<1>10. WaitersHold' /\ CheckpointHolds'
  BY <1>1, <1>2, BridgeAssumption DEF DrainHolds, Drained, Borrowed,
    WaitersHold, CheckpointHolds, TypeOK, Completing, Settled, InChannel,
    IsPending, Waiting, Inside, Unrun
<1> QED
  BY <1>3, <1>4, <1>5, <1>6, <1>7, <1>8, <1>9, <1>10

(* Shared::queued is raised for a request that is not in the channel yet. *)
LEMMA CountOK ==
  ASSUME InductiveInvariant, NEW c \in Calls, Count(c)
  PROVE  InductiveInvariant'
<1> USE DEF InductiveInvariant
<1>1. /\ caller[c] = "count"
      /\ UNCHANGED <<lifecycle, admission, channel, phase, result, answer, worker,
                     finished, persisted, ran, owner>>
  BY DEF Count, cells
<1>2. queued' = queued + 1 /\ caller' = [caller EXCEPT ![c] = "send"]
  BY DEF Count, At
<1>3. TypeOK'
  BY <1>1, <1>2 DEF TypeOK, Waiting
<1>4. OnePlace'
  BY <1>1, <1>2 DEF OnePlace, TypeOK, InChannel, IsPending, Outside
<1>5. CellsAgree' /\ WorkerAgrees'
  BY <1>1, <1>2 DEF CellsAgree, WorkerAgrees, OnePlace, TypeOK, InChannel,
    IsPending, Outside, InHand, Completing
<1>6. AnswersHold'
  BY <1>1, <1>2 DEF AnswersHold, CellsAgree, OnePlace, TypeOK, NeverRuns,
    Settled, Outside, InChannel, IsPending
<1>7. LineIsCounted'
  <2>1. Line' = Line \cup {c} /\ c \notin Line
    BY <1>1, <1>2
      DEF Line, InChannel, InHand, OnePlace, Outside, IsPending, TypeOK
  <2> QED
    BY <2>1, <1>1, <1>2, FS_AddElement DEF LineIsCounted, TypeOK
<1>8. AdmissionHolds' /\ StartHolds'
  BY <1>1, <1>2 DEF AdmissionHolds, StartHolds, TypeOK, Inside, Waiting
<1>9. DrainHolds'
  BY <1>1, <1>2 DEF DrainHolds, Drained, Completing, StartHolds,
    AdmissionHolds, TypeOK, Inside, Waiting
<1>10. WaitersHold' /\ CheckpointHolds'
  BY <1>1, <1>2 DEF WaitersHold, CheckpointHolds, TypeOK, Completing, Settled,
    InChannel, IsPending, Waiting, Inside, Unrun
<1> QED
  BY <1>3, <1>4, <1>5, <1>6, <1>7, <1>8, <1>9, <1>10

(* try_send finds the channel full or the worker gone: the counter goes back. *)
LEMMA SendRefused ==
  ASSUME InductiveInvariant, NEW c \in Calls, Send(c), Full \/ Disconnected
  PROVE  InductiveInvariant'
<1> USE DEF InductiveInvariant
<1>1. /\ caller[c] = "send"
      /\ UNCHANGED <<lifecycle, channel, phase, result, worker, finished, persisted,
                     ran, owner>>
  BY DEF Send, cells
<1>2. /\ admission' = None /\ queued' = queued - 1
      /\ caller' = [caller EXCEPT ![c] = "done"]
      /\ \E told \in {"closed", "full"} : answer' = [answer EXCEPT ![c] = told]
  BY DEF Send, Answer, At
<1>3. LineIsCounted'
  <2>1. Line' = Line \ {c} /\ c \in Line
    BY <1>1, <1>2
      DEF Line, InChannel, InHand, OnePlace, Outside, IsPending, TypeOK
  <2> QED
    BY <2>1, <1>1, <1>2, FS_RemoveElement DEF LineIsCounted, TypeOK
<1>4. TypeOK'
  BY <1>1, <1>2, <1>3, FS_CardinalityType
    DEF LineIsCounted, TypeOK, Waiting, Answers, BeforeDispatch
<1>5. OnePlace'
  BY <1>1, <1>2 DEF OnePlace, TypeOK, InChannel, IsPending, Outside
<1>6. CellsAgree' /\ WorkerAgrees'
  BY <1>1, <1>2 DEF CellsAgree, WorkerAgrees, OnePlace, TypeOK, InChannel,
    IsPending, Outside, InHand, Completing
<1>7. AnswersHold'
  BY <1>1, <1>2 DEF AnswersHold, CellsAgree, OnePlace, TypeOK, NeverRuns,
    Settled, Outside, InChannel, IsPending, BeforeDispatch
<1>8. AdmissionHolds' /\ StartHolds'
  BY <1>1, <1>2 DEF AdmissionHolds, StartHolds, TypeOK, Inside, Waiting
<1>9. DrainHolds'
  BY <1>1, <1>2 DEF DrainHolds, Drained, Completing, StartHolds,
    AdmissionHolds, TypeOK, Inside, Waiting
<1>10. WaitersHold' /\ CheckpointHolds'
  BY <1>1, <1>2 DEF WaitersHold, CheckpointHolds, TypeOK, Completing, Settled,
    InChannel, IsPending, Waiting, Inside, Unrun
<1> QED
  BY <1>4, <1>5, <1>6, <1>7, <1>3, <1>8, <1>9, <1>10

(* try_send puts a request in the channel that was in no other place. *)
LEMMA SendAccepted ==
  ASSUME InductiveInvariant, NEW c \in Calls, Send(c), ~(Full \/ Disconnected)
  PROVE  InductiveInvariant'
<1> USE DEF InductiveInvariant
<1>1. /\ Full \in BOOLEAN /\ channel \in Seq(Calls \cup {Wake})
      /\ c \notin WorkIn(channel) /\ NoRepeats(channel)
  BY DEF Full, TypeOK, OnePlace, Outside, InChannel, Send
<1>2. /\ caller[c] = "send" /\ Len(channel) < QueueCapacity /\ worker.pc # "gone"
      /\ UNCHANGED <<lifecycle, queued, phase, result, answer, worker, finished,
                     persisted, ran, owner>>
  BY <1>1, BridgeAssumption DEF Send, Full, Disconnected, TypeOK, cells
<1>3. /\ admission' = None /\ channel' \in Seq(Calls \cup {Wake})
      /\ Len(channel') = Len(channel) + 1
      /\ caller' = [caller EXCEPT ![c] = "look"]
      /\ WorkIn(channel') = WorkIn(channel) \cup {c} /\ NoRepeats(channel')
  <2>1. /\ admission' = None /\ channel' = Append(channel, c)
        /\ caller' = [caller EXCEPT ![c] = "look"]
    BY DEF Send, At
  <2>2. WorkIn(channel') = WorkIn(channel) \cup {c} /\ NoRepeats(channel')
    BY <1>1, <2>1, WorkInAppend, AppendOnce
  <2>3. channel' \in Seq(Calls \cup {Wake}) /\ Len(channel') = Len(channel) + 1
    BY <1>1, <2>1
  <2> QED
    BY <2>1, <2>2, <2>3
<1>4. TypeOK'
  BY <1>2, <1>3, BridgeAssumption DEF TypeOK, Waiting
<1>5. OnePlace'
  BY <1>2, <1>3, BridgeAssumption
    DEF OnePlace, TypeOK, InChannel, IsPending, Outside
<1>6. CellsAgree' /\ WorkerAgrees'
  BY <1>2, <1>3, BridgeAssumption DEF CellsAgree, WorkerAgrees, OnePlace,
    TypeOK, InChannel, IsPending, Outside, InHand, Completing
<1>7. AnswersHold'
  BY <1>2, <1>3, BridgeAssumption DEF BeforeDispatch, AnswersHold, CellsAgree,
    OnePlace, TypeOK, NeverRuns, Settled, Outside, InChannel, IsPending
<1>8. LineIsCounted'
  <2>1. Line' = Line
    BY <1>2, <1>3, BridgeAssumption
      DEF Line, InChannel, InHand, OnePlace, Outside, IsPending, TypeOK
  <2> QED
    BY <2>1, <1>2, <1>3 DEF LineIsCounted, TypeOK
<1>9. AdmissionHolds' /\ StartHolds'
  BY <1>2, <1>3, BridgeAssumption
    DEF AdmissionHolds, StartHolds, TypeOK, Inside, Waiting
<1>10. DrainHolds'
  BY <1>2, <1>3, BridgeAssumption DEF DrainHolds, Drained, Completing,
    StartHolds, AdmissionHolds, TypeOK, Inside, Waiting
<1>11. WaitersHold' /\ CheckpointHolds'
  BY <1>2, <1>3, BridgeAssumption DEF WaitersHold, CheckpointHolds, TypeOK,
    Completing, Settled, InChannel, IsPending, Waiting, Inside, Unrun
<1> QED
  BY <1>4, <1>5, <1>6, <1>7, <1>8, <1>9, <1>10, <1>11

(* The worker opens its provider, or cannot. *)
LEMMA OpenOK ==
  ASSUME InductiveInvariant, Open
  PROVE  InductiveInvariant'
<1> USE DEF InductiveInvariant
<1>1. /\ worker.pc = "open" /\ owner = "starting"
      /\ UNCHANGED <<lifecycle, admission, queued, channel, phase, result, caller,
                     answer, finished, persisted, ran>>
  BY DEF Open, StartHolds, cells
<1>2. /\ \/ worker'.pc = "recv" /\ owner' = "opened"
         \/ worker'.pc = "unopened" /\ owner' = "failing"
      /\ worker' \in Worker /\ worker'.pc \in {"recv", "unopened"}
      /\ worker'.at = worker.at /\ worker'.told = worker.told
      /\ worker'.next = worker.next /\ worker'.panicked = worker.panicked
      /\ worker'.unwound = worker.unwound /\ worker'.pending = worker.pending
  BY DEF Open, TypeOK, Worker
<1>3. TypeOK'
  BY <1>1, <1>2 DEF TypeOK, Waiting
<1>4. OnePlace'
  BY <1>1, <1>2 DEF OnePlace, TypeOK, InChannel, IsPending, Outside
<1>5. CellsAgree' /\ WorkerAgrees'
  BY <1>1, <1>2 DEF CellsAgree, WorkerAgrees, OnePlace, TypeOK, InChannel,
    IsPending, Outside, InHand, Completing
<1>6. AnswersHold'
  BY <1>1, <1>2 DEF AnswersHold, CellsAgree, OnePlace, TypeOK, NeverRuns,
    Settled, Outside, InChannel, IsPending
<1>7. LineIsCounted'
  <2>1. Line' = Line
    BY <1>1, <1>2
      DEF Line, InChannel, InHand, OnePlace, Outside, IsPending, TypeOK
  <2> QED
    BY <2>1, <1>1, <1>2 DEF LineIsCounted, TypeOK
<1>8. AdmissionHolds' /\ StartHolds'
  BY <1>1, <1>2 DEF AdmissionHolds, StartHolds, TypeOK, Inside, Waiting
<1>9. DrainHolds'
  BY <1>1, <1>2 DEF DrainHolds, Drained, Completing, StartHolds,
    AdmissionHolds, TypeOK, Inside, Waiting
<1>10. WaitersHold' /\ CheckpointHolds'
  BY <1>1, <1>2 DEF WaitersHold, CheckpointHolds, TypeOK, Completing, Settled,
    InChannel, IsPending, Waiting, Inside, Unrun
<1> QED
  BY <1>3, <1>4, <1>5, <1>6, <1>7, <1>8, <1>9, <1>10

(* A worker without a provider ends; nothing was ever sent to it. *)
LEMMA UnopenedOK ==
  ASSUME InductiveInvariant, Unopened
  PROVE  InductiveInvariant'
<1> USE DEF InductiveInvariant
<1>1. /\ worker.pc = "unopened"
      /\ UNCHANGED <<lifecycle, admission, queued, channel, phase, result, caller,
                     answer, persisted, ran, owner>>
  BY DEF Unopened, cells
<1>2. /\ finished' = TRUE
      /\ worker' \in Worker /\ worker'.pc = "gone" /\ worker'.at = worker.at
      /\ worker'.told = worker.told /\ worker'.next = worker.next
      /\ worker'.panicked = worker.panicked /\ worker'.unwound = worker.unwound
      /\ worker'.pending = worker.pending
  BY DEF Unopened, TypeOK, Worker
<1>3. TypeOK'
  BY <1>1, <1>2 DEF TypeOK, Waiting
<1>4. OnePlace'
  BY <1>1, <1>2 DEF OnePlace, TypeOK, InChannel, IsPending, Outside
<1>5. CellsAgree' /\ WorkerAgrees'
  BY <1>1, <1>2 DEF CellsAgree, WorkerAgrees, OnePlace, TypeOK, InChannel,
    IsPending, Outside, InHand, Completing
<1>6. AnswersHold'
  BY <1>1, <1>2 DEF AnswersHold, CellsAgree, OnePlace, TypeOK, NeverRuns,
    Settled, Outside, InChannel, IsPending
<1>7. LineIsCounted'
  <2>1. Line' = Line
    BY <1>1, <1>2
      DEF Line, InChannel, InHand, OnePlace, Outside, IsPending, TypeOK
  <2> QED
    BY <2>1, <1>1, <1>2 DEF LineIsCounted, TypeOK
<1>8. AdmissionHolds' /\ StartHolds'
  BY <1>1, <1>2 DEF AdmissionHolds, StartHolds, TypeOK, Inside, Waiting
<1>9. DrainHolds'
  <2>1. WorkIn(channel) = {}
    BY <1>1 DEF StartHolds, OnePlace, Outside, InChannel, WorkIn
  <2> QED
    BY <1>1, <1>2, <2>1 DEF DrainHolds, Drained, Completing, StartHolds
<1>10. WaitersHold' /\ CheckpointHolds'
  BY <1>1, <1>2 DEF WaitersHold, CheckpointHolds, TypeOK, Completing, Settled,
    InChannel, IsPending, Waiting, Inside, Unrun
<1> QED
  BY <1>3, <1>4, <1>5, <1>6, <1>7, <1>8, <1>9, <1>10

(* The starter learns which of the two it was. *)
LEMMA StartedOK ==
  ASSUME InductiveInvariant, Started
  PROVE  InductiveInvariant'
<1> USE DEF InductiveInvariant
<1>1. UNCHANGED <<lifecycle, admission, queued, channel, phase, result, caller,
                  answer, worker, finished, persisted, ran>>
  BY DEF Started, cells
<1>2. /\ \/ owner = "opened" /\ owner' = "free"
         \/ owner = "failing" /\ worker.pc = "gone" /\ owner' = "dropped"
  BY DEF Started
<1>3. TypeOK'
  BY <1>1, <1>2 DEF TypeOK, Waiting
<1>4. OnePlace'
  BY <1>1, <1>2 DEF OnePlace, TypeOK, InChannel, IsPending, Outside
<1>5. CellsAgree' /\ WorkerAgrees'
  BY <1>1, <1>2 DEF CellsAgree, WorkerAgrees, OnePlace, TypeOK, InChannel,
    IsPending, Outside, InHand, Completing
<1>6. AnswersHold'
  BY <1>1, <1>2 DEF AnswersHold, CellsAgree, OnePlace, TypeOK, NeverRuns,
    Settled, Outside, InChannel, IsPending
<1>7. LineIsCounted'
  <2>1. Line' = Line
    BY <1>1, <1>2
      DEF Line, InChannel, InHand, OnePlace, Outside, IsPending, TypeOK
  <2> QED
    BY <2>1, <1>1, <1>2 DEF LineIsCounted, TypeOK
<1>8. AdmissionHolds' /\ StartHolds'
  BY <1>1, <1>2 DEF AdmissionHolds, StartHolds, TypeOK, Inside, Waiting
<1>9. DrainHolds'
  BY <1>1, <1>2 DEF DrainHolds, Drained, Completing, StartHolds,
    AdmissionHolds, TypeOK, Inside, Waiting
<1>10. WaitersHold' /\ CheckpointHolds'
  BY <1>1, <1>2 DEF WaitersHold, CheckpointHolds, TypeOK, Completing, Settled,
    InChannel, IsPending, Waiting, Inside, Unrun
<1> QED
  BY <1>3, <1>4, <1>5, <1>6, <1>7, <1>8, <1>9, <1>10

(* worker_main takes a wake-up, and leaves its loop when it is to exit. *)
LEMMA ReceiveWake ==
  ASSUME InductiveInvariant, Receive, Head(channel) = Wake
  PROVE  InductiveInvariant'
<1> USE DEF InductiveInvariant
<1>1. /\ worker.pc = "recv" /\ channel # << >> /\ channel \in Seq(Calls \cup {Wake})
      /\ UNCHANGED <<lifecycle, admission, queued, phase, result, caller, answer,
                     finished, persisted, ran, owner>>
  BY DEF Receive, TypeOK, cells
<1>2. /\ channel' \in Seq(Calls \cup {Wake}) /\ Len(channel') <= Len(channel)
      /\ WorkIn(channel') = WorkIn(channel) /\ NoRepeats(channel')
      /\ \/ worker'.pc = "recv"
         \/ worker'.pc = "drain" /\ lifecycle # "running" /\ queued = 0
      /\ worker' \in Worker /\ worker'.pc \in {"recv", "drain"}
      /\ worker'.at = worker.at /\ worker'.told = worker.told
      /\ worker'.next = worker.next /\ worker'.panicked = worker.panicked
      /\ worker'.unwound = worker.unwound /\ worker'.pending = worker.pending
  <2>1. /\ channel' = Tail(channel)
        /\ worker' = [worker EXCEPT !.pc = IF Exits THEN "drain" ELSE "recv"]
    BY DEF Receive, Work
  <2>2. WorkIn(channel') = WorkIn(channel) /\ NoRepeats(channel')
    <3>1. {Head(channel)} \cap Calls = {}
      BY BridgeAssumption
    <3>2. WorkIn(channel) = WorkIn(Tail(channel)) \cup ({Head(channel)} \cap Calls)
      BY <1>1, WorkInTail
    <3>3. NoRepeats(Tail(channel))
      BY <1>1, TailOnce DEF OnePlace
    <3> QED
      BY <2>1, <3>1, <3>2, <3>3
  <2>3. channel' \in Seq(Calls \cup {Wake}) /\ Len(channel') <= Len(channel)
    BY <1>1, <2>1
  <2> QED
    BY <2>1, <2>2, <2>3 DEF Exits, TypeOK, Worker
<1>3. TypeOK'
  BY <1>1, <1>2, BridgeAssumption DEF TypeOK, Waiting
<1>4. OnePlace'
  BY <1>1, <1>2 DEF OnePlace, TypeOK, InChannel, IsPending, Outside
<1>5. CellsAgree' /\ WorkerAgrees'
  BY <1>1, <1>2 DEF CellsAgree, WorkerAgrees, OnePlace, TypeOK, InChannel,
    IsPending, Outside, InHand, Completing
<1>6. AnswersHold'
  BY <1>1, <1>2 DEF AnswersHold, CellsAgree, OnePlace, TypeOK, NeverRuns,
    Settled, Outside, InChannel, IsPending
<1>7. LineIsCounted'
  <2>1. Line' = Line
    BY <1>1, <1>2
      DEF Line, InChannel, InHand, OnePlace, Outside, IsPending, TypeOK
  <2> QED
    BY <2>1, <1>1, <1>2 DEF LineIsCounted, TypeOK
<1>8. AdmissionHolds' /\ StartHolds'
  BY <1>1, <1>2 DEF AdmissionHolds, StartHolds, TypeOK, Inside, Waiting
<1>9. DrainHolds'
  BY NothingQueued, <1>1, <1>2 DEF DrainHolds, Drained, Completing, StartHolds,
    AdmissionHolds, TypeOK, Inside, Waiting
<1>10. WaitersHold' /\ CheckpointHolds'
  BY <1>1, <1>2 DEF WaitersHold, CheckpointHolds, TypeOK, Completing, Settled,
    InChannel, IsPending, Waiting, Inside, Unrun
<1> QED
  BY <1>3, <1>4, <1>5, <1>6, <1>7, <1>8, <1>9, <1>10

(* worker_main takes a request, which then is in its hand alone. *)
LEMMA ReceiveCall ==
  ASSUME InductiveInvariant, Receive, Head(channel) # Wake
  PROVE  InductiveInvariant'
<1> USE DEF InductiveInvariant
<1>1. /\ worker.pc = "recv" /\ channel # << >> /\ channel \in Seq(Calls \cup {Wake})
      /\ Head(channel) \in Calls /\ Head(channel) \in WorkIn(channel)
      /\ UNCHANGED <<lifecycle, admission, queued, phase, result, caller, answer,
                     finished, persisted, ran, owner>>
  BY WorkInTail DEF Receive, TypeOK, cells
<1>2. /\ channel' \in Seq(Calls \cup {Wake}) /\ Len(channel') <= Len(channel)
      /\ WorkIn(channel') = WorkIn(channel) \ {Head(channel)} /\ NoRepeats(channel')
      /\ worker' \in Worker /\ worker'.pc = "inspect" /\ worker'.at = Head(channel)
      /\ worker'.told = worker.told /\ worker'.next = worker.next
      /\ worker'.panicked = worker.panicked /\ worker'.unwound = worker.unwound
      /\ worker'.pending = worker.pending
  <2>1. /\ channel' = Tail(channel)
        /\ worker' = [worker EXCEPT !.pc = "inspect", !.at = Head(channel)]
    BY DEF Receive
  <2>2. WorkIn(channel') = WorkIn(channel) \ {Head(channel)} /\ NoRepeats(channel')
    BY <1>1, <2>1, WorkInTail, TailOnce DEF OnePlace
  <2>3. channel' \in Seq(Calls \cup {Wake}) /\ Len(channel') <= Len(channel)
    BY <1>1, <2>1
  <2> QED
    BY <1>1, <2>1, <2>2, <2>3 DEF TypeOK, Worker
<1>3. TypeOK'
  BY <1>1, <1>2, BridgeAssumption DEF TypeOK, Waiting
<1>4. OnePlace'
  BY <1>1, <1>2 DEF OnePlace, TypeOK, InChannel, IsPending, Outside
<1>5. CellsAgree' /\ WorkerAgrees'
  BY <1>1, <1>2 DEF CellsAgree, WorkerAgrees, OnePlace, TypeOK, InChannel,
    IsPending, Outside, InHand, Completing
<1>6. AnswersHold'
  BY <1>1, <1>2 DEF AnswersHold, CellsAgree, OnePlace, TypeOK, NeverRuns,
    Settled, Outside, InChannel, IsPending
<1>7. LineIsCounted'
  <2>1. Line' = Line
    BY <1>1, <1>2
      DEF Line, InChannel, InHand, OnePlace, Outside, IsPending, TypeOK
  <2> QED
    BY <2>1, <1>1, <1>2 DEF LineIsCounted, TypeOK
<1>8. AdmissionHolds' /\ StartHolds'
  BY <1>1, <1>2 DEF AdmissionHolds, StartHolds, TypeOK, Inside, Waiting
<1>9. DrainHolds'
  BY <1>1, <1>2 DEF DrainHolds, Drained, Completing, StartHolds,
    AdmissionHolds, TypeOK, Inside, Waiting
<1>10. WaitersHold' /\ CheckpointHolds'
  BY <1>1, <1>2 DEF WaitersHold, CheckpointHolds, TypeOK, Completing, Settled,
    InChannel, IsPending, Waiting, Inside, Unrun
<1> QED
  BY <1>3, <1>4, <1>5, <1>6, <1>7, <1>8, <1>9, <1>10

(* The last sender is gone and the channel is empty. *)
LEMMA HangupOK ==
  ASSUME InductiveInvariant, Hangup
  PROVE  InductiveInvariant'
<1> USE DEF InductiveInvariant
<1>1. /\ worker.pc = "recv" /\ channel = << >> /\ owner = "dropped"
      /\ UNCHANGED <<lifecycle, admission, queued, channel, phase, result, caller,
                     answer, finished, persisted, ran, owner>>
  BY DEF Hangup, cells
<1>2. /\ worker' \in Worker /\ worker'.pc = "drain" /\ worker'.at = worker.at
      /\ worker'.told = worker.told /\ worker'.next = worker.next
      /\ worker'.panicked = worker.panicked /\ worker'.unwound = worker.unwound
      /\ worker'.pending = worker.pending
      /\ WorkIn(channel) = {}
  BY <1>1, WorkInEmpty DEF Hangup, Work, TypeOK, Worker
<1>3. TypeOK'
  BY <1>1, <1>2 DEF TypeOK, Waiting
<1>4. OnePlace'
  BY <1>1, <1>2 DEF OnePlace, TypeOK, InChannel, IsPending, Outside
<1>5. CellsAgree' /\ WorkerAgrees'
  BY <1>1, <1>2 DEF CellsAgree, WorkerAgrees, OnePlace, TypeOK, InChannel,
    IsPending, Outside, InHand, Completing
<1>6. AnswersHold'
  BY <1>1, <1>2 DEF AnswersHold, CellsAgree, OnePlace, TypeOK, NeverRuns,
    Settled, Outside, InChannel, IsPending
<1>7. LineIsCounted'
  <2>1. Line' = Line
    BY <1>1, <1>2
      DEF Line, InChannel, InHand, OnePlace, Outside, IsPending, TypeOK
  <2> QED
    BY <2>1, <1>1, <1>2 DEF LineIsCounted, TypeOK
<1>8. AdmissionHolds' /\ StartHolds'
  BY <1>1, <1>2 DEF AdmissionHolds, StartHolds, TypeOK, Inside, Waiting
<1>9. DrainHolds'
  BY <1>1, <1>2 DEF DrainHolds, Drained, Completing, StartHolds,
    AdmissionHolds, TypeOK, Inside, Waiting
<1>10. WaitersHold' /\ CheckpointHolds'
  BY <1>1, <1>2 DEF WaitersHold, CheckpointHolds, TypeOK, Completing, Settled,
    InChannel, IsPending, Waiting, Inside, Unrun
<1> QED
  BY <1>3, <1>4, <1>5, <1>6, <1>7, <1>8, <1>9, <1>10

(* A request whose cell its deadline cancelled is passed over. *)
LEMMA SkipOK ==
  ASSUME InductiveInvariant, NEW c \in Calls,
         worker.at = c, worker.pc \in {"inspect", "dispatch"},
         phase[c] \in {"cancelled", "completed", "dispatched"}, Skip,
         UNCHANGED <<lifecycle, admission, channel, phase, result, caller, answer,
                     finished, persisted, ran, owner>>
  PROVE  InductiveInvariant'
<1> USE DEF InductiveInvariant
<1>1. /\ worker.at = c /\ worker.pc \in {"inspect", "dispatch"} /\ phase[c] # "queued"
      /\ UNCHANGED <<lifecycle, admission, channel, phase, result, caller, answer,
                     finished, persisted, ran, owner>>
  OBVIOUS
<1>2. /\ queued' = queued - 1
      /\ worker' \in Worker /\ worker'.pc = "recv" /\ worker'.at = worker.at
      /\ worker'.told = worker.told /\ worker'.next = worker.next
      /\ worker'.panicked = worker.panicked /\ worker'.unwound = worker.unwound
      /\ worker'.pending = worker.pending
  BY DEF Skip, Work, TypeOK, Worker
<1>3. LineIsCounted'
  <2>1. Line' = Line \ {c} /\ c \in Line
    BY <1>1, <1>2
      DEF Line, InChannel, InHand, OnePlace, Outside, IsPending, TypeOK
  <2> QED
    BY <2>1, <1>1, <1>2, FS_RemoveElement DEF LineIsCounted, TypeOK
<1>4. TypeOK'
  BY <1>1, <1>2, <1>3, FS_CardinalityType DEF LineIsCounted, TypeOK, Waiting
<1>5. OnePlace'
  BY <1>1, <1>2 DEF OnePlace, TypeOK, InChannel, IsPending, Outside
<1>6. CellsAgree' /\ WorkerAgrees'
  BY <1>1, <1>2 DEF CellsAgree, WorkerAgrees, OnePlace, TypeOK, InChannel,
    IsPending, Outside, InHand, Completing
<1>7. AnswersHold'
  BY <1>1, <1>2 DEF AnswersHold, CellsAgree, OnePlace, TypeOK, NeverRuns,
    Settled, Outside, InChannel, IsPending
<1>8. AdmissionHolds' /\ StartHolds'
  BY <1>1, <1>2 DEF AdmissionHolds, StartHolds, TypeOK, Inside, Waiting
<1>9. DrainHolds'
  BY <1>1, <1>2 DEF DrainHolds, Drained, Completing, StartHolds,
    AdmissionHolds, TypeOK, Inside, Waiting
<1>10. WaitersHold' /\ CheckpointHolds'
  BY <1>1, <1>2 DEF CellsAgree, InHand, WaitersHold, CheckpointHolds, TypeOK,
    Completing, Settled, InChannel, IsPending, Waiting, Inside, Unrun
<1> QED
  BY <1>4, <1>5, <1>6, <1>7, <1>3, <1>8, <1>9, <1>10

(* A cancelling shutdown fails the request instead of running it. *)
LEMMA InspectClosed ==
  ASSUME InductiveInvariant, NEW c \in Calls, worker.at = c, worker.pc = "inspect",
         phase[c] # "cancelled", lifecycle = "closing_cancel",
         queued' = queued - 1, Complete(c, "closed", "recv"),
         UNCHANGED <<lifecycle, admission, channel, phase, result, caller, answer,
                     finished, persisted, ran, owner>>
  PROVE  InductiveInvariant'
<1> USE DEF InductiveInvariant
<1>1. /\ worker.at = c /\ worker.pc = "inspect" /\ phase[c] # "cancelled"
      /\ lifecycle = "closing_cancel"
      /\ UNCHANGED <<lifecycle, admission, channel, phase, result, caller, answer,
                     finished, persisted, ran, owner>>
  OBVIOUS
<1>2. /\ queued' = queued - 1
      /\ worker' \in Worker /\ worker'.pc = "set" /\ worker'.at = c
      /\ worker'.told = "closed" /\ worker'.next = "recv"
      /\ worker'.panicked = worker.panicked /\ worker'.unwound = worker.unwound
      /\ worker'.pending = worker.pending
  BY DEF Complete, TypeOK, Worker, Answers, BeforeDispatch
<1>3. LineIsCounted'
  <2>1. Line' = Line \ {c} /\ c \in Line
    BY <1>1, <1>2
      DEF Line, InChannel, InHand, OnePlace, Outside, IsPending, TypeOK
  <2> QED
    BY <2>1, <1>1, <1>2, FS_RemoveElement DEF LineIsCounted, TypeOK
<1>4. TypeOK'
  BY <1>1, <1>2, <1>3, FS_CardinalityType DEF LineIsCounted, TypeOK, Waiting
<1>5. OnePlace'
  BY <1>1, <1>2 DEF OnePlace, TypeOK, InChannel, IsPending, Outside
<1>6. CellsAgree' /\ WorkerAgrees'
  BY <1>1, <1>2 DEF CellsAgree, WorkerAgrees, OnePlace, TypeOK, InChannel,
    IsPending, Outside, InHand, Completing
<1>7. AnswersHold'
  BY <1>1, <1>2 DEF AnswersHold, CellsAgree, OnePlace, TypeOK, NeverRuns,
    Settled, Outside, InChannel, IsPending
<1>8. AdmissionHolds' /\ StartHolds'
  BY <1>1, <1>2 DEF AdmissionHolds, StartHolds, TypeOK, Inside, Waiting
<1>9. DrainHolds'
  BY <1>1, <1>2 DEF DrainHolds, Drained, Completing, StartHolds,
    AdmissionHolds, TypeOK, Inside, Waiting
<1>10. WaitersHold' /\ CheckpointHolds'
  BY <1>1, <1>2 DEF WaitersHold, CheckpointHolds, TypeOK, Completing, Settled,
    InChannel, IsPending, Waiting, Inside, Unrun
<1> QED
  BY <1>4, <1>5, <1>6, <1>7, <1>3, <1>8, <1>9, <1>10

(* The request goes on to the compare-exchange. *)
LEMMA InspectRun ==
  ASSUME InductiveInvariant, NEW c \in Calls, worker.at = c, worker.pc = "inspect",
         phase[c] # "cancelled", lifecycle # "closing_cancel", Work("dispatch"),
         UNCHANGED <<lifecycle, admission, queued, channel, phase, result, caller,
                     answer, finished, persisted, ran, owner>>
  PROVE  InductiveInvariant'
<1> USE DEF InductiveInvariant
<1>1. /\ worker.at = c /\ worker.pc = "inspect" /\ phase[c] # "cancelled"
      /\ UNCHANGED <<lifecycle, admission, queued, channel, phase, result, caller,
                     answer, finished, persisted, ran, owner>>
  OBVIOUS
<1>2. /\ worker' \in Worker /\ worker'.pc = "dispatch" /\ worker'.at = worker.at
      /\ worker'.told = worker.told /\ worker'.next = worker.next
      /\ worker'.panicked = worker.panicked /\ worker'.unwound = worker.unwound
      /\ worker'.pending = worker.pending
  BY DEF Work, TypeOK, Worker
<1>3. TypeOK'
  BY <1>1, <1>2 DEF TypeOK, Waiting
<1>4. OnePlace'
  BY <1>1, <1>2 DEF OnePlace, TypeOK, InChannel, IsPending, Outside
<1>5. CellsAgree' /\ WorkerAgrees'
  BY <1>1, <1>2 DEF CellsAgree, WorkerAgrees, OnePlace, TypeOK, InChannel,
    IsPending, Outside, InHand, Completing
<1>6. AnswersHold'
  BY <1>1, <1>2 DEF AnswersHold, CellsAgree, OnePlace, TypeOK, NeverRuns,
    Settled, Outside, InChannel, IsPending
<1>7. LineIsCounted'
  <2>1. Line' = Line
    BY <1>1, <1>2
      DEF Line, InChannel, InHand, OnePlace, Outside, IsPending, TypeOK
  <2> QED
    BY <2>1, <1>1, <1>2 DEF LineIsCounted, TypeOK
<1>8. AdmissionHolds' /\ StartHolds'
  BY <1>1, <1>2 DEF AdmissionHolds, StartHolds, TypeOK, Inside, Waiting
<1>9. DrainHolds'
  BY <1>1, <1>2 DEF DrainHolds, Drained, Completing, StartHolds,
    AdmissionHolds, TypeOK, Inside, Waiting
<1>10. WaitersHold' /\ CheckpointHolds'
  BY <1>1, <1>2 DEF WaitersHold, CheckpointHolds, TypeOK, Completing, Settled,
    InChannel, IsPending, Waiting, Inside, Unrun
<1> QED
  BY <1>3, <1>4, <1>5, <1>6, <1>7, <1>8, <1>9, <1>10

(* The compare-exchange from Queued to Dispatched is won. *)
LEMMA DispatchRun ==
  ASSUME InductiveInvariant, NEW c \in Calls, worker.at = c, worker.pc = "dispatch", phase[c] = "queued",
         phase' = [phase EXCEPT ![c] = "dispatched"], queued' = queued - 1, Work("drive"),
         UNCHANGED <<lifecycle, admission, channel, result, caller, answer, finished,
                     persisted, ran, owner>>
  PROVE  InductiveInvariant'
<1> USE DEF InductiveInvariant
<1>1. /\ worker.at = c /\ worker.pc = "dispatch" /\ phase[c] = "queued"
      /\ UNCHANGED <<lifecycle, admission, channel, result, caller, answer, finished,
                     persisted, ran, owner>>
  OBVIOUS
<1>2. /\ phase' = [phase EXCEPT ![c] = "dispatched"] /\ queued' = queued - 1
      /\ worker' \in Worker /\ worker'.pc = "drive" /\ worker'.at = worker.at
      /\ worker'.told = worker.told /\ worker'.next = worker.next
      /\ worker'.panicked = worker.panicked /\ worker'.unwound = worker.unwound
      /\ worker'.pending = worker.pending
  BY DEF Work, TypeOK, Worker
<1>3. LineIsCounted'
  <2>1. Line' = Line \ {c} /\ c \in Line
    BY <1>1, <1>2
      DEF Line, InChannel, InHand, OnePlace, Outside, IsPending, TypeOK
  <2> QED
    BY <2>1, <1>1, <1>2, FS_RemoveElement DEF LineIsCounted, TypeOK
<1>4. TypeOK'
  BY <1>1, <1>2, <1>3, FS_CardinalityType DEF LineIsCounted, TypeOK, Waiting
<1>5. OnePlace'
  BY <1>1, <1>2 DEF OnePlace, TypeOK, InChannel, IsPending, Outside
<1>6. CellsAgree' /\ WorkerAgrees'
  BY <1>1, <1>2 DEF CellsAgree, WorkerAgrees, OnePlace, TypeOK, InChannel,
    IsPending, Outside, InHand, Completing
<1>7. AnswersHold'
  BY <1>1, <1>2 DEF AnswersHold, CellsAgree, OnePlace, TypeOK, NeverRuns,
    Settled, Outside, InChannel, IsPending
<1>8. AdmissionHolds' /\ StartHolds'
  BY <1>1, <1>2 DEF AdmissionHolds, StartHolds, TypeOK, Inside, Waiting
<1>9. DrainHolds'
  BY <1>1, <1>2 DEF DrainHolds, Drained, Completing, StartHolds,
    AdmissionHolds, TypeOK, Inside, Waiting
<1>10. WaitersHold' /\ CheckpointHolds'
  BY <1>1, <1>2 DEF WaitersHold, CheckpointHolds, TypeOK, Completing, Settled,
    InChannel, IsPending, Waiting, Inside, Unrun
<1> QED
  BY <1>4, <1>5, <1>6, <1>7, <1>3, <1>8, <1>9, <1>10

(* drive_request: the provider answers, or panics. *)
LEMMA DriveOK ==
  ASSUME InductiveInvariant, Drive
  PROVE  InductiveInvariant'
<1> USE DEF InductiveInvariant
<1>1. /\ worker.pc = "drive" /\ worker.at \in Calls
      /\ UNCHANGED <<lifecycle, admission, queued, channel, phase, result, caller,
                     answer, finished, persisted, owner>>
  BY DEF Drive, WorkerAgrees, cells
<1>2. /\ ran' = ran \cup {worker.at}
      /\ \/ worker'.told = "ok" /\ worker'.next = "check" /\ worker'.panicked = worker.panicked
         \/ worker'.told = "unknown" /\ worker'.next = "drain" /\ worker'.panicked
      /\ worker' \in Worker /\ worker'.pc = "set" /\ worker'.at = worker.at
      /\ worker'.unwound = worker.unwound /\ worker'.pending = worker.pending
  BY ZenonT(60), <1>1 DEF Drive, Complete, TypeOK, Worker, Answers, BeforeDispatch
<1>3. TypeOK'
  BY <1>1, <1>2 DEF TypeOK, Waiting
<1>4. OnePlace'
  BY <1>1, <1>2 DEF OnePlace, TypeOK, InChannel, IsPending, Outside
<1>5. CellsAgree' /\ WorkerAgrees'
  BY <1>1, <1>2 DEF BeforeDispatch, CellsAgree, WorkerAgrees, OnePlace, TypeOK,
    InChannel, IsPending, Outside, InHand, Completing
<1>6. AnswersHold'
  BY <1>1, <1>2 DEF WorkerAgrees, BeforeDispatch, AnswersHold, CellsAgree,
    OnePlace, TypeOK, NeverRuns, Settled, Outside, InChannel, IsPending
<1>7. LineIsCounted'
  <2>1. Line' = Line
    BY <1>1, <1>2
      DEF Line, InChannel, InHand, OnePlace, Outside, IsPending, TypeOK
  <2> QED
    BY <2>1, <1>1, <1>2 DEF LineIsCounted, TypeOK
<1>8. AdmissionHolds' /\ StartHolds'
  BY <1>1, <1>2 DEF AdmissionHolds, StartHolds, TypeOK, Inside, Waiting
<1>9. DrainHolds'
  BY <1>1, <1>2 DEF DrainHolds, Drained, Completing, StartHolds,
    AdmissionHolds, TypeOK, Inside, Waiting
<1>10. WaitersHold' /\ CheckpointHolds'
  BY <1>1, <1>2 DEF WaitersHold, CheckpointHolds, TypeOK, Completing, Settled,
    InChannel, IsPending, Waiting, Inside, Unrun
<1> QED
  BY <1>3, <1>4, <1>5, <1>6, <1>7, <1>8, <1>9, <1>10

(* Cell::complete stores the result. *)
LEMMA SetResultOK ==
  ASSUME InductiveInvariant, SetResult
  PROVE  InductiveInvariant'
<1> USE DEF InductiveInvariant
<1>1. /\ worker.pc = "set" /\ worker.at \in Calls
      /\ UNCHANGED <<lifecycle, admission, queued, channel, phase, caller, answer,
                     finished, persisted, ran, owner>>
  BY DEF SetResult, WorkerAgrees, Completing, cells
<1>2. /\ result' = [result EXCEPT ![worker.at] = worker.told]
      /\ worker' \in Worker /\ worker'.pc = "publish" /\ worker'.at = worker.at
      /\ worker'.told = worker.told /\ worker'.next = worker.next
      /\ worker'.panicked = worker.panicked /\ worker'.unwound = worker.unwound
      /\ worker'.pending = worker.pending
  BY DEF SetResult, Work, TypeOK, Worker
<1>3. TypeOK'
  BY <1>1, <1>2 DEF TypeOK, Waiting, Worker
<1>4. OnePlace'
  BY <1>1, <1>2 DEF OnePlace, TypeOK, InChannel, IsPending, Outside
<1>5. CellsAgree' /\ WorkerAgrees'
  BY <1>1, <1>2 DEF CellsAgree, WorkerAgrees, OnePlace, TypeOK, InChannel,
    IsPending, Outside, InHand, Completing
<1>6. AnswersHold'
  BY <1>1, <1>2 DEF AnswersHold, CellsAgree, OnePlace, TypeOK, NeverRuns,
    Settled, Outside, InChannel, IsPending
<1>7. LineIsCounted'
  <2>1. Line' = Line
    BY <1>1, <1>2
      DEF Line, InChannel, InHand, OnePlace, Outside, IsPending, TypeOK
  <2> QED
    BY <2>1, <1>1, <1>2 DEF LineIsCounted, TypeOK
<1>8. AdmissionHolds' /\ StartHolds'
  BY <1>1, <1>2 DEF AdmissionHolds, StartHolds, TypeOK, Inside, Waiting
<1>9. DrainHolds'
  BY <1>1, <1>2 DEF DrainHolds, Drained, Completing, StartHolds,
    AdmissionHolds, TypeOK, Inside, Waiting
<1>10. WaitersHold' /\ CheckpointHolds'
  BY <1>1, <1>2 DEF WaitersHold, CheckpointHolds, TypeOK, Completing, Settled,
    InChannel, IsPending, Waiting, Inside, Unrun
<1> QED
  BY <1>3, <1>4, <1>5, <1>6, <1>7, <1>8, <1>9, <1>10

(* Cell::complete publishes the phase. *)
LEMMA PublishOK ==
  ASSUME InductiveInvariant, Publish
  PROVE  InductiveInvariant'
<1> USE DEF InductiveInvariant
<1>1. /\ worker.pc = "publish" /\ worker.at \in Calls
      /\ UNCHANGED <<lifecycle, admission, queued, channel, result, caller, answer,
                     finished, persisted, ran, owner>>
  BY DEF Publish, WorkerAgrees, Completing, cells
<1>2. /\ phase' = [phase EXCEPT ![worker.at] = "completed"]
      /\ worker' \in Worker /\ worker'.pc = "notify" /\ worker'.at = worker.at
      /\ worker'.told = worker.told /\ worker'.next = worker.next
      /\ worker'.panicked = worker.panicked /\ worker'.unwound = worker.unwound
      /\ worker'.pending = worker.pending
  BY DEF Publish, Work, TypeOK, Worker
<1>3. TypeOK'
  BY <1>1, <1>2 DEF TypeOK, Waiting
<1>4. OnePlace'
  BY <1>1, <1>2 DEF OnePlace, TypeOK, InChannel, IsPending, Outside
<1>5. CellsAgree' /\ WorkerAgrees'
  BY <1>1, <1>2 DEF CellsAgree, WorkerAgrees, OnePlace, TypeOK, InChannel,
    IsPending, Outside, InHand, Completing
<1>6. AnswersHold'
  BY <1>1, <1>2 DEF AnswersHold, CellsAgree, OnePlace, TypeOK, NeverRuns,
    Settled, Outside, InChannel, IsPending
<1>7. LineIsCounted'
  <2>1. Line' = Line
    BY <1>1, <1>2
      DEF Line, InChannel, InHand, OnePlace, Outside, IsPending, TypeOK
  <2> QED
    BY <2>1, <1>1, <1>2 DEF LineIsCounted, TypeOK
<1>8. AdmissionHolds' /\ StartHolds'
  BY <1>1, <1>2 DEF AdmissionHolds, StartHolds, TypeOK, Inside, Waiting
<1>9. DrainHolds'
  BY <1>1, <1>2 DEF DrainHolds, Drained, Completing, StartHolds,
    AdmissionHolds, TypeOK, Inside, Waiting
<1>10. WaitersHold' /\ CheckpointHolds'
  BY <1>1, <1>2 DEF WaitersHold, CheckpointHolds, TypeOK, Completing, Settled,
    InChannel, IsPending, Waiting, Inside, Unrun
<1> QED
  BY <1>3, <1>4, <1>5, <1>6, <1>7, <1>8, <1>9, <1>10

(* Cell::complete wakes whoever is asleep. *)
LEMMA NotifyOK ==
  ASSUME InductiveInvariant, Notify
  PROVE  InductiveInvariant'
<1> USE DEF InductiveInvariant
<1>1. /\ worker.pc = "notify" /\ worker.at \in Calls
      /\ UNCHANGED <<lifecycle, admission, queued, channel, phase, result, answer,
                     finished, persisted, ran, owner>>
  BY DEF Notify, WorkerAgrees, Completing, cells
<1>2. /\ \/ caller' = caller
         \/ /\ caller[worker.at] = "asleep"
            /\ caller' = [caller EXCEPT ![worker.at] = "look"]
      /\ worker' \in Worker /\ worker'.pc = worker.next /\ worker'.at = worker.at
      /\ worker'.told = worker.told /\ worker'.next = worker.next
      /\ worker'.panicked = worker.panicked /\ worker'.unwound = worker.unwound
      /\ worker'.pending = worker.pending
  BY DEF Notify, At, Work, TypeOK, Worker
<1>3. TypeOK'
  BY <1>1, <1>2 DEF TypeOK, Waiting
<1>4. OnePlace'
  BY <1>1, <1>2 DEF OnePlace, TypeOK, InChannel, IsPending, Outside
<1>5. CellsAgree' /\ WorkerAgrees'
  BY <1>1, <1>2 DEF Worker, CellsAgree, WorkerAgrees, OnePlace, TypeOK,
    InChannel, IsPending, Outside, InHand, Completing
<1>6. AnswersHold'
  BY <1>1, <1>2 DEF AnswersHold, CellsAgree, OnePlace, TypeOK, NeverRuns,
    Settled, Outside, InChannel, IsPending
<1>7. LineIsCounted'
  <2>1. Line' = Line
    BY <1>1, <1>2
      DEF Worker, Line, InChannel, InHand, OnePlace, Outside, IsPending, TypeOK
  <2> QED
    BY <2>1, <1>1, <1>2 DEF LineIsCounted, TypeOK
<1>8. AdmissionHolds' /\ StartHolds'
  BY <1>1, <1>2 DEF Worker, AdmissionHolds, StartHolds, TypeOK, Inside, Waiting
<1>9. DrainHolds'
  BY <1>1, <1>2 DEF DrainHolds, Drained, Completing, StartHolds,
    AdmissionHolds, TypeOK, Inside, Waiting, Worker, WorkerAgrees
<1>10. WaitersHold' /\ CheckpointHolds'
  BY <1>1, <1>2 DEF WaitersHold, CheckpointHolds, TypeOK, Completing, Settled,
    InChannel, IsPending, Waiting, Inside, Unrun
<1> QED
  BY <1>3, <1>4, <1>5, <1>6, <1>7, <1>8, <1>9, <1>10

(* After a request the worker looks whether it is to exit. *)
LEMMA CheckOK ==
  ASSUME InductiveInvariant, Check
  PROVE  InductiveInvariant'
<1> USE DEF InductiveInvariant
<1>1. /\ worker.pc = "check"
      /\ UNCHANGED <<lifecycle, admission, queued, channel, phase, result, caller,
                     answer, finished, persisted, ran, owner>>
  BY DEF Check, cells
<1>2. /\ \/ worker'.pc = "recv"
         \/ worker'.pc = "drain" /\ lifecycle # "running" /\ queued = 0
      /\ worker' \in Worker /\ worker'.pc \in {"recv", "drain"}
      /\ worker'.at = worker.at /\ worker'.told = worker.told
      /\ worker'.next = worker.next /\ worker'.panicked = worker.panicked
      /\ worker'.unwound = worker.unwound /\ worker'.pending = worker.pending
  BY DEF Check, Work, Exits, TypeOK, Worker
<1>3. TypeOK'
  BY <1>1, <1>2 DEF TypeOK, Waiting
<1>4. OnePlace'
  BY <1>1, <1>2 DEF OnePlace, TypeOK, InChannel, IsPending, Outside
<1>5. CellsAgree' /\ WorkerAgrees'
  BY <1>1, <1>2 DEF CellsAgree, WorkerAgrees, OnePlace, TypeOK, InChannel,
    IsPending, Outside, InHand, Completing
<1>6. AnswersHold'
  BY <1>1, <1>2 DEF AnswersHold, CellsAgree, OnePlace, TypeOK, NeverRuns,
    Settled, Outside, InChannel, IsPending
<1>7. LineIsCounted'
  <2>1. Line' = Line
    BY <1>1, <1>2
      DEF Line, InChannel, InHand, OnePlace, Outside, IsPending, TypeOK
  <2> QED
    BY <2>1, <1>1, <1>2 DEF LineIsCounted, TypeOK
<1>8. AdmissionHolds' /\ StartHolds'
  BY <1>1, <1>2 DEF AdmissionHolds, StartHolds, TypeOK, Inside, Waiting
<1>9. DrainHolds'
  BY NothingQueued, <1>1, <1>2 DEF DrainHolds, Drained, Completing, StartHolds,
    AdmissionHolds, TypeOK, Inside, Waiting
<1>10. WaitersHold' /\ CheckpointHolds'
  BY <1>1, <1>2 DEF WaitersHold, CheckpointHolds, TypeOK, Completing, Settled,
    InChannel, IsPending, Waiting, Inside, Unrun
<1> QED
  BY <1>3, <1>4, <1>5, <1>6, <1>7, <1>8, <1>9, <1>10

(* terminal_drain takes whatever is in the channel and closes the bridge. *)
LEMMA DrainOK ==
  ASSUME InductiveInvariant, Drain
  PROVE  InductiveInvariant'
<1> USE DEF InductiveInvariant
<1>1. /\ worker.pc = "drain" /\ admission = None
      /\ WorkIn(worker.pending) = {} /\ WorkIn(channel) \subseteq Calls
      /\ UNCHANGED <<admission, phase, result, caller, answer, finished, persisted,
                     ran, owner>>
  BY WorkInEmpty DEF Drain, cells, DrainHolds, Completing, WorkIn
<1>2. /\ lifecycle' = IF worker.panicked \/ lifecycle = "running" THEN "closing_cancel"
                     ELSE lifecycle
      /\ queued' = queued - Cardinality(WorkIn(channel))
      /\ channel' = << >> /\ WorkIn(channel') = {}
      /\ worker' \in Worker /\ worker'.pc = "cancel" /\ worker'.pending = channel
      /\ worker'.at = worker.at /\ worker'.told = worker.told
      /\ worker'.next = worker.next /\ worker'.panicked = worker.panicked
      /\ worker'.unwound = worker.unwound
  BY WorkInEmpty DEF Drain, Left, TypeOK, Worker
<1>3. LineIsCounted'
  <2>1. Line' = Line \ WorkIn(channel) /\ WorkIn(channel) \subseteq Line
    BY <1>1, <1>2
      DEF Line, InChannel, InHand, OnePlace, Outside, IsPending, TypeOK
  <2> QED
    <3>1. IsFiniteSet(WorkIn(channel)) /\ IsFiniteSet(Line \ WorkIn(channel))
      BY <2>1, FS_Subset DEF LineIsCounted
    <3>2. Line \cap WorkIn(channel) = WorkIn(channel)
      BY <2>1
    <3>3. Cardinality(Line \ WorkIn(channel)) = Cardinality(Line) - Cardinality(WorkIn(channel))
      BY <3>1, <3>2, FS_Difference DEF LineIsCounted
    <3> QED
      BY <1>2, <2>1, <3>1, <3>3 DEF LineIsCounted
<1>4. TypeOK'
  <2>1. queued' \in Nat
    BY <1>3, FS_CardinalityType DEF LineIsCounted
  <2>2. channel' \in Seq(Calls \cup {Wake}) /\ Len(channel') <= QueueCapacity
    BY <1>2, BridgeAssumption
  <2> QED
    BY <1>1, <1>2, <2>1, <2>2 DEF TypeOK, Closing
<1>5. OnePlace'
  <2>1. NoRepeats(channel')
    BY <1>2 DEF NoRepeats
  <2> QED
    BY <1>1, <1>2, <2>1 DEF OnePlace, InChannel, IsPending, Outside
<1>6. CellsAgree' /\ WorkerAgrees'
  BY <1>1, <1>2 DEF CellsAgree, WorkerAgrees, OnePlace, TypeOK, InChannel,
    IsPending, Outside, InHand, Completing
<1>7. AnswersHold'
  BY <1>1, <1>2 DEF AnswersHold, CellsAgree, OnePlace, TypeOK, NeverRuns,
    Settled, Outside, InChannel, IsPending
<1>8. AdmissionHolds' /\ StartHolds'
  BY BridgeAssumption, <1>1, <1>2
    DEF AdmissionHolds, StartHolds, TypeOK, Inside, Waiting
<1>9. DrainHolds'
  BY <1>1, <1>2 DEF DrainHolds, Drained, Completing, StartHolds,
    AdmissionHolds, TypeOK, Inside, Waiting
<1>10. WaitersHold' /\ CheckpointHolds'
  BY <1>1, <1>2 DEF DrainHolds, Drained, WaitersHold, CheckpointHolds, TypeOK,
    Completing, Settled, InChannel, IsPending, Waiting, Inside, Unrun
<1> QED
  BY <1>4, <1>5, <1>6, <1>7, <1>3, <1>8, <1>9, <1>10

(* Every request of the drain is settled. *)
LEMMA CancelDone ==
  ASSUME InductiveInvariant, Cancel, worker.pending = << >>
  PROVE  InductiveInvariant'
<1> USE DEF InductiveInvariant
<1>1. /\ worker.pc = "cancel" /\ worker.pending = << >>
      /\ UNCHANGED <<lifecycle, admission, queued, channel, phase, result, caller,
                     answer, finished, persisted, ran, owner>>
  BY DEF Cancel, cells
<1>2. /\ worker' \in Worker /\ worker'.pc = "retire" /\ worker'.at = worker.at
      /\ worker'.told = worker.told /\ worker'.next = worker.next
      /\ worker'.panicked = worker.panicked /\ worker'.unwound = worker.unwound
      /\ worker'.pending = worker.pending
      /\ WorkIn(worker.pending) = {}
  BY <1>1, WorkInEmpty DEF Cancel, Work, TypeOK, Worker
<1>3. TypeOK'
  BY <1>1, <1>2 DEF TypeOK, Waiting
<1>4. OnePlace'
  BY <1>1, <1>2 DEF OnePlace, TypeOK, InChannel, IsPending, Outside
<1>5. CellsAgree' /\ WorkerAgrees'
  BY <1>1, <1>2 DEF CellsAgree, WorkerAgrees, OnePlace, TypeOK, InChannel,
    IsPending, Outside, InHand, Completing
<1>6. AnswersHold'
  BY <1>1, <1>2 DEF AnswersHold, CellsAgree, OnePlace, TypeOK, NeverRuns,
    Settled, Outside, InChannel, IsPending
<1>7. LineIsCounted'
  <2>1. Line' = Line
    BY <1>1, <1>2
      DEF Line, InChannel, InHand, OnePlace, Outside, IsPending, TypeOK
  <2> QED
    BY <2>1, <1>1, <1>2 DEF LineIsCounted, TypeOK
<1>8. AdmissionHolds' /\ StartHolds'
  BY <1>1, <1>2 DEF AdmissionHolds, StartHolds, TypeOK, Inside, Waiting
<1>9. DrainHolds'
  BY <1>1, <1>2 DEF DrainHolds, Drained, Completing, StartHolds,
    AdmissionHolds, TypeOK, Inside, Waiting
<1>10. WaitersHold' /\ CheckpointHolds'
  BY <1>1, <1>2 DEF WaitersHold, CheckpointHolds, TypeOK, Completing, Settled,
    InChannel, IsPending, Waiting, Inside, Unrun
<1> QED
  BY <1>3, <1>4, <1>5, <1>6, <1>7, <1>8, <1>9, <1>10

(* A drained wake-up has no cell. *)
LEMMA CancelWake ==
  ASSUME InductiveInvariant, Cancel, worker.pending # << >>, Head(worker.pending) = Wake
  PROVE  InductiveInvariant'
<1> USE DEF InductiveInvariant
<1>1. /\ worker.pc = "cancel" /\ worker.pending # << >>
      /\ worker.pending \in Seq(Calls \cup {Wake}) /\ NoRepeats(worker.pending)
      /\ UNCHANGED <<lifecycle, admission, queued, channel, phase, result, caller,
                     answer, finished, persisted, ran, owner>>
  BY DEF Cancel, TypeOK, Worker, OnePlace, cells
<1>2. /\ worker' \in Worker /\ worker'.pc = "cancel"
      /\ worker'.pending = Tail(worker.pending) /\ worker'.at = worker.at
      /\ worker'.told = worker.told /\ worker'.next = worker.next
      /\ worker'.panicked = worker.panicked /\ worker'.unwound = worker.unwound
      /\ WorkIn(worker'.pending) = WorkIn(worker.pending)
      /\ NoRepeats(worker'.pending)
  <2>1. worker' = [worker EXCEPT !.pending = Tail(worker.pending)]
    BY <1>1 DEF Cancel
  <2>2. WorkIn(Tail(worker.pending)) = WorkIn(worker.pending) /\ NoRepeats(Tail(worker.pending))
    <3>1. {Head(worker.pending)} \cap Calls = {}
      BY BridgeAssumption
    <3>2. WorkIn(worker.pending) =
            WorkIn(Tail(worker.pending)) \cup ({Head(worker.pending)} \cap Calls)
      BY <1>1, WorkInTail
    <3> QED
      BY <1>1, <3>1, <3>2, TailOnce
  <2>3. Tail(worker.pending) \in Seq(Calls \cup {Wake})
    BY <1>1
  <2> QED
    BY <1>1, <2>1, <2>2, <2>3 DEF TypeOK, Worker
<1>3. TypeOK'
  BY <1>1, <1>2 DEF TypeOK, Waiting
<1>4. OnePlace'
  BY <1>1, <1>2 DEF OnePlace, TypeOK, InChannel, IsPending, Outside
<1>5. CellsAgree' /\ WorkerAgrees'
  BY <1>1, <1>2 DEF CellsAgree, WorkerAgrees, OnePlace, TypeOK, InChannel,
    IsPending, Outside, InHand, Completing
<1>6. AnswersHold'
  BY <1>1, <1>2 DEF AnswersHold, CellsAgree, OnePlace, TypeOK, NeverRuns,
    Settled, Outside, InChannel, IsPending
<1>7. LineIsCounted'
  <2>1. Line' = Line
    BY <1>1, <1>2
      DEF Line, InChannel, InHand, OnePlace, Outside, IsPending, TypeOK
  <2> QED
    BY <2>1, <1>1, <1>2 DEF LineIsCounted, TypeOK
<1>8. AdmissionHolds' /\ StartHolds'
  BY <1>1, <1>2 DEF AdmissionHolds, StartHolds, TypeOK, Inside, Waiting
<1>9. DrainHolds'
  BY <1>1, <1>2 DEF DrainHolds, Drained, Completing, StartHolds,
    AdmissionHolds, TypeOK, Inside, Waiting
<1>10. WaitersHold' /\ CheckpointHolds'
  BY <1>1, <1>2 DEF WaitersHold, CheckpointHolds, TypeOK, Completing, Settled,
    InChannel, IsPending, Waiting, Inside, Unrun
<1> QED
  BY <1>3, <1>4, <1>5, <1>6, <1>7, <1>8, <1>9, <1>10

(* A drained request is failed. *)
LEMMA CancelCall ==
  ASSUME InductiveInvariant, NEW c \in Calls, Cancel, worker.pending # << >>, Head(worker.pending) = c
  PROVE  InductiveInvariant'
<1> USE DEF InductiveInvariant
<1>1. /\ worker.pc = "cancel" /\ worker.pending # << >>
      /\ worker.pending \in Seq(Calls \cup {Wake}) /\ NoRepeats(worker.pending)
      /\ c \in WorkIn(worker.pending)
      /\ UNCHANGED <<lifecycle, admission, queued, channel, phase, result, caller,
                     answer, finished, persisted, ran, owner>>
  BY WorkInTail DEF Cancel, TypeOK, Worker, OnePlace, cells
<1>2. /\ worker' \in Worker /\ worker'.pc = "set" /\ worker'.at = c
      /\ worker'.told \in {"stopped", "closed"} /\ worker'.next = "cancel"
      /\ worker'.pending = Tail(worker.pending) /\ worker'.panicked = worker.panicked
      /\ worker'.unwound = worker.unwound
      /\ WorkIn(worker'.pending) = WorkIn(worker.pending) \ {c}
      /\ NoRepeats(worker'.pending)
  <2>1. /\ worker' = [worker EXCEPT
              !.pc = "set", !.next = "cancel", !.at = c, !.pending = Tail(worker.pending),
              !.told = IF worker.panicked THEN "stopped" ELSE "closed"]
    BY <1>1, BridgeAssumption DEF Cancel
  <2>2. WorkIn(Tail(worker.pending)) = WorkIn(worker.pending) \ {c} /\ NoRepeats(Tail(worker.pending))
    BY <1>1, WorkInTail, TailOnce
  <2>3. Tail(worker.pending) \in Seq(Calls \cup {Wake})
    BY <1>1
  <2> QED
    BY <1>1, <2>1, <2>2, <2>3 DEF TypeOK, Worker, Answers, BeforeDispatch
<1>3. TypeOK'
  BY <1>1, <1>2 DEF TypeOK, Waiting
<1>4. OnePlace'
  BY <1>1, <1>2 DEF OnePlace, TypeOK, InChannel, IsPending, Outside
<1>5. CellsAgree' /\ WorkerAgrees'
  BY <1>1, <1>2 DEF CellsAgree, WorkerAgrees, OnePlace, TypeOK, InChannel,
    IsPending, Outside, InHand, Completing
<1>6. AnswersHold'
  BY <1>1, <1>2 DEF AnswersHold, CellsAgree, OnePlace, TypeOK, NeverRuns,
    Settled, Outside, InChannel, IsPending
<1>7. LineIsCounted'
  <2>1. Line' = Line
    BY <1>1, <1>2
      DEF Line, InChannel, InHand, OnePlace, Outside, IsPending, TypeOK
  <2> QED
    BY <2>1, <1>1, <1>2 DEF LineIsCounted, TypeOK
<1>8. AdmissionHolds' /\ StartHolds'
  BY <1>1, <1>2 DEF AdmissionHolds, StartHolds, TypeOK, Inside, Waiting
<1>9. DrainHolds'
  BY <1>1, <1>2 DEF DrainHolds, Drained, Completing, StartHolds,
    AdmissionHolds, TypeOK, Inside, Waiting
<1>10. WaitersHold' /\ CheckpointHolds'
  BY <1>1, <1>2 DEF WaitersHold, CheckpointHolds, TypeOK, Completing, Settled,
    InChannel, IsPending, Waiting, Inside, Unrun
<1> QED
  BY <1>3, <1>4, <1>5, <1>6, <1>7, <1>8, <1>9, <1>10

(* The provider retires, writes its checkpoint, or panics doing so. *)
LEMMA RetireOK ==
  ASSUME InductiveInvariant, Retire
  PROVE  InductiveInvariant'
<1> USE DEF InductiveInvariant
<1>1. /\ worker.pc = "retire"
      /\ UNCHANGED <<lifecycle, admission, queued, channel, phase, result, caller,
                     answer, ran, owner>>
  BY DEF Retire, cells
<1>2. /\ persisted' = (persisted \/ (~worker.unwound /\ ~worker.panicked /\ lifecycle = "closing_drain"))
      /\ \/ worker'.pc = "gone" /\ finished' /\ worker'.panicked = worker.panicked /\ worker'.unwound = worker.unwound
         \/ worker'.pc = "drain" /\ finished' = finished /\ worker'.panicked /\ worker'.unwound
      /\ worker' \in Worker /\ worker'.pc \in {"gone", "drain"}
      /\ worker'.at = worker.at /\ worker'.told = worker.told
      /\ worker'.next = worker.next /\ worker'.pending = worker.pending
  BY DEF Retire, Persists, Work, TypeOK, Worker
<1>3. TypeOK'
  BY <1>1, <1>2 DEF TypeOK, Waiting
<1>4. OnePlace'
  BY <1>1, <1>2 DEF OnePlace, TypeOK, InChannel, IsPending, Outside
<1>5. CellsAgree' /\ WorkerAgrees'
  BY <1>1, <1>2 DEF CellsAgree, WorkerAgrees, OnePlace, TypeOK, InChannel,
    IsPending, Outside, InHand, Completing
<1>6. AnswersHold'
  BY <1>1, <1>2 DEF AnswersHold, CellsAgree, OnePlace, TypeOK, NeverRuns,
    Settled, Outside, InChannel, IsPending
<1>7. LineIsCounted'
  <2>1. Line' = Line
    BY <1>1, <1>2
      DEF Line, InChannel, InHand, OnePlace, Outside, IsPending, TypeOK
  <2> QED
    BY <2>1, <1>1, <1>2 DEF LineIsCounted, TypeOK
<1>8. AdmissionHolds' /\ StartHolds'
  BY <1>1, <1>2 DEF AdmissionHolds, StartHolds, TypeOK, Inside, Waiting
<1>9. DrainHolds'
  BY <1>1, <1>2 DEF DrainHolds, Drained, Completing, StartHolds,
    AdmissionHolds, TypeOK, Inside, Waiting
<1>10. WaitersHold' /\ CheckpointHolds'
  BY <1>1, <1>2 DEF AdmissionHolds, WaitersHold, CheckpointHolds, TypeOK,
    Completing, Settled, InChannel, IsPending, Waiting, Inside, Unrun
<1> QED
  BY <1>3, <1>4, <1>5, <1>6, <1>7, <1>8, <1>9, <1>10

(* shutdown closes the bridge while nobody is inside. *)
LEMMA ShutdownOK ==
  ASSUME InductiveInvariant, NEW mode \in Modes, Shutdown(mode)
  PROVE  InductiveInvariant'
<1> USE DEF InductiveInvariant
<1>1. /\ owner \in {"free", "timed_out"}
      /\ \A c \in Calls : ~Inside(c)
      /\ UNCHANGED <<admission, queued, channel, phase, result, caller, answer, worker,
                     finished, persisted, ran>>
  BY DEF Shutdown, Exclusive, cells
<1>2. /\ lifecycle' = IF lifecycle \in {"running", "closing_drain"} THEN mode ELSE lifecycle
      /\ owner' = "signal" /\ mode \in Closing
  BY BridgeAssumption DEF Shutdown
<1>3. TypeOK'
  BY <1>1, <1>2 DEF TypeOK, Waiting, Closing
<1>4. OnePlace'
  BY <1>1, <1>2 DEF OnePlace, TypeOK, InChannel, IsPending, Outside
<1>5. CellsAgree' /\ WorkerAgrees'
  BY <1>1, <1>2 DEF CellsAgree, WorkerAgrees, OnePlace, TypeOK, InChannel,
    IsPending, Outside, InHand, Completing
<1>6. AnswersHold'
  BY <1>1, <1>2 DEF AnswersHold, CellsAgree, OnePlace, TypeOK, NeverRuns,
    Settled, Outside, InChannel, IsPending
<1>7. LineIsCounted'
  <2>1. Line' = Line
    BY <1>1, <1>2
      DEF Line, InChannel, InHand, OnePlace, Outside, IsPending, TypeOK
  <2> QED
    BY <2>1, <1>1, <1>2 DEF LineIsCounted, TypeOK
<1>8. AdmissionHolds' /\ StartHolds'
  BY <1>1, <1>2 DEF AdmissionHolds, StartHolds, TypeOK, Inside, Waiting, Closing
<1>9. DrainHolds'
  BY <1>1, <1>2 DEF DrainHolds, Drained, Completing, StartHolds,
    AdmissionHolds, TypeOK, Inside, Waiting, Closing
<1>10. WaitersHold' /\ CheckpointHolds'
  BY <1>1, <1>2 DEF WaitersHold, CheckpointHolds, TypeOK, Completing, Settled,
    InChannel, IsPending, Waiting, Inside, Unrun, Closing
<1> QED
  BY <1>3, <1>4, <1>5, <1>6, <1>7, <1>8, <1>9, <1>10

(* shutdown and drop wake the worker. *)
LEMMA SignalOK ==
  ASSUME InductiveInvariant, Signal
  PROVE  InductiveInvariant'
<1> USE DEF InductiveInvariant
<1>1. channel \in Seq(Calls \cup {Wake}) /\ NoRepeats(channel) /\ Wake \notin WorkIn(channel)
  BY BridgeAssumption DEF TypeOK, OnePlace, WorkIn
<1>2. /\ owner \in {"signal", "dropping"}
      /\ UNCHANGED <<lifecycle, admission, queued, phase, result, caller, answer,
                     worker, finished, persisted, ran>>
  BY DEF Signal, cells
<1>3. /\ channel' \in Seq(Calls \cup {Wake}) /\ Len(channel') <= QueueCapacity
      /\ WorkIn(channel') = WorkIn(channel) /\ NoRepeats(channel')
      /\ \/ owner = "signal" /\ owner' = "joining"
         \/ owner = "dropping" /\ owner' = "dropped"
  <2>1. CASE channel' = channel
    BY <1>1, <2>1 DEF Signal, TypeOK
  <2>2. CASE channel' = Append(channel, Wake) /\ ~Full
    <3>1. WorkIn(channel') = WorkIn(channel) /\ NoRepeats(channel')
      <4>1. {Wake} \cap Calls = {}
        BY BridgeAssumption
      <4>2. WorkIn(channel') = WorkIn(channel) \cup ({Wake} \cap Calls)
        BY <1>1, <2>2, WorkInAppend
      <4> QED
        BY <1>1, <2>2, <4>1, <4>2, AppendOnce
    <3>2. channel' \in Seq(Calls \cup {Wake}) /\ Len(channel') <= QueueCapacity
      BY <1>1, <2>2, BridgeAssumption DEF Full
    <3> QED
      BY <3>1, <3>2 DEF Signal
  <2> QED
    BY <2>1, <2>2 DEF Signal
<1>4. TypeOK'
  BY <1>2, <1>3 DEF TypeOK, Waiting
<1>5. OnePlace'
  BY <1>2, <1>3 DEF OnePlace, TypeOK, InChannel, IsPending, Outside
<1>6. CellsAgree' /\ WorkerAgrees'
  BY <1>2, <1>3 DEF CellsAgree, WorkerAgrees, OnePlace, TypeOK, InChannel,
    IsPending, Outside, InHand, Completing
<1>7. AnswersHold'
  BY <1>2, <1>3 DEF AnswersHold, CellsAgree, OnePlace, TypeOK, NeverRuns,
    Settled, Outside, InChannel, IsPending
<1>8. LineIsCounted'
  <2>1. Line' = Line
    BY <1>2, <1>3
      DEF Line, InChannel, InHand, OnePlace, Outside, IsPending, TypeOK
  <2> QED
    BY <2>1, <1>2, <1>3 DEF LineIsCounted, TypeOK
<1>9. AdmissionHolds' /\ StartHolds'
  BY <1>2, <1>3 DEF AdmissionHolds, StartHolds, TypeOK, Inside, Waiting
<1>10. DrainHolds'
  BY <1>2, <1>3 DEF DrainHolds, Drained, Completing, StartHolds,
    AdmissionHolds, TypeOK, Inside, Waiting
<1>11. WaitersHold' /\ CheckpointHolds'
  BY <1>2, <1>3 DEF WaitersHold, CheckpointHolds, TypeOK, Completing, Settled,
    InChannel, IsPending, Waiting, Inside, Unrun
<1> QED
  BY <1>4, <1>5, <1>6, <1>7, <1>8, <1>9, <1>10, <1>11

(* shutdown joins a worker that has finished. *)
LEMMA JoinedOK ==
  ASSUME InductiveInvariant, Joined
  PROVE  InductiveInvariant'
<1> USE DEF InductiveInvariant
<1>1. /\ owner = "joining" /\ finished
      /\ UNCHANGED <<admission, queued, channel, phase, result, caller, answer, worker,
                     finished, persisted, ran>>
  BY DEF Joined, cells
<1>2. /\ lifecycle' = "joined" /\ owner' = "joined"
  BY DEF Joined
<1>3. TypeOK'
  BY <1>1, <1>2 DEF TypeOK, Waiting
<1>4. OnePlace'
  BY <1>1, <1>2 DEF OnePlace, TypeOK, InChannel, IsPending, Outside
<1>5. CellsAgree' /\ WorkerAgrees'
  BY <1>1, <1>2 DEF CellsAgree, WorkerAgrees, OnePlace, TypeOK, InChannel,
    IsPending, Outside, InHand, Completing
<1>6. AnswersHold'
  BY <1>1, <1>2 DEF AnswersHold, CellsAgree, OnePlace, TypeOK, NeverRuns,
    Settled, Outside, InChannel, IsPending
<1>7. LineIsCounted'
  <2>1. Line' = Line
    BY <1>1, <1>2
      DEF Line, InChannel, InHand, OnePlace, Outside, IsPending, TypeOK
  <2> QED
    BY <2>1, <1>1, <1>2 DEF LineIsCounted, TypeOK
<1>8. AdmissionHolds' /\ StartHolds'
  BY <1>1, <1>2 DEF AdmissionHolds, StartHolds, TypeOK, Inside, Waiting
<1>9. DrainHolds'
  BY <1>1, <1>2 DEF DrainHolds, Drained, Completing, StartHolds,
    AdmissionHolds, TypeOK, Inside, Waiting
<1>10. WaitersHold' /\ CheckpointHolds'
  BY <1>1, <1>2 DEF WaitersHold, CheckpointHolds, TypeOK, Completing, Settled,
    InChannel, IsPending, Waiting, Inside, Unrun
<1> QED
  BY <1>3, <1>4, <1>5, <1>6, <1>7, <1>8, <1>9, <1>10

(* shutdown gives up at its deadline. *)
LEMMA GiveUpOK ==
  ASSUME InductiveInvariant, GiveUp
  PROVE  InductiveInvariant'
<1> USE DEF InductiveInvariant
<1>1. /\ owner = "joining"
      /\ UNCHANGED <<lifecycle, admission, queued, channel, phase, result, caller,
                     answer, worker, finished, persisted, ran>>
  BY DEF GiveUp, cells
<1>2. /\ owner' = "timed_out"
  BY DEF GiveUp
<1>3. TypeOK'
  BY <1>1, <1>2 DEF TypeOK, Waiting
<1>4. OnePlace'
  BY <1>1, <1>2 DEF OnePlace, TypeOK, InChannel, IsPending, Outside
<1>5. CellsAgree' /\ WorkerAgrees'
  BY <1>1, <1>2 DEF CellsAgree, WorkerAgrees, OnePlace, TypeOK, InChannel,
    IsPending, Outside, InHand, Completing
<1>6. AnswersHold'
  BY <1>1, <1>2 DEF AnswersHold, CellsAgree, OnePlace, TypeOK, NeverRuns,
    Settled, Outside, InChannel, IsPending
<1>7. LineIsCounted'
  <2>1. Line' = Line
    BY <1>1, <1>2
      DEF Line, InChannel, InHand, OnePlace, Outside, IsPending, TypeOK
  <2> QED
    BY <2>1, <1>1, <1>2 DEF LineIsCounted, TypeOK
<1>8. AdmissionHolds' /\ StartHolds'
  BY <1>1, <1>2 DEF AdmissionHolds, StartHolds, TypeOK, Inside, Waiting
<1>9. DrainHolds'
  BY <1>1, <1>2 DEF DrainHolds, Drained, Completing, StartHolds,
    AdmissionHolds, TypeOK, Inside, Waiting
<1>10. WaitersHold' /\ CheckpointHolds'
  BY <1>1, <1>2 DEF WaitersHold, CheckpointHolds, TypeOK, Completing, Settled,
    InChannel, IsPending, Waiting, Inside, Unrun
<1> QED
  BY <1>3, <1>4, <1>5, <1>6, <1>7, <1>8, <1>9, <1>10

(* drop cancels what is left. *)
LEMMA DropOK ==
  ASSUME InductiveInvariant, Drop
  PROVE  InductiveInvariant'
<1> USE DEF InductiveInvariant
<1>1. /\ owner \in {"free", "timed_out", "joined"}
      /\ \A c \in Calls : ~Inside(c)
      /\ UNCHANGED <<admission, queued, channel, phase, result, caller, answer, worker,
                     finished, persisted, ran>>
  BY DEF Drop, Exclusive, Borrowed, cells
<1>2. /\ lifecycle' = IF lifecycle \in {"running", "closing_drain"} THEN "closing_cancel"
                     ELSE lifecycle
      /\ owner' = "dropping"
  BY DEF Drop
<1>3. TypeOK'
  BY <1>1, <1>2 DEF TypeOK, Waiting, Closing
<1>4. OnePlace'
  BY <1>1, <1>2 DEF OnePlace, TypeOK, InChannel, IsPending, Outside
<1>5. CellsAgree' /\ WorkerAgrees'
  BY <1>1, <1>2 DEF CellsAgree, WorkerAgrees, OnePlace, TypeOK, InChannel,
    IsPending, Outside, InHand, Completing
<1>6. AnswersHold'
  BY <1>1, <1>2 DEF AnswersHold, CellsAgree, OnePlace, TypeOK, NeverRuns,
    Settled, Outside, InChannel, IsPending
<1>7. LineIsCounted'
  <2>1. Line' = Line
    BY <1>1, <1>2
      DEF Line, InChannel, InHand, OnePlace, Outside, IsPending, TypeOK
  <2> QED
    BY <2>1, <1>1, <1>2 DEF LineIsCounted, TypeOK
<1>8. AdmissionHolds' /\ StartHolds'
  BY <1>1, <1>2 DEF AdmissionHolds, StartHolds, TypeOK, Inside, Waiting, Closing
<1>9. DrainHolds'
  BY <1>1, <1>2 DEF DrainHolds, Drained, Completing, StartHolds,
    AdmissionHolds, TypeOK, Inside, Waiting, Closing
<1>10. WaitersHold' /\ CheckpointHolds'
  BY <1>1, <1>2 DEF WaitersHold, CheckpointHolds, TypeOK, Completing, Settled,
    InChannel, IsPending, Waiting, Inside, Unrun, Closing
<1> QED
  BY <1>3, <1>4, <1>5, <1>6, <1>7, <1>8, <1>9, <1>10

-----------------------------------------------------------------------------
(* One step of one call. *)
LEMMA CallOK ==
  ASSUME InductiveInvariant, NEW c \in Calls,
         Reenter(c) \/ TooLate(c) \/ Admit(c) \/ Stir(c) \/ CallerStep(c)
  PROVE  InductiveInvariant'
<1>1. CASE Reenter(c)
  BY <1>1, TurnedAway DEF Reenter, Answer, At, cells, BeforeDispatch
<1>2. CASE TooLate(c)
  BY <1>2, TurnedAway DEF TooLate, Answer, At, cells, BeforeDispatch
<1>3. CASE Admit(c)
  <2>1. CASE lifecycle = "running"
    BY <1>3, <2>1, EnterOK
  <2>2. CASE lifecycle # "running"
    BY <1>3, <2>2, TurnedAway DEF Admit, Answer, At, cells, BeforeDispatch
  <2> QED
    BY <2>1, <2>2
<1>4. CASE Stir(c)
  BY <1>4, WaiterMoves DEF Stir, At, cells, Waiting
<1>5. CASE Count(c)
  BY <1>5, CountOK
<1>6. CASE Send(c)
  BY <1>6, SendRefused, SendAccepted
<1>7. CASE Look(c)
  BY <1>7, LookOK
<1>8. CASE Sleep(c)
  BY <1>8, WaiterMoves DEF Sleep, At, cells, Waiting
<1>9. CASE TimeUp(c)
  <2>1. CASE phase[c] = "completed"
    BY <1>9, <2>1, WaiterMoves DEF TimeUp, TimesOut, At, cells, Waiting
  <2>2. CASE phase[c] # "completed"
    BY <1>9, <2>2, WaiterMoves DEF TimeUp, TimesOut, At, cells, Waiting
  <2> QED
    BY <2>1, <2>2
<1>10. CASE Expire(c)
  BY <1>10, ExpireOK
<1> QED
  BY <1>1, <1>2, <1>3, <1>4, <1>5, <1>6, <1>7, <1>8, <1>9, <1>10 DEF CallerStep

(* One step of the worker. *)
LEMMA WorkerOK ==
  ASSUME InductiveInvariant, WorkerStep
  PROVE  InductiveInvariant'
<1>1. CASE Receive
  BY <1>1, ReceiveWake, ReceiveCall
<1>2. CASE Inspect
  <2>1. worker.at \in Calls
    BY <1>2 DEF Inspect, InductiveInvariant, WorkerAgrees
  <2>2. CASE phase[worker.at] = "cancelled"
    BY <1>2, <2>1, <2>2, SkipOK DEF Inspect, cells
  <2>3. CASE phase[worker.at] # "cancelled" /\ lifecycle = "closing_cancel"
    BY <1>2, <2>1, <2>3, InspectClosed DEF Inspect, cells
  <2>4. CASE phase[worker.at] # "cancelled" /\ lifecycle # "closing_cancel"
    BY <1>2, <2>1, <2>4, InspectRun DEF Inspect, cells
  <2> QED
    BY <2>2, <2>3, <2>4
<1>3. CASE Dispatch
  <2>1. worker.at \in Calls
    BY <1>3 DEF Dispatch, InductiveInvariant, WorkerAgrees
  <2>2. CASE phase[worker.at] = "queued"
    BY <1>3, <2>1, <2>2, DispatchRun DEF Dispatch, cells
  <2>3. CASE phase[worker.at] # "queued"
    <3>1. phase[worker.at] \in {"cancelled", "completed", "dispatched"}
      BY <2>1, <2>3 DEF InductiveInvariant, TypeOK
    <3> QED
      BY <1>3, <2>1, <2>3, <3>1, SkipOK DEF Dispatch, cells
  <2> QED
    BY <2>2, <2>3
<1>4. CASE Cancel
  <2>1. CASE worker.pending = << >>
    BY <1>4, <2>1, CancelDone
  <2>2. CASE worker.pending # << >>
    <3>1. Head(worker.pending) \in Calls \cup {Wake}
      BY <2>2 DEF InductiveInvariant, TypeOK, Worker
    <3> QED
      BY <1>4, <2>2, <3>1, CancelWake, CancelCall
  <2> QED
    BY <2>1, <2>2
<1> QED
  BY <1>1, <1>2, <1>3, <1>4, OpenOK, UnopenedOK, HangupOK, DriveOK,
    SetResultOK, PublishOK,
     NotifyOK, CheckOK, DrainOK, RetireOK DEF WorkerStep

(* Every step of the bridge keeps the invariant. *)
LEMMA NextOK == InductiveInvariant /\ [Next]_vars => InductiveInvariant'
<1> SUFFICES ASSUME InductiveInvariant, [Next]_vars PROVE InductiveInvariant'
  OBVIOUS
<1>1. CASE UNCHANGED vars
  BY <1>1 DEF vars, InductiveInvariant, TypeOK, OnePlace, CellsAgree,
    WorkerAgrees,
    AnswersHold, LineIsCounted, AdmissionHolds, StartHolds, DrainHolds, WaitersHold,
    CheckpointHolds, InChannel, IsPending, InHand, Completing, Settled, Outside, NeverRuns,
    Line, Inside, Drained
<1> QED
  BY <1>1, CallOK, WorkerOK, ShutdownOK, StartedOK, SignalOK, JoinedOK,
    GiveUpOK, DropOK
    DEF Next

-----------------------------------------------------------------------------
(* The inductive invariant holds of every behaviour: each request is in    *)
(* one place, its cell, its answer and the provider's record agree, the    *)
(* counter is the length of the line, and nothing enters behind the drain. *)
THEOREM Safety == Spec => []InductiveInvariant
<1> QED
  BY InitOK, NextOK, PTL DEF Spec

(* The state of the bridge always has its type: in particular             *)
(* Shared::queued, an AtomicUsize, is never decremented below zero, and    *)
(* the channel never holds more than queue_capacity messages.              *)
THEOREM TypeCorrect == Spec => []TypeOK
<1>1. InductiveInvariant => TypeOK
  BY DEF InductiveInvariant
<1> QED
  BY Safety, <1>1, PTL

(* What submit_request and wait_cell tell a caller stays true: no call     *)
(* that was rejected, or cancelled by its deadline, is ever run, and every *)
(* result is of a call that was.                                           *)
THEOREM ToldTheTruth == Spec => []AnswersAreTrue
<1>1. InductiveInvariant => AnswersAreTrue
  BY DEF InductiveInvariant, AnswersHold, AnswersAreTrue, NeverRuns
<1> QED
  BY Safety, <1>1, PTL

(* When worker_main has ended, whichever way, nobody waits for a cell that *)
(* is not settled; and the checkpoint of a drain leaves nobody failed.     *)
THEOREM NoneLeftBehind == Spec => []NobodyStranded
<1>1. ASSUME InductiveInvariant PROVE NobodyStranded
  <2>1. ASSUME worker.pc = "gone", NEW c \in Calls, caller[c] \in Waiting
        PROVE  Settled(c)
    <3>1. WorkIn(worker.pending) = {} /\ WorkIn(channel) = {}
      BY <1>1, <2>1, WorkInEmpty
        DEF InductiveInvariant, DrainHolds, Drained, Completing
    <3> QED
      BY <1>1, <2>1, <3>1
        DEF InductiveInvariant, WaitersHold, InChannel, IsPending
  <2>2. persisted => \A c \in Calls : result[c] \notin Unrun /\ caller[c] \notin Waiting
    BY <1>1 DEF InductiveInvariant, CheckpointHolds, Inside, Waiting
  <2> QED
    BY <2>1, <2>2 DEF NobodyStranded, Settled, Unrun
<1> QED
  BY Safety, <1>1, PTL

=============================================================================
