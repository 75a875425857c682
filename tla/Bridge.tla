------------------------------- MODULE Bridge -------------------------------
(***************************************************************************)
(* The synchronous Eventlog bridge (crates/entity-eventlog/src/sync.rs):   *)
(* callers put requests in a bounded queue and wait on a cell each; one    *)
(* worker thread owns the provider and runs them in turn; the owner shuts  *)
(* the bridge down or drops it.  Every atomic access, lock and wait of the *)
(* protocol is a step.                                                     *)
(***************************************************************************)
EXTENDS Integers, Sequences, FiniteSets

CONSTANTS
  Calls,          \* one-shot calls, each with a cell of its own
  Patient,        \* the calls that wait Forever
  PatientOwner,   \* whether shutdown waits Forever
  Modes,          \* the lifecycles a shutdown may ask for
  QueueCapacity,  \* BridgeConfig::queue_capacity
  Panics,         \* whether the provider may panic
  None, Wake

Closing == {"closing_drain", "closing_cancel"}

ASSUME BridgeAssumption ==
  /\ Patient \subseteq Calls
  /\ PatientOwner \in BOOLEAN /\ Panics \in BOOLEAN
  /\ Modes \subseteq Closing
  /\ QueueCapacity \in Nat \ {0}
  /\ None \notin Calls /\ Wake \notin Calls

VARIABLES
  lifecycle,     \* Shared::lifecycle
  admission,     \* who holds Shared::admission, or None
  queued,        \* Shared::queued
  channel,       \* the bounded channel
  phase, result, \* the cells
  caller,        \* where each call is
  answer,        \* what each call returned
  worker,        \* the worker thread
  finished,      \* Shared::finished
  persisted,     \* whether the open checkpoint was written
  ran,           \* the calls the provider was invoked for
  owner          \* where the bridge's owner is

cells == <<phase, result>>
vars == <<lifecycle, admission, queued, channel, phase, result, caller, answer,
          worker, finished, persisted, ran, owner>>

(* "ok" is whatever the provider answered; "unknown" is the after-dispatch *)
(* failure: AfterDispatch for a read, Uncertain for a write or an import.  *)
BeforeDispatch ==
  {"reentrant", "before_acceptance", "before_dispatch", "full", "closed", "stopped"}
Answers == {"none", "ok", "unknown"} \cup BeforeDispatch

Waiting == {"look", "drowsy", "asleep", "expiring"}

Worker ==
  [pc       : {"open", "unopened", "recv", "inspect", "dispatch", "drive", "set",
               "publish", "notify", "check", "drain", "cancel", "retire", "gone"},
   at       : Calls \cup {None},
   told     : Answers,
   next     : {"recv", "check", "drain", "cancel"},
   panicked : BOOLEAN,
   unwound  : BOOLEAN,
   pending  : Seq(Calls \cup {Wake})]

Init ==
  /\ lifecycle = "running"
  /\ admission = None
  /\ queued = 0
  /\ channel = << >>
  /\ phase = [c \in Calls |-> "queued"]
  /\ result = [c \in Calls |-> "none"]
  /\ caller = [c \in Calls |-> "new"]
  /\ answer = [c \in Calls |-> "none"]
  /\ worker = [pc |-> "open", at |-> None, told |-> "none", next |-> "recv",
               panicked |-> FALSE, unwound |-> FALSE, pending |-> << >>]
  /\ finished = FALSE
  /\ persisted = FALSE
  /\ ran = {}
  /\ owner = "starting"

-----------------------------------------------------------------------------
(* start_with_parts: the starter waits until its worker says that it has   *)
(* opened the provider, or joins it and returns the error.                 *)

(* Building the runtime or opening the provider may fail, or panic. *)
Open ==
  /\ worker.pc = "open"
  /\ \E pc \in {"recv", "unopened"} :
       /\ worker' = [worker EXCEPT !.pc = pc]
       /\ owner' = IF pc = "recv" THEN "opened" ELSE "failing"
  /\ UNCHANGED <<lifecycle, admission, queued, channel, cells, caller, answer,
                 finished, persisted, ran>>

(* Nothing was admitted: the worker only says that it has finished. *)
Unopened ==
  /\ worker.pc = "unopened"
  /\ worker' = [worker EXCEPT !.pc = "gone"]
  /\ finished' = TRUE
  /\ UNCHANGED <<lifecycle, admission, queued, channel, cells, caller, answer,
                 persisted, ran, owner>>

Started ==
  /\ \/ owner = "opened" /\ owner' = "free"
     \/ owner = "failing" /\ worker.pc = "gone" /\ owner' = "dropped"
  /\ UNCHANGED <<lifecycle, admission, queued, channel, cells, caller, answer,
                 worker, finished, persisted, ran>>

-----------------------------------------------------------------------------
(* submit_request *)

Inside(c) == caller[c] \notin {"new", "done"}

(* shutdown and drop borrow the bridge exclusively. *)
Borrowed == owner \notin {"free", "timed_out", "joined"}

At(c, pc) == caller' = [caller EXCEPT ![c] = pc]

Answer(c, told) ==
  /\ At(c, "done")
  /\ answer' = [answer EXCEPT ![c] = told]

(* A call the provider makes of its own bridge would wait for itself. *)
Reenter(c) ==
  /\ caller[c] = "new" /\ ~Borrowed /\ worker.pc = "drive"
  /\ Answer(c, "reentrant")
  /\ UNCHANGED <<lifecycle, admission, queued, channel, cells, worker, finished,
                 persisted, ran, owner>>

(* The deadline has passed already. *)
TooLate(c) ==
  /\ caller[c] = "new" /\ ~Borrowed /\ c \notin Patient
  /\ Answer(c, "before_acceptance")
  /\ UNCHANGED <<lifecycle, admission, queued, channel, cells, worker, finished,
                 persisted, ran, owner>>

Admit(c) ==
  /\ caller[c] = "new" /\ ~Borrowed
  /\ admission = None
  /\ IF lifecycle = "running"
     THEN admission' = c /\ At(c, "count") /\ UNCHANGED answer
     ELSE Answer(c, "closed") /\ UNCHANGED admission
  /\ UNCHANGED <<lifecycle, queued, channel, cells, worker, finished, persisted,
                 ran, owner>>

Count(c) ==
  /\ caller[c] = "count"
  /\ queued' = queued + 1
  /\ At(c, "send")
  /\ UNCHANGED <<lifecycle, admission, channel, cells, answer, worker, finished,
                 persisted, ran, owner>>

(* The channel has room for exactly queue_capacity messages. *)
Full == Len(channel) >= QueueCapacity

Disconnected == worker.pc = "gone"

Send(c) ==
  /\ caller[c] = "send"
  /\ admission' = None
  /\ IF Full \/ Disconnected
     THEN /\ queued' = queued - 1
          /\ Answer(c, IF Disconnected THEN "closed" ELSE "full")
          /\ UNCHANGED channel
     ELSE /\ channel' = Append(channel, c)
          /\ At(c, "look")
          /\ UNCHANGED <<queued, answer>>
  /\ UNCHANGED <<lifecycle, cells, worker, finished, persisted, ran, owner>>

-----------------------------------------------------------------------------
(* wait_cell: the result lock is held from the look to the sleep, and      *)
(* while the deadline is settled.                                          *)

HoldsCell(c) == caller[c] \in {"drowsy", "expiring"}

Look(c) ==
  /\ caller[c] = "look"
  /\ IF phase[c] = "completed" THEN Answer(c, result[c])
     ELSE At(c, "drowsy") /\ UNCHANGED answer
  /\ UNCHANGED <<lifecycle, admission, queued, channel, cells, worker, finished,
                 persisted, ran, owner>>

Sleep(c) ==
  /\ caller[c] = "drowsy"
  /\ At(c, "asleep")
  /\ UNCHANGED <<lifecycle, admission, queued, channel, cells, answer, worker,
                 finished, persisted, ran, owner>>

(* A condition variable may wake a waiter for no reason. *)
Stir(c) ==
  /\ caller[c] = "asleep"
  /\ At(c, "look")
  /\ UNCHANGED <<lifecycle, admission, queued, channel, cells, answer, worker,
                 finished, persisted, ran, owner>>

TimesOut_Awake(c) == c \notin Patient /\ caller[c] = "look"

TimesOut(c) == c \notin Patient /\ caller[c] \in {"look", "asleep"}

(* The deadline passes: what was completed meanwhile is taken.             *)
TimeUp(c) ==
  /\ TimesOut(c)
  /\ At(c, IF phase[c] = "completed" THEN "look" ELSE "expiring")
  /\ UNCHANGED <<lifecycle, admission, queued, channel, cells, answer, worker,
                 finished, persisted, ran, owner>>

MayCancel_Uncompleted(c) == phase[c] # "completed"

(* The compare-exchange from Queued to Cancelled. *)
MayCancel(c) == phase[c] = "queued"

Expire(c) ==
  /\ caller[c] = "expiring"
  /\ IF MayCancel(c)
     THEN phase' = [phase EXCEPT ![c] = "cancelled"] /\ Answer(c, "before_dispatch")
     ELSE UNCHANGED phase /\ Answer(c, "unknown")
  /\ UNCHANGED <<lifecycle, admission, queued, channel, result, worker, finished,
                 persisted, ran, owner>>

-----------------------------------------------------------------------------
(* worker_main *)

Exits_Cancelling == lifecycle = "closing_cancel" /\ queued = 0

Exits == lifecycle # "running" /\ queued = 0

Work(pc) == worker' = [worker EXCEPT !.pc = pc]

Receive ==
  /\ worker.pc = "recv" /\ channel # << >>
  /\ channel' = Tail(channel)
  /\ IF Head(channel) = Wake
     THEN Work(IF Exits THEN "drain" ELSE "recv")
     ELSE worker' = [worker EXCEPT !.pc = "inspect", !.at = Head(channel)]
  /\ UNCHANGED <<lifecycle, admission, queued, cells, caller, answer, finished,
                 persisted, ran, owner>>

(* The last sender is gone. *)
Hangup ==
  /\ worker.pc = "recv" /\ channel = << >> /\ owner = "dropped"
  /\ Work("drain")
  /\ UNCHANGED <<lifecycle, admission, queued, channel, cells, caller, answer,
                 finished, persisted, ran, owner>>

(* Cell::complete: the result, the phase and the wake-up, one by one. *)
Complete(c, told, next) ==
  worker' = [worker EXCEPT !.pc = "set", !.at = c, !.told = told, !.next = next]

(* A request that will not be run leaves the count. *)
Skip == Work("recv") /\ queued' = queued - 1

Inspect ==
  /\ worker.pc = "inspect"
  /\ IF phase[worker.at] = "cancelled" THEN Skip
     ELSE IF lifecycle = "closing_cancel"
     THEN queued' = queued - 1 /\ Complete(worker.at, "closed", "recv")
     ELSE Work("dispatch") /\ UNCHANGED queued
  /\ UNCHANGED <<lifecycle, admission, channel, cells, caller, answer, finished,
                 persisted, ran, owner>>

Dispatch ==
  /\ worker.pc = "dispatch"
  /\ IF phase[worker.at] = "queued"
     THEN /\ phase' = [phase EXCEPT ![worker.at] = "dispatched"]
          /\ queued' = queued - 1
          /\ Work("drive")
     ELSE Skip /\ UNCHANGED phase
  /\ UNCHANGED <<lifecycle, admission, channel, result, caller, answer, finished,
                 persisted, ran, owner>>

(* drive_request: the provider answers or panics. *)
Drive ==
  /\ worker.pc = "drive"
  /\ ran' = ran \cup {worker.at}
  /\ \/ Complete(worker.at, "ok", "check")
     \/ /\ Panics
        /\ worker' = [worker EXCEPT !.pc = "set", !.told = "unknown", !.next = "drain",
                                    !.panicked = TRUE]
  /\ UNCHANGED <<lifecycle, admission, queued, channel, cells, caller, answer,
                 finished, persisted, owner>>

SetResult ==
  /\ worker.pc = "set" /\ ~HoldsCell(worker.at)
  /\ result' = [result EXCEPT ![worker.at] = worker.told]
  /\ Work("publish")
  /\ UNCHANGED <<lifecycle, admission, queued, channel, phase, caller, answer,
                 finished, persisted, ran, owner>>

Publish ==
  /\ worker.pc = "publish"
  /\ phase' = [phase EXCEPT ![worker.at] = "completed"]
  /\ Work("notify")
  /\ UNCHANGED <<lifecycle, admission, queued, channel, result, caller, answer,
                 finished, persisted, ran, owner>>

(* Only a caller that is already asleep hears it. *)
Notify ==
  /\ worker.pc = "notify"
  /\ IF caller[worker.at] = "asleep" THEN At(worker.at, "look") ELSE UNCHANGED caller
  /\ Work(worker.next)
  /\ UNCHANGED <<lifecycle, admission, queued, channel, cells, answer, finished,
                 persisted, ran, owner>>

Check ==
  /\ worker.pc = "check"
  /\ Work(IF Exits THEN "drain" ELSE "recv")
  /\ UNCHANGED <<lifecycle, admission, queued, channel, cells, caller, answer,
                 finished, persisted, ran, owner>>

(* The requests among the messages; the rest are wake-ups. *)
WorkIn(messages) == {messages[i] : i \in DOMAIN messages} \cap Calls

LeftOpen(panicked) == lifecycle

(* The lifecycle the worker leaves behind. *)
Left(panicked) ==
  IF panicked \/ lifecycle = "running" THEN "closing_cancel" ELSE lifecycle

(* terminal_drain: no request is admitted meanwhile or afterwards. *)
Drain ==
  /\ worker.pc = "drain"
  /\ admission = None
  /\ lifecycle' = Left(worker.panicked)
  /\ queued' = queued - Cardinality(WorkIn(channel))
  /\ channel' = << >>
  /\ worker' = [worker EXCEPT !.pc = "cancel", !.pending = channel]
  /\ UNCHANGED <<admission, cells, caller, answer, finished, persisted, ran, owner>>

(* What the channel held is taken in turn; nobody waits for a wake-up. *)
Cancel ==
  /\ worker.pc = "cancel"
  /\ IF worker.pending = << >> THEN Work("retire")
     ELSE IF Head(worker.pending) = Wake
     THEN worker' = [worker EXCEPT !.pending = Tail(@)]
     ELSE worker' = [worker EXCEPT
            !.pc = "set", !.next = "cancel",
            !.at = Head(worker.pending), !.pending = Tail(worker.pending),
            !.told = IF worker.panicked THEN "stopped" ELSE "closed"]
  /\ UNCHANGED <<lifecycle, admission, queued, channel, cells, caller, answer,
                 finished, persisted, ran, owner>>

(* Only a drain that finished every accepted request persists. *)
Persists(panicked) == ~panicked /\ lifecycle = "closing_drain"

(* The provider retires on its thread, or panics doing it: contain_worker  *)
(* then drains again and finishes.                                         *)
Retire ==
  /\ worker.pc = "retire"
  /\ persisted' = (persisted \/ (~worker.unwound /\ Persists(worker.panicked)))
  /\ \/ finished' = TRUE /\ Work("gone")
     \/ /\ Panics /\ ~worker.unwound
        /\ worker' = [worker EXCEPT !.pc = "drain", !.panicked = TRUE, !.unwound = TRUE]
        /\ UNCHANGED finished
  /\ UNCHANGED <<lifecycle, admission, queued, channel, cells, caller, answer, ran, owner>>

-----------------------------------------------------------------------------
(* The owner. *)

(* shutdown takes &mut self, and drop the bridge itself. *)
Exclusive == ~Borrowed /\ \A c \in Calls : ~Inside(c)

(* A shutdown closes admission, and may turn a drain into a cancel.  One   *)
(* of a joined bridge changes nothing: it returns the result again.        *)
Shutdown(mode) ==
  /\ owner \in {"free", "timed_out"} /\ Exclusive
  /\ lifecycle' = IF lifecycle \in {"running", "closing_drain"} THEN mode ELSE lifecycle
  /\ owner' = "signal"
  /\ UNCHANGED <<admission, queued, channel, cells, caller, answer, worker, finished,
                 persisted, ran>>

(* A wake-up that finds the channel full is dropped. *)
Signal ==
  /\ owner \in {"signal", "dropping"}
  /\ channel' = IF Full \/ Disconnected THEN channel ELSE Append(channel, Wake)
  /\ owner' = IF owner = "signal" THEN "joining" ELSE "dropped"
  /\ UNCHANGED <<lifecycle, admission, queued, cells, caller, answer, worker, finished,
                 persisted, ran>>

Joined ==
  /\ owner = "joining" /\ finished
  /\ lifecycle' = "joined"
  /\ owner' = "joined"
  /\ UNCHANGED <<admission, queued, channel, cells, caller, answer, worker, finished,
                 persisted, ran>>

(* The wait expires; the bridge keeps its thread and may be asked again.   *)
GiveUp ==
  /\ owner = "joining" /\ ~finished /\ ~PatientOwner
  /\ owner' = "timed_out"
  /\ UNCHANGED <<lifecycle, admission, queued, channel, cells, caller, answer, worker,
                 finished, persisted, ran>>

Drop ==
  /\ Exclusive
  /\ lifecycle' = IF lifecycle \in {"running", "closing_drain"} THEN "closing_cancel"
                  ELSE lifecycle
  /\ owner' = "dropping"
  /\ UNCHANGED <<admission, queued, channel, cells, caller, answer, worker, finished,
                 persisted, ran>>

-----------------------------------------------------------------------------
(* A call that has begun goes on by itself. *)
CallerStep(c) ==
  Count(c) \/ Send(c) \/ Look(c) \/ Sleep(c) \/ TimeUp(c) \/ Expire(c)

WorkerStep ==
  \/ Open \/ Unopened \/ Receive \/ Hangup \/ Inspect \/ Dispatch \/ Drive
  \/ SetResult \/ Publish \/ Notify \/ Check
  \/ Drain \/ Cancel \/ Retire

Next ==
  \/ \E c \in Calls : Reenter(c) \/ TooLate(c) \/ Admit(c) \/ Stir(c) \/ CallerStep(c)
  \/ WorkerStep
  \/ \E mode \in Modes : Shutdown(mode)
  \/ Started \/ Signal \/ Joined \/ GiveUp \/ Drop

Spec == Init /\ [][Next]_vars

(* Threads that can run do, and get a lock that is released again and      *)
(* again; the provider ends what it begins; a deadline passes, however     *)
(* often the waiter stirs before; and an owner whose shutdown timed out    *)
(* asks again.                                                             *)
Fairness ==
  /\ \A c \in Calls : WF_vars(CallerStep(c)) /\ SF_vars(TimeUp(c))
  /\ WF_vars(WorkerStep) /\ SF_vars(SetResult)
  /\ WF_vars(Started \/ Signal \/ Joined \/ GiveUp)
  /\ WF_vars(owner = "timed_out" /\ \E mode \in Modes : Shutdown(mode))

FairSpec == Spec /\ Fairness

-----------------------------------------------------------------------------
(* Properties. *)

TypeOK ==
  /\ lifecycle \in {"running", "joined"} \cup Closing
  /\ admission \in Calls \cup {None}
  /\ queued \in Nat
  /\ channel \in Seq(Calls \cup {Wake}) /\ Len(channel) <= QueueCapacity
  /\ phase \in [Calls -> {"queued", "cancelled", "dispatched", "completed"}]
  /\ result \in [Calls -> Answers]
  /\ caller \in [Calls -> {"new", "count", "send", "done"} \cup Waiting]
  /\ answer \in [Calls -> Answers]
  /\ worker \in Worker
  /\ finished \in BOOLEAN /\ persisted \in BOOLEAN
  /\ ran \subseteq Calls
  /\ owner \in {"starting", "opened", "failing", "free", "signal", "joining",
                "timed_out", "joined", "dropping", "dropped"}

(* What a caller is told of a call holds for good.  A rejection means the  *)
(* provider was not and will not be invoked for it, whoever won the race   *)
(* for the cell, so that the same request may be sent again; a result is   *)
(* of a call that ran; and a call that ran is never answered by a          *)
(* rejection.                                                              *)
AnswersAreTrue ==
  \A c \in Calls :
    /\ answer[c] \in BeforeDispatch => c \notin ran
    /\ answer[c] = "ok" => c \in ran

(* When the worker is gone, by shutdown, drop or panic, every cell someone *)
(* still waits on has been settled: no request slips in behind the last    *)
(* drain.  And the open checkpoint was only written when each request that *)
(* was accepted ran or was cancelled by its own deadline, and no provider  *)
(* call panicked.                                                          *)
NobodyStranded ==
  /\ worker.pc = "gone" =>
       \A c \in Calls : caller[c] \in Waiting => phase[c] \in {"completed", "cancelled"}
  /\ persisted =>
       \A c \in Calls : /\ result[c] \notin {"closed", "stopped", "unknown"}
                        /\ caller[c] \notin Waiting

(* Each call that has begun returns (CallWait: at its deadline, or with    *)
(* the operation's terminal result).                                       *)
CallsReturn == \A c \in Calls : Inside(c) ~> caller[c] = "done"

(* A shutdown that is waited for, or asked again whenever its wait         *)
(* expires, joins the worker, unless the bridge is dropped.                *)
ShutdownJoins == owner = "joining" ~> owner \in {"joined", "dropping", "dropped"}

-----------------------------------------------------------------------------
(* The inductive invariant behind the theorems of BridgeProofs.            *)

InChannel(c) == c \in WorkIn(channel)

IsPending(c) == c \in WorkIn(worker.pending)

(* The worker has the request and has neither run nor settled it. *)
InHand(c) == worker.at = c /\ worker.pc \in {"inspect", "dispatch"}

Completing == worker.pc \in {"set", "publish", "notify"}

Settled(c) == phase[c] \in {"completed", "cancelled"}

Outside(c) == ~InChannel(c) /\ ~IsPending(c) /\ worker.at # c

(* The provider has not been and will not be invoked for the call: its     *)
(* cell is settled, or its request never entered the channel.              *)
NeverRuns(c) == c \notin ran /\ (Settled(c) \/ Outside(c))

NoRepeats(messages) ==
  \A i, j \in DOMAIN messages :
    messages[i] \in Calls /\ messages[i] = messages[j] => i = j

(* A request is in one place, once, and comes there by being sent. *)
OnePlace ==
  /\ NoRepeats(channel) /\ NoRepeats(worker.pending)
  /\ \A c \in Calls :
       /\ ~(InChannel(c) /\ IsPending(c))
       /\ worker.at = c => ~InChannel(c) /\ ~IsPending(c)
       /\ caller[c] \in {"new", "count", "send"} =>
            Outside(c) /\ phase[c] = "queued" /\ answer[c] = "none" /\ c \notin ran

(* What the cell of a call says of it. *)
CellsAgree ==
  \A c \in Calls :
    /\ InChannel(c) \/ IsPending(c) \/ InHand(c) =>
         phase[c] \in {"queued", "cancelled"}
    /\ c \in ran => phase[c] \in {"dispatched", "completed"}
    /\ phase[c] = "dispatched" /\ c \notin ran => worker.at = c /\ worker.pc = "drive"
    /\ result[c] # "none" =>
         phase[c] = "completed" \/ (worker.at = c /\ worker.pc = "publish")
    /\ result[c] \in BeforeDispatch => c \notin ran
    /\ result[c] = "ok" => c \in ran

WorkerAgrees ==
  /\ worker.pc \in {"inspect", "dispatch", "drive"} \/ Completing => worker.at \in Calls
  /\ worker.pc = "drive" => phase[worker.at] = "dispatched" /\ worker.at \notin ran
  /\ Completing =>
       /\ worker.told \in BeforeDispatch => worker.at \notin ran
       /\ worker.told = "ok" => worker.at \in ran
       /\ worker.next = "drain" => worker.panicked
  /\ worker.pc = "notify" => phase[worker.at] = "completed"

AnswersHold ==
  \A c \in Calls :
    /\ answer[c] \in BeforeDispatch => NeverRuns(c)
    /\ answer[c] = "ok" => c \in ran

(* Shared::queued counts the requests between the counter and the cell. *)
Line == {c \in Calls : caller[c] = "send" \/ InChannel(c) \/ InHand(c)}

LineIsCounted == IsFiniteSet(Line) /\ queued = Cardinality(Line)

(* Only the holder of the admission lock enters, and only while the bridge *)
(* runs; a shutdown finds nobody inside.                                   *)
AdmissionHolds ==
  \A c \in Calls :
    /\ caller[c] \in {"count", "send"} => admission = c /\ lifecycle = "running"
    /\ lifecycle = "closing_drain" => ~Inside(c)

(* Until the provider is open, and when it could not be opened. *)
StartHolds ==
  /\ worker.pc = "open" => owner = "starting"
  /\ owner = "starting" => worker.pc = "open" /\ lifecycle = "running"
  /\ worker.pc = "unopened" => owner = "failing"
  /\ owner = "failing" => worker.pc \in {"unopened", "gone"} /\ lifecycle = "running"
  /\ owner = "dropped" /\ lifecycle = "running" => worker.pc = "gone"
  /\ owner \in {"starting", "failing"} \/ (owner = "dropped" /\ lifecycle = "running") =>
       \A c \in Calls : caller[c] = "new"
  /\ owner \in {"signal", "joining", "timed_out", "joined", "dropping"} =>
       lifecycle # "running"
  /\ owner = "dropping" => lifecycle # "closing_drain"
  /\ owner = "dropped" => lifecycle # "closing_drain"

(* The worker has drained the channel for good. *)
Drained ==
  \/ worker.pc \in {"cancel", "retire", "gone"}
  \/ Completing /\ worker.next = "cancel"
  \/ worker.pc = "drain" /\ worker.unwound

(* Nothing enters behind the last drain, and what it took is settled one   *)
(* by one.                                                                 *)
DrainHolds ==
  /\ Drained =>
       /\ WorkIn(channel) = {}
       /\ lifecycle # "running" \/ owner \in {"failing", "dropped"}
  /\ worker.pending # << >> =>
       worker.pc = "cancel" \/ (Completing /\ worker.next = "cancel")
  /\ worker.unwound => Drained
  /\ worker.pc = "drain" /\ ~worker.panicked =>
       /\ lifecycle # "running"
       /\ lifecycle = "closing_drain" => WorkIn(channel) = {}

(* Whoever waits has a settled cell, or a request that the worker will     *)
(* come to.                                                                *)
WaitersHold ==
  \A c \in Calls : caller[c] \in Waiting =>
    \/ Settled(c) \/ InChannel(c) \/ IsPending(c)
    \/ /\ worker.at = c
       /\ worker.pc \in {"inspect", "dispatch", "drive", "set", "publish"}

Unrun == {"closed", "stopped", "unknown"}

(* A drain in progress has failed nobody. *)
CheckpointHolds ==
  /\ lifecycle \in {"running", "closing_drain"} /\ ~worker.panicked =>
       /\ \A c \in Calls : result[c] \notin Unrun
       /\ Completing => worker.told \notin Unrun
       /\ WorkIn(worker.pending) = {}
  /\ persisted =>
       /\ worker.pc = "gone" \/ (worker.pc \in {"drain", "cancel", "retire"} /\ worker.unwound)
       /\ WorkIn(worker.pending) = {}
       /\ \A c \in Calls : result[c] \notin Unrun /\ ~Inside(c)

InductiveInvariant ==
  /\ TypeOK
  /\ OnePlace
  /\ CellsAgree
  /\ WorkerAgrees
  /\ AnswersHold
  /\ LineIsCounted
  /\ AdmissionHolds
  /\ StartHolds
  /\ DrainHolds
  /\ WaitersHold
  /\ CheckpointHolds

=============================================================================
