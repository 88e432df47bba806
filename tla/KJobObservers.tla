----------------------------- MODULE KJobObservers -----------------------------
(***************************************************************************)
(* Who watches a job: the trackers it is registered with                   *)
(* (kjobtrackerinterface.cpp) and its UI delegate (kjobuidelegate.cpp,     *)
(* KJob::setUiDelegate()).  A connection is that of a signal of the job to *)
(* a slot of a receiver; slots are called in the order of the connections, *)
(* and one that was disconnected by a slot before it is not.               *)
(***************************************************************************)
EXTENDS Naturals, SequencesExt

CONSTANTS
    Trackers, Delegates

Signals == <<"suspended", "resumed", "description", "infoMessage", "warning", "totalAmountChanged",
             "processedAmountChanged", "percentChanged", "speed">>

NoDelegate == "none"

(* calls is a history of the slots that were called. *)
NewJob ==
    [connections |-> <<>>, uiDelegate |-> NoDelegate, attached |-> {}, autoErrorHandling |-> {},
     error |-> "NoError", calls |-> <<>>]

Connection(signal, receiver, slot) == [signal |-> signal, receiver |-> receiver, slot |-> slot]
Connect(job, connections) == [job EXCEPT !.connections = @ \o connections]
Disconnect(job, receiver) ==
    [job EXCEPT !.connections = SelectSeq(@, LAMBDA c : c.receiver # receiver)]

-----------------------------------------------------------------------------
registerJob(job, tracker) ==
    Connect(job, <<Connection("finished", tracker, "unregisterJob"), Connection("finished", tracker, "finished")>>
                 \o [i \in DOMAIN Signals |-> Connection(Signals[i], tracker, Signals[i])])

unregisterJob(job, tracker) == Disconnect(job, tracker)

showErrorMessage(job) == job.error # "KilledJobError"

(* _k_result(): what the delegate shows. *)
Result(job, delegate) ==
    IF job.error # "NoError" /\ delegate \in job.autoErrorHandling /\ showErrorMessage(job)
    THEN [job EXCEPT !.calls = Append(@, Connection("result", delegate, "showErrorMessage"))]
    ELSE job

CallSlot(job, c) ==
    IF c \notin ToSet(job.connections) THEN job
    ELSE CASE c.slot = "unregisterJob" -> unregisterJob(job, c.receiver)
           [] c.slot = "_k_result" -> Result(job, c.receiver)
           [] OTHER -> [job EXCEPT !.calls = Append(@, c)]

Emit(job, signal) ==
    FoldLeft(CallSlot, job, SelectSeq(job.connections, LAMBDA c : c.signal = signal))

(* finishJob(): everybody is told, and unless the job was killed quietly the   *)
(* result is emitted.                                                      *)
finishJob(job, error, emitResult) ==
    LET finished == Emit([job EXCEPT !.error = error], "finished")
    IN IF emitResult THEN Emit(finished, "result") ELSE finished

(* Deleting a delegate disconnects it. *)
DeleteDelegate(job) == [Disconnect(job, job.uiDelegate) EXCEPT !.uiDelegate = NoDelegate]

(* setJob(): a delegate is attached to one job, once. *)
setJob(job, delegate) == delegate \notin job.attached

connectJob(job, delegate) ==
    Connect(job, <<Connection("result", delegate, "_k_result"), Connection("warning", delegate, "slotWarning")>>)

setUiDelegate(job, delegate) ==
    IF delegate = NoDelegate THEN DeleteDelegate(job)
    ELSE IF ~setJob(job, delegate) THEN job
    ELSE connectJob([DeleteDelegate(job) EXCEPT !.uiDelegate = delegate, !.attached = @ \cup {delegate}], delegate)

setAutoErrorHandlingEnabled(job, delegate, enable) ==
    [job EXCEPT !.autoErrorHandling = IF enable THEN @ \cup {delegate} ELSE @ \ {delegate}]

-----------------------------------------------------------------------------
(* An event is a call of one of these, or a signal of the job. *)
Happens(job, e) ==
    CASE e.op = "register" -> registerJob(job, e.who)
      [] e.op = "unregister" -> unregisterJob(job, e.who)
      [] e.op = "delegate" -> setUiDelegate(job, e.who)
      [] e.op = "auto" -> setAutoErrorHandlingEnabled(job, e.who, e.enable)
      [] e.op = "emit" -> Emit(job, e.signal)
      [] e.op = "finish" -> finishJob(job, e.error, e.emitResult)

(* A tracker is told every signal of the job as often as the job is registered *)
(* with it, from then on until the job is unregistered or finished; its slot  *)
(* for the end of a job is never called, although kjobtrackerinterface.h:85  *)
(* says it is "in any case": unregisterJob() was connected to the same signal *)
(* first, and disconnects it.                                              *)
TrackersTold(events) ==
    LET job == FoldLeft(Happens, NewJob, events)
        Ends(i, tracker) ==
            \/ events[i].op = "finish"
            \/ events[i].op = "unregister" /\ events[i].who = tracker
        Registered(i, tracker) ==
            {j \in 1 .. i : /\ events[j].op = "register" /\ events[j].who = tracker
                            /\ \A k \in j .. i : ~Ends(k, tracker)}
        Expected(signal, tracker) ==
            {<<i, j>> \in (DOMAIN events) \X (DOMAIN events) :
                events[i].op = "emit" /\ events[i].signal = signal /\ j \in Registered(i, tracker)}
        Told(signal, tracker) ==
            {i \in DOMAIN job.calls : job.calls[i] = Connection(signal, tracker, signal)}
    IN \A tracker \in Trackers :
          /\ Told("finished", tracker) = {}
          /\ \A signal \in ToSet(Signals) :
                Cardinality(Told(signal, tracker)) = Cardinality(Expected(signal, tracker))

(* An error is shown once, by the delegate the job has when it ends, if that is *)
(* to handle errors; none is shown of a job that was killed or ends quietly, *)
(* and a delegate that was replaced is told nothing.                        *)
ErrorShown(events, e) ==
    LET before == FoldLeft(Happens, NewJob, events)
        after == Happens(before, e)
        shown == SubSeq(after.calls, Len(before.calls) + 1, Len(after.calls))
        handles == /\ e.error \notin {"NoError", "KilledJobError"} /\ e.emitResult
                   /\ before.uiDelegate \in before.autoErrorHandling
    IN /\ shown = IF handles THEN <<Connection("result", before.uiDelegate, "showErrorMessage")>> ELSE <<>>
       /\ \A i \in DOMAIN after.connections :
             after.connections[i].receiver \in Delegates => after.connections[i].receiver = after.uiDelegate
=============================================================================
