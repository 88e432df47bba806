---------------------------- MODULE KCompositeJob ----------------------------
(***************************************************************************)
(* A composite job and its subjobs (kcompositejob.cpp), with a subclass    *)
(* like that of autotests/kcompositejobtest.cpp: it runs its subjobs one   *)
(* after the other, and finishes with the first error or with the last    *)
(* subjob.  (That of the test copies the error of the last subjob, too,    *)
(* which replaces the first one when slots of the composite's finished()   *)
(* kill another subjob; here the error is left to KCompositeJob.)          *)
(*                                                                         *)
(* Subjobs report by the signal result(), whose slots run at once.  stack  *)
(* holds the calls in the middle of such a signal, the innermost first;    *)
(* slots of clients run there and may add, remove, kill or start subjobs.  *)
(* Of the composite and its subjobs only the KJob state that matters here  *)
(* is kept; module KJob has the rest.                                      *)
(***************************************************************************)
EXTENDS Naturals, Sequences, SequencesExt

CONSTANTS
    Jobs,       \* the subjobs there may be
    MaxDepth    \* bound on the nesting of signals

ASSUME CompositeAssumption == MaxDepth \in Nat

VARIABLES
    subjobs,    \* d->subjobs
    job,        \* the state of each subjob
    self,       \* the state of the composite
    stack,      \* signals being delivered
    firstError, \* history: the error of the first subjob to report one
    reported,   \* history: the error seen by the slots of the composite's result()
    results,    \* history: how often the composite emitted result()
    abandoned   \* history: subjobs that were lost to the composite: killed
                \* quietly, deleted, removed while they ran, or added when finished

history == <<firstError, reported, results, abandoned>>
vars == <<subjobs, job, self, stack, history>>

NoError == "NoError"
Errors == {NoError, "KilledJobError", "UserDefinedError"}

(* parent: is it a child of the composite?  connected: are its signals       *)
(* connected to the composite's slots?                                     *)
FreshJob == [alive |-> TRUE, started |-> FALSE, finished |-> FALSE, error |-> NoError,
             parent |-> FALSE, connected |-> FALSE, deletePosted |-> FALSE]

FreshSelf == [alive |-> TRUE, started |-> FALSE, finished |-> FALSE, error |-> NoError,
              deletePosted |-> FALSE]

Frame(at, j) == [at |-> at, job |-> j]
Self == "self"

Push(f) == stack' = <<f>> \o stack
Become(f) == stack' = <<f>> \o Tail(stack)
Pop == stack' = Tail(stack)
Top(at) == stack # <<>> /\ Head(stack).at = at

OnStack(j) == \E n \in DOMAIN stack : stack[n].job = j

(* Where code of clients runs: the event loop and slots. *)
Reentrant == self.alive /\ Len(stack) < MaxDepth
             /\ (stack # <<>> => Head(stack).at \in {"finished", "selfFinished", "selfResult", "deleted"})

-----------------------------------------------------------------------------
(* Mutant: the job is not taken from its former parent. *)
addSubjob_KeepsParent(j) ==
    /\ ~Contains(subjobs, j)
    /\ subjobs' = Append(subjobs, j)
    /\ job' = [job EXCEPT ![j].connected = TRUE]

(* addSubjob(): the job becomes a child, once. *)
addSubjob(j) ==
    /\ ~Contains(subjobs, j)
    /\ subjobs' = Append(subjobs, j)
    /\ job' = [job EXCEPT ![j].parent = TRUE, ![j].connected = TRUE]

Released(js) ==
    [k \in Jobs |-> IF k \in js THEN [job[k] EXCEPT !.parent = FALSE, !.connected = FALSE]
                    ELSE job[k]]

(* Mutant: the list keeps the job. *)
removeSubjob_KeepsEntry(j) ==
    /\ job' = IF Contains(subjobs, j) THEN Released({j}) ELSE job
    /\ UNCHANGED subjobs

(* The list without job j, which is on it once: addSubjob() sees to that. *)
RemovedFrom(list, j) == RemoveAt(list, CHOOSE n \in DOMAIN list : list[n] = j)

(* removeSubjob(): changes nothing for a job that is not on the list. *)
removeSubjob(j) ==
    IF Contains(subjobs, j)
    THEN job' = Released({j}) /\ subjobs' = RemovedFrom(subjobs, j)
    ELSE UNCHANGED <<job, subjobs>>

(* A client adds a subjob, before the result is emitted (kcompositejob.h:42). *)
AddSubjob(j) ==
    /\ Reentrant
    /\ ~self.finished /\ job[j].alive
    /\ addSubjob(j)
    /\ abandoned' = IF job[j].finished THEN abandoned \cup {j} ELSE abandoned \ {j}
    /\ UNCHANGED <<self, stack, firstError, reported, results>>

(* A client that removes a subjob; it does not do so with a dead one. *)
RemoveSubjob(j) ==
    /\ Reentrant
    /\ Contains(subjobs, j) /\ job[j].alive
    /\ removeSubjob(j)
    /\ abandoned' = abandoned \cup {k \in {j} : job[k].started}
    /\ UNCHANGED <<self, stack, firstError, reported, results>>

clearSubjobs ==
    /\ Reentrant
    /\ subjobs # <<>>
    /\ \A j \in ToSet(subjobs) : job[j].alive
    /\ job' = Released(ToSet(subjobs))
    /\ abandoned' = abandoned \cup {k \in ToSet(subjobs) : job[k].started}
    /\ subjobs' = <<>>
    /\ UNCHANGED <<self, stack, firstError, reported, results>>

-----------------------------------------------------------------------------
(* Signals of a subjob. *)

(* KJob::finishJob() of a subjob, up to the slots of finished(). *)
FinishJob(j, error, announces) ==
    /\ ~job[j].finished
    /\ job' = [job EXCEPT ![j].finished = TRUE, ![j].error = error]
    /\ Push(Frame(IF announces THEN "finished" ELSE "quiet", j))

(* The job ends by itself, with or without an error. *)
JobEnds(j) ==
    /\ Reentrant
    /\ job[j].alive /\ job[j].started
    /\ \E error \in {NoError, "UserDefinedError"} : FinishJob(j, error, TRUE)
    /\ UNCHANGED <<subjobs, self, history>>

(* Mutant: the verbosity is given to setError() for the error code. *)
KillSubjob_WrongCode(j, quietly) ==
    /\ Reentrant
    /\ job[j].alive
    /\ FinishJob(j, IF quietly THEN "Quietly" ELSE "EmitResult", ~quietly)
    /\ abandoned' = IF quietly THEN abandoned \cup {j} ELSE abandoned
    /\ UNCHANGED <<subjobs, self, firstError, reported, results>>

(* KJob::kill() of a subjob whose doKill() succeeds. *)
KillSubjob(j, quietly) ==
    /\ Reentrant
    /\ job[j].alive
    /\ FinishJob(j, "KilledJobError", ~quietly)
    /\ abandoned' = IF quietly THEN abandoned \cup {j} ELSE abandoned
    /\ UNCHANGED <<subjobs, self, firstError, reported, results>>

(* finished() was emitted and result() follows: its slots include           *)
(* slotResult() if the job is still connected.                             *)
FinishedReturns ==
    /\ Top("finished")
    /\ Become(Frame(IF job[Head(stack).job].connected THEN "slotResult" ELSE "deleted",
                    Head(stack).job))
    /\ UNCHANGED <<subjobs, job, self, history>>

QuietReturns ==
    /\ Top("quiet")
    /\ Become(Frame("deleted", Head(stack).job))
    /\ UNCHANGED <<subjobs, job, self, history>>

(* The other slots of result(), and deleteLater(). *)
ResultReturns ==
    /\ Top("deleted")
    /\ job' = [job EXCEPT ![Head(stack).job].deletePosted = TRUE]
    /\ Pop
    /\ UNCHANGED <<subjobs, self, history>>

-----------------------------------------------------------------------------
(* The composite's slot. *)

(* setError() and emitResult() of the composite, and what goes on after it. *)
EmitResult(error, next) ==
    IF self.finished
    THEN Become(next) /\ self' = [self EXCEPT !.error = error]
    ELSE /\ self' = [self EXCEPT !.error = error, !.finished = TRUE]
         /\ stack' = <<Frame("selfFinished", Self), next>> \o Tail(stack)

(* Mutant: the error replaces an earlier one. *)
slotResult_LastError ==
    /\ Top("slotResult")
    /\ LET j == Head(stack).job IN
       /\ IF job[j].error # NoError
          THEN EmitResult(job[j].error, Frame("removeSubjob", j))
          ELSE Become(Frame("removeSubjob", j)) /\ UNCHANGED self
       /\ firstError' = IF firstError = NoError THEN job[j].error ELSE firstError
    /\ UNCHANGED <<subjobs, job, reported, results, abandoned>>

(* slotResult(), up to the removal: the first error ends the composite. *)
slotResult ==
    /\ Top("slotResult")
    /\ LET j == Head(stack).job IN
       /\ IF job[j].error # NoError /\ self.error = NoError
          THEN EmitResult(job[j].error, Frame("removeSubjob", j))
          ELSE Become(Frame("removeSubjob", j)) /\ UNCHANGED self
       /\ firstError' = IF firstError = NoError THEN job[j].error ELSE firstError
    /\ UNCHANGED <<subjobs, job, reported, results, abandoned>>

(* The end of slotResult(). *)
SlotRemoves ==
    /\ Top("removeSubjob")
    /\ removeSubjob(Head(stack).job)
    /\ Become(Frame("next", Head(stack).job))
    /\ UNCHANGED <<self, history>>

(* start() of the first subjob on the list. *)
StartFirst == job' = [job EXCEPT ![Head(subjobs)].started = TRUE]

(* Mutant: the next subjob is not started. *)
StartNext_Forgets ==
    /\ Top("next")
    /\ LET j == Head(stack).job IN
       IF self.error = NoError /\ subjobs # <<>>
       THEN Become(Frame("deleted", j)) /\ UNCHANGED <<job, self>>
       ELSE EmitResult(self.error, Frame("deleted", j)) /\ UNCHANGED job
    /\ UNCHANGED <<subjobs, history>>

(* slotResult() of the subclass goes on: the next subjob, or the end.  It    *)
(* uses the pointer on the list, dead or not.                              *)
StartNext ==
    /\ Top("next")
    /\ LET j == Head(stack).job IN
       IF self.error = NoError /\ subjobs # <<>>
       THEN StartFirst /\ Become(Frame("deleted", j)) /\ UNCHANGED self
       ELSE EmitResult(self.error, Frame("deleted", j)) /\ UNCHANGED job
    /\ UNCHANGED <<subjobs, history>>

SelfFinishedReturns ==
    /\ Top("selfFinished")
    /\ results' = results + 1
    /\ reported' = self.error
    /\ Become(Frame("selfResult", Self))
    /\ UNCHANGED <<subjobs, job, self, firstError, abandoned>>

SelfResultReturns ==
    /\ Top("selfResult")
    /\ self' = [self EXCEPT !.deletePosted = TRUE]
    /\ Pop
    /\ UNCHANGED <<subjobs, job, history>>

(* start() of the subclass: without subjobs, it ends at once. *)
Start ==
    /\ self.alive /\ stack = <<>> /\ ~self.started
    /\ self' = [self EXCEPT !.started = TRUE, !.finished = (@ \/ subjobs = <<>>)]
    /\ IF subjobs # <<>> THEN StartFirst ELSE UNCHANGED job
    /\ IF self'.finished # self.finished THEN Push(Frame("selfFinished", Self))
                                         ELSE UNCHANGED stack
    /\ UNCHANGED <<subjobs, history>>

-----------------------------------------------------------------------------
(* Clients start a subjob themselves, and delete one that is at rest: its    *)
(* destructor emits finished(), and never result().                        *)
StartSubjob(j) ==
    /\ Reentrant
    /\ job[j].alive /\ ~job[j].started
    /\ job' = [job EXCEPT ![j].started = TRUE]
    /\ UNCHANGED <<subjobs, self, stack, history>>

Destroyed(js) ==
    [k \in Jobs |-> IF k \in js
                    THEN [job[k] EXCEPT !.alive = FALSE, !.finished = TRUE, !.connected = FALSE]
                    ELSE job[k]]

DeleteSubjob(j) ==
    /\ Reentrant
    /\ job[j].alive /\ ~OnStack(j)
    /\ job' = Destroyed({j})
    /\ abandoned' = abandoned \cup {j}
    /\ UNCHANGED <<subjobs, self, stack, firstError, reported, results>>

(* The event loop delivers deleteLater(). *)
DeferredDelete(j) ==
    /\ stack = <<>>
    /\ job[j].alive /\ job[j].deletePosted
    /\ job' = Destroyed({j})
    /\ UNCHANGED <<subjobs, self, stack, history>>

(* The composite is deleted, by its owner or the event loop, and its        *)
(* children with it (testDeletionDuringExecution).                         *)
Destroy ==
    /\ stack = <<>>
    /\ self.alive
    /\ self' = [self EXCEPT !.alive = FALSE, !.finished = TRUE]
    /\ job' = Destroyed({j \in Jobs : job[j].parent})
    /\ UNCHANGED <<subjobs, stack, history>>

-----------------------------------------------------------------------------
Init ==
    /\ subjobs = <<>>
    /\ job = [j \in Jobs |-> FreshJob]
    /\ self = FreshSelf
    /\ stack = <<>>
    /\ firstError = NoError
    /\ reported = NoError
    /\ results = 0
    /\ abandoned = {}

(* The signal under way goes on. *)
Continue ==
    \/ FinishedReturns \/ QuietReturns \/ ResultReturns
    \/ slotResult \/ SlotRemoves \/ StartNext
    \/ SelfFinishedReturns \/ SelfResultReturns

Client ==
    \/ Start \/ clearSubjobs \/ Destroy
    \/ \E j \in Jobs :
        \/ AddSubjob(j) \/ RemoveSubjob(j) \/ StartSubjob(j) \/ DeleteSubjob(j)
        \/ \E quietly \in BOOLEAN : KillSubjob(j, quietly)

Next ==
    \/ Continue
    \/ Client
    \/ \E j \in Jobs : JobEnds(j) \/ DeferredDelete(j)

(* Slots return, and a job that was started ends. *)
Spec ==
    /\ Init /\ [][Next]_vars
    /\ WF_vars(Continue)
    /\ \A j \in Jobs : WF_vars(JobEnds(j))

-----------------------------------------------------------------------------
(* Properties. *)

Frames ==
    [at : {"finished", "quiet", "slotResult", "removeSubjob", "next", "deleted"}, job : Jobs]
        \cup [at : {"selfFinished", "selfResult"}, job : {Self}]

TypeOK ==
    /\ subjobs \in Seq(Jobs)
    /\ job \in [Jobs -> [alive : BOOLEAN, started : BOOLEAN, finished : BOOLEAN,
                         error : Errors, parent : BOOLEAN, connected : BOOLEAN,
                         deletePosted : BOOLEAN]]
    /\ self \in [alive : BOOLEAN, started : BOOLEAN, finished : BOOLEAN,
                 error : Errors, deletePosted : BOOLEAN]
    /\ stack \in Seq(Frames)
    /\ firstError \in Errors /\ reported \in Errors
    /\ results \in Nat /\ abandoned \subseteq Jobs

(* No subjob is on the list twice.  It stays there no longer than it can     *)
(* still report: an entry that is finished is reporting right now, unless   *)
(* it was lost by a quiet kill or a deletion; and only entries that can     *)
(* report are listened to (slotResult() removes them "in all cases",        *)
(* kcompositejob.h:83).                                                    *)
ListSound ==
    /\ \A m, n \in DOMAIN subjobs : subjobs[m] = subjobs[n] => m = n
    /\ self.alive =>
        /\ \A j \in ToSet(subjobs) :
              job[j].finished => OnStack(j) \/ j \in abandoned
        /\ \A j \in Jobs : job[j].connected => Contains(subjobs, j)

(* The composite owns the jobs on its list: none outlives it, wherever it    *)
(* was deleted from (kcompositejob.h:45).                                  *)
DiesWithComposite == ~self.alive => \A j \in ToSet(subjobs) : ~job[j].alive

(* The composite reports once, and what it reports is the first error that a *)
(* subjob reported, also when its slots kill the subjobs that are left.     *)
ReportsFirstError ==
    /\ results <= 1
    /\ results = 1 => reported = firstError

(* A composite that was started ends, unless a subjob was lost to it. *)
CompositeEnds == self.started ~> (self.finished \/ abandoned # {})

(* The list holds the subjobs that can report and no others, and they die     *)
(* with their composite.                                                   *)
SubjobsSound == TypeOK /\ ListSound /\ DiesWithComposite
=============================================================================
