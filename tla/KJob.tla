-------------------------------- MODULE KJob --------------------------------
(***************************************************************************)
(* The life of one KJob (kjob.cpp): it is killed, finishes by itself, is   *)
(* run with exec() or is deleted, and tells its observers once.            *)
(*                                                                         *)
(* Everything runs in one thread, but signals call their slots at once,    *)
(* and slots and the virtual functions of a subclass may call the job      *)
(* again.  stack is the stack of calls that are under way in such a place; *)
(* its head is the innermost.  Calls enter where Slots allows them, and    *)
(* the innermost call goes on with one of the ...Returns actions.          *)
(***************************************************************************)
EXTENDS Naturals, Sequences

CONSTANT MaxDepth   \* bound on the nesting of calls

ASSUME DepthAssumption == MaxDepth \in Nat \ {0}

VARIABLES
    isFinished, isAutoDelete, error, startedWithExec,
    eventLoop,      \* d->eventLoop: "none", "running", or "quit"
    deletePosted,   \* a deferred delete is in the event queue
    alive,          \* the job has not been destroyed
    stack,          \* the calls under way
    finishedCount,  \* how often finished() was emitted
    resultCount,    \* how often result() was emitted
    killVerbosity,  \* the verbosity of the kill() that finished the job
    keep            \* the client's last word was setAutoDelete(false)

flags == <<isAutoDelete, error, startedWithExec>>
history == <<finishedCount, resultCount, killVerbosity>>
vars == <<isFinished, flags, eventLoop, deletePosted, alive, stack, history, keep>>

Verbosities == {"Quietly", "EmitResult"}

NoError == "NoError"
KilledJobError == "KilledJobError"

(* A call under way, and its argument or local variable. *)
Frame(at, arg) == [at |-> at, arg |-> arg]

Running == stack # <<>>
Push(f) == stack' = <<f>> \o stack
Become(f) == stack' = <<f>> \o Tail(stack)
Pop == stack' = Tail(stack)

InExec == \E n \in 1 .. Len(stack) : stack[n].at \in {"start", "spin", "leave"}

(* Where other code runs that may call the job: the event loop, slots, and  *)
(* the virtual functions a subclass implements.                            *)
Reentrant == alive /\ Len(stack) < MaxDepth
             /\ (Running => Head(stack).at \notin {"leave", "destroy"})

-----------------------------------------------------------------------------
(* Mutant: the event loop of exec() is not told to quit. *)
MarkFinished_NoQuit ==
    /\ isFinished' = TRUE
    /\ finishedCount' = finishedCount + 1
    /\ UNCHANGED eventLoop

(* finishJob(), up to the slots of finished(). *)
MarkFinished ==
    /\ isFinished' = TRUE
    /\ eventLoop' = IF eventLoop = "none" THEN "none" ELSE "quit"
    /\ finishedCount' = finishedCount + 1

(* Mutant: does not look whether the job has finished. *)
emitResult_Always ==
    /\ Reentrant
    /\ MarkFinished
    /\ Push(Frame("finished", TRUE))
    /\ UNCHANGED <<flags, deletePosted, alive, resultCount, killVerbosity, keep>>

(* emitResult(), called by the subclass when the work is done. *)
emitResult ==
    /\ Reentrant
    /\ ~isFinished
    /\ MarkFinished
    /\ Push(Frame("finished", TRUE))
    /\ UNCHANGED <<flags, deletePosted, alive, resultCount, killVerbosity, keep>>

(* The slots of finished() have run. *)
FinishedReturns ==
    /\ Running /\ Head(stack).at = "finished"
    /\ IF Head(stack).arg
       THEN resultCount' = resultCount + 1 /\ Become(Frame("result", TRUE))
       ELSE Become(Frame("result", FALSE)) /\ UNCHANGED resultCount
    /\ UNCHANGED <<isFinished, flags, eventLoop, deletePosted, alive,
                   finishedCount, killVerbosity, keep>>

(* The slots of result() have run, or it was not emitted: the auto-delete   *)
(* property is read now, after them.                                       *)
FinishJobReturns ==
    /\ Running /\ Head(stack).at = "result"
    /\ deletePosted' = (deletePosted \/ isAutoDelete)
    /\ Pop
    /\ UNCHANGED <<isFinished, flags, eventLoop, alive, history, keep>>

(* kill() of a job that is not finished calls doKill(). *)
kill(verbosity) ==
    /\ Reentrant
    /\ ~isFinished
    /\ Push(Frame("doKill", verbosity))
    /\ UNCHANGED <<isFinished, flags, eventLoop, deletePosted, alive, history, keep>>

(* Mutant: the test is the wrong way round. *)
Announces_Swapped(verbosity) == verbosity = "Quietly"

(* The argument kill() gives finishJob(). *)
Announces(verbosity) == verbosity # "Quietly"

(* Mutant: the verbosity is given to setError() for the error code. *)
KillSucceeds_WrongCode ==
    /\ Running /\ Head(stack).at = "doKill"
    /\ IF isFinished
       THEN Pop /\ UNCHANGED <<isFinished, flags, eventLoop, history>>
       ELSE /\ error' = Head(stack).arg
            /\ MarkFinished
            /\ killVerbosity' = Head(stack).arg
            /\ Become(Frame("finished", Announces(Head(stack).arg)))
            /\ UNCHANGED <<isAutoDelete, startedWithExec, resultCount>>
    /\ UNCHANGED <<deletePosted, alive, keep>>

(* doKill() returns true. *)
KillSucceeds ==
    /\ Running /\ Head(stack).at = "doKill"
    /\ IF isFinished
       THEN Pop /\ UNCHANGED <<isFinished, flags, eventLoop, history>>
       ELSE /\ error' = KilledJobError
            /\ MarkFinished
            /\ killVerbosity' = Head(stack).arg
            /\ Become(Frame("finished", Announces(Head(stack).arg)))
            /\ UNCHANGED <<isAutoDelete, startedWithExec, resultCount>>
    /\ UNCHANGED <<deletePosted, alive, keep>>

(* doKill() returns false: the job cannot be killed. *)
KillFails ==
    /\ Running /\ Head(stack).at = "doKill"
    /\ Pop
    /\ UNCHANGED <<isFinished, flags, eventLoop, deletePosted, alive, history, keep>>

-----------------------------------------------------------------------------
(* Mutant: auto-deletion is suspended and never resumed. *)
exec_Forgets ==
    /\ alive /\ ~Running /\ ~deletePosted
    /\ eventLoop = "none"
    /\ isAutoDelete' = FALSE
    /\ eventLoop' = "running"
    /\ Push(Frame("start", FALSE))
    /\ UNCHANGED <<isFinished, error, startedWithExec, deletePosted, alive, history, keep>>

(* exec(): autodeletion is suspended, start() is called, and a nested event *)
(* loop runs until the job finishes.  No job is executed twice at a time   *)
(* (Q_ASSERT(!d->eventLoop)).                                              *)
exec ==
    /\ alive /\ ~Running /\ ~deletePosted
    /\ eventLoop = "none"
    /\ isAutoDelete' = FALSE
    /\ eventLoop' = "running"
    /\ Push(Frame("start", isAutoDelete))
    /\ UNCHANGED <<isFinished, error, startedWithExec, deletePosted, alive, history, keep>>

(* The loop is entered, which forgets a quit() it was told before. *)
EnterLoop ==
    /\ Become(Frame("spin", Head(stack).arg))
    /\ startedWithExec' = TRUE
    /\ eventLoop' = "running"

(* Mutant: the loop is entered for a job that start() has finished, too. *)
StartReturns_AlwaysEnters ==
    /\ Running /\ Head(stack).at = "start"
    /\ EnterLoop
    /\ UNCHANGED <<isFinished, isAutoDelete, error, deletePosted, alive, history, keep>>

(* Mutant: the loop is never entered. *)
StartReturns_NeverEnters ==
    /\ Running /\ Head(stack).at = "start"
    /\ Become(Frame("leave", Head(stack).arg))
    /\ UNCHANGED <<isFinished, flags, eventLoop, deletePosted, alive, history, keep>>

StartReturns ==
    /\ Running /\ Head(stack).at = "start"
    /\ IF isFinished
       THEN Become(Frame("leave", Head(stack).arg)) /\ UNCHANGED <<startedWithExec, eventLoop>>
       ELSE EnterLoop
    /\ UNCHANGED <<isFinished, isAutoDelete, error, deletePosted, alive, history, keep>>

(* Mutant: the loop does not hear quit(). *)
ExecReturns_Deaf ==
    /\ Running /\ Head(stack).at = "leave"
    /\ eventLoop' = "none"
    /\ deletePosted' = (deletePosted \/ Head(stack).arg)
    /\ Pop
    /\ UNCHANGED <<isFinished, flags, alive, history, keep>>

(* The nested loop was not entered because the job had finished, or it has  *)
(* been told to quit.                                                      *)
ExecReturns ==
    /\ Running
    /\ \/ Head(stack).at = "leave"
       \/ Head(stack).at = "spin" /\ eventLoop = "quit"
    /\ eventLoop' = "none"
    /\ deletePosted' = (deletePosted \/ Head(stack).arg)
    /\ Pop
    /\ UNCHANGED <<isFinished, flags, alive, history, keep>>

-----------------------------------------------------------------------------
(* setAutoDelete().  Clients do not turn auto-deletion on for a job that    *)
(* has finished or that exec() runs, which would delete it under exec(),   *)
(* and do not touch a job that is about to be deleted.                     *)
setAutoDelete(on) ==
    /\ Reentrant
    /\ ~deletePosted
    /\ on => ~isFinished /\ ~InExec
    /\ isAutoDelete' = on
    /\ keep' = ~on
    /\ UNCHANGED <<isFinished, error, startedWithExec, eventLoop, deletePosted,
                   alive, stack, history>>

(* The subclass sets an error of its own, just before emitResult(). *)
setError ==
    /\ Reentrant
    /\ ~isFinished
    /\ error' = "UserDefinedError"
    /\ UNCHANGED <<isFinished, isAutoDelete, startedWithExec, eventLoop,
                   deletePosted, alive, stack, history, keep>>

(* ~KJob(): the event loop delivers the deferred delete, or the owner       *)
(* deletes a job that is at rest.  finished() is emitted if it was not.    *)
Destroy ==
    /\ alive /\ ~Running
    /\ IF isFinished
       THEN alive' = FALSE /\ UNCHANGED <<isFinished, finishedCount, stack>>
       ELSE /\ isFinished' = TRUE
            /\ finishedCount' = finishedCount + 1
            /\ Push(Frame("destroy", TRUE))
            /\ UNCHANGED alive
    /\ deletePosted' = FALSE
    /\ UNCHANGED <<flags, eventLoop, resultCount, killVerbosity, keep>>

DeferredDelete == deletePosted /\ Destroy

DeleteByOwner == ~deletePosted /\ Destroy

DestroyReturns ==
    /\ Running /\ Head(stack).at = "destroy"
    /\ alive' = FALSE
    /\ Pop
    /\ UNCHANGED <<isFinished, flags, eventLoop, deletePosted, history, keep>>

-----------------------------------------------------------------------------
Init ==
    /\ isFinished = FALSE
    /\ isAutoDelete = TRUE
    /\ error = NoError
    /\ startedWithExec = FALSE
    /\ eventLoop = "none"
    /\ deletePosted = FALSE
    /\ alive = TRUE
    /\ stack = <<>>
    /\ finishedCount = 0
    /\ resultCount = 0
    /\ killVerbosity = "none"
    /\ keep = FALSE

(* What goes on by itself: the innermost call, and the event loop. *)
Continue ==
    \/ FinishedReturns \/ FinishJobReturns
    \/ KillSucceeds \/ KillFails
    \/ StartReturns \/ ExecReturns
    \/ DeferredDelete \/ DestroyReturns

Call ==
    \/ emitResult
    \/ \E v \in Verbosities : kill(v)
    \/ exec
    \/ \E on \in BOOLEAN : setAutoDelete(on)
    \/ setError
    \/ DeleteByOwner

Next == Continue \/ Call

(* A job that is gone, or at rest for ever. *)
Rest == ~alive /\ UNCHANGED vars

(* Slots and virtual functions return, and the event loop delivers. *)
Spec == Init /\ [][Next \/ Rest]_vars /\ WF_vars(Continue)

-----------------------------------------------------------------------------
(* Properties. *)

FrameKinds ==
    [at : {"finished", "result", "start", "spin", "leave", "destroy"}, arg : BOOLEAN]
        \cup [at : {"doKill"}, arg : Verbosities]

TypeOK ==
    /\ isFinished \in BOOLEAN /\ isAutoDelete \in BOOLEAN
    /\ error \in {NoError, KilledJobError, "UserDefinedError"}
    /\ startedWithExec \in BOOLEAN
    /\ eventLoop \in {"none", "running", "quit"}
    /\ deletePosted \in BOOLEAN /\ alive \in BOOLEAN /\ keep \in BOOLEAN
    /\ stack \in Seq(FrameKinds)
    /\ finishedCount \in Nat /\ resultCount \in Nat
    /\ killVerbosity \in Verbosities \cup {"none"}

(* finished() is emitted when isFinished is set and exactly once, result()   *)
(* at most once and never without it, whatever slots and doKill() call      *)
(* meanwhile (kjob.h:452, 488), and no job goes without having emitted      *)
(* finished().                                                             *)
SignalsOnce ==
    /\ finishedCount = IF isFinished THEN 1 ELSE 0
    /\ resultCount <= finishedCount
    /\ ~alive => finishedCount = 1

(* A job that a quiet kill() finished never emits result() (kjob.h:224).     *)
QuietKillIsQuiet == killVerbosity = "Quietly" => resultCount = 0

(* exec() never sleeps through the end of its job: when the job has finished *)
(* its nested loop has been told to quit or is not entered at all.         *)
NoLostQuit ==
    \A n \in 1 .. Len(stack) :
        stack[n].at = "spin" /\ isFinished => eventLoop = "quit"

(* exec() returns only when the job has finished, and then it does. *)
ExecWaits == [][eventLoop # "none" /\ eventLoop' = "none" => isFinished]_vars
ExecEnds == InExec /\ isFinished ~> ~InExec

(* A finished job that its client has not asked to keep is destroyed. *)
FinishedIsDeleted == isFinished ~> (~alive \/ keep)

(* exec() returns when the job has finished, not earlier and not never, and  *)
(* the finished job is deleted afterwards.                                 *)
ExecSound == []NoLostQuit /\ ExecWaits /\ ExecEnds /\ FinishedIsDeleted
=============================================================================
