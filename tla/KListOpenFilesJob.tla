-------------------------- MODULE KListOpenFilesJob --------------------------
(***************************************************************************)
(* The job that asks lsof which processes have files of a directory open   *)
(* (klistopenfilesjob_unix.cpp).  QProcess is external: it fails to start, *)
(* or ends, or crashes, which it tells as an error and then as the end; an *)
(* error while reading may come before.  Slots of result() run at once and *)
(* may run an event loop, which delivers what QProcess has to tell.        *)
(***************************************************************************)
EXTENDS Naturals, Sequences

VARIABLES
    lsofProcess,    \* "none", "starting", "running", "crashed" or "gone"
    hasEmittedResult,
    emitting,       \* the calls inside the slots of result(), the innermost first
    jobFinished, jobError, processInfoList,
    started,
    reports         \* history: the error and the list that slots of result() saw

lsofVars == <<lsofProcess, hasEmittedResult, emitting, jobFinished, jobError,
              processInfoList, started, reports>>

LsofErrors == {"NoError", "DoesNotExist", "InternalError"}

(* KJob::emitResult() of the job. *)
JobEmitResult(then) ==
    IF jobFinished
    THEN /\ hasEmittedResult' = (hasEmittedResult \/ then = "error")
         /\ UNCHANGED <<emitting, jobFinished, reports>>
    ELSE /\ jobFinished' = TRUE
         /\ emitting' = <<then>> \o emitting
         /\ reports' = Append(reports, [error |-> jobError', list |-> processInfoList'])
         /\ UNCHANGED hasEmittedResult

(* Mutant: an error is reported although the result was emitted. *)
lsofEmitResult_Again(error) ==
    /\ jobError' = error
    /\ jobFinished' = TRUE
    /\ emitting' = <<"error">> \o emitting
    /\ reports' = Append(reports, [error |-> error, list |-> processInfoList])
    /\ UNCHANGED <<processInfoList, hasEmittedResult>>

(* emitResult(error) of the private class. *)
lsofEmitResult(error) ==
    IF hasEmittedResult
    THEN UNCHANGED <<jobError, jobFinished, emitting, reports, processInfoList, hasEmittedResult>>
    ELSE /\ jobError' = error
         /\ UNCHANGED processInfoList
         /\ JobEmitResult("error")

(* start(): no such path, no lsof, or the process. *)
start ==
    /\ ~started
    /\ started' = TRUE
    /\ \/ /\ \E error \in {"DoesNotExist", "InternalError"} : lsofEmitResult(error)
          /\ UNCHANGED lsofProcess
       \/ /\ lsofProcess' = "starting"
          /\ UNCHANGED <<hasEmittedResult, emitting, jobFinished, jobError,
                         processInfoList, reports>>

Running ==
    /\ lsofProcess = "starting"
    /\ lsofProcess' = "running"
    /\ UNCHANGED <<hasEmittedResult, emitting, jobFinished, jobError, processInfoList,
                   started, reports>>

(* lsofError(): the process fails to start, cannot be read, or has crashed. *)
lsofError ==
    /\ \/ lsofProcess = "starting" /\ lsofProcess' = "gone"
       \/ lsofProcess = "running" /\ lsofProcess' \in {"running", "crashed"}
    /\ lsofEmitResult("InternalError")
    /\ UNCHANGED started

(* lsofFinished(): the processes are listed.  QProcess tells a crash only    *)
(* when the slots of its error have returned.                              *)
lsofFinished ==
    /\ lsofProcess = "running" \/ (lsofProcess = "crashed" /\ emitting = <<>>)
    /\ lsofProcess' = "gone"
    /\ UNCHANGED <<jobError, started>>
    /\ IF hasEmittedResult
       THEN UNCHANGED <<processInfoList, jobFinished, emitting, reports, hasEmittedResult>>
       ELSE processInfoList' = "listed" /\ JobEmitResult("finished")

(* The slots of result() have run. *)
EmitReturns ==
    /\ emitting # <<>>
    /\ hasEmittedResult' = (hasEmittedResult \/ Head(emitting) = "error")
    /\ emitting' = Tail(emitting)
    /\ UNCHANGED <<lsofProcess, jobFinished, jobError, processInfoList, started, reports>>

LsofInit ==
    /\ lsofProcess = "none"
    /\ hasEmittedResult = FALSE
    /\ emitting = <<>>
    /\ jobFinished = FALSE
    /\ jobError = "NoError"
    /\ processInfoList = "empty"
    /\ started = FALSE
    /\ reports = <<>>

LsofNext == start \/ Running \/ lsofError \/ lsofFinished \/ EmitReturns

(* lsof ends, and slots return. *)
LsofFairness ==
    WF_lsofVars(Running) /\ WF_lsofVars(lsofFinished) /\ WF_lsofVars(EmitReturns)

-----------------------------------------------------------------------------
(* Properties. *)

(* A job that was started reports once, whatever order errors and the end of  *)
(* lsof come in: an error and no list, or no error and the list.           *)
LsofReports ==
    /\ []\A n \in DOMAIN reports :
            n = 1 /\ (reports[n].error = "NoError") = (reports[n].list = "listed")
    /\ started ~> reports # <<>>
=============================================================================
