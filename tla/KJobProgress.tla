---------------------------- MODULE KJobProgress ----------------------------
(***************************************************************************)
(* What a KJob tells of its progress (kjob.cpp): amounts in several units  *)
(* and the percentage that follows one of them, the speed and its timer,   *)
(* and the time the job has run without the times it was suspended.        *)
(*                                                                         *)
(* Signals call their slots at once, and a slot may call the job again.    *)
(* stack holds the calls that are inside such a signal, the innermost      *)
(* first.  Suspending and resuming the work itself always succeeds.        *)
(***************************************************************************)
EXTENDS Naturals, Sequences

CONSTANTS
    Units,      \* KJob::Unit
    Amounts,    \* the amounts a subclass reports
    FirstUnit,  \* KJob::Bytes
    MaxDepth,   \* bound on the nesting of signals
    MaxCalls,   \* bound on the calls of the job
    MaxTime     \* bound on the clock

ASSUME ProgressAssumption ==
    /\ FirstUnit \in Units /\ Amounts \subseteq Nat
    /\ MaxDepth \in Nat /\ MaxCalls \in Nat /\ MaxTime \in Nat

VARIABLES
    jobAmounts,         \* m_jobAmounts
    progressUnit,
    percentage,
    stack,
    told,               \* history: the amounts observers were told last
    overtaken,          \* history: the amounts last reported inside a signal of theirs
    speed, speedTimer,  \* the speed last told to observers; the timer runs
    suspended,
    elapsedTimer,       \* its start, or NoTimer
    accumulatedElapsedTime,
    now, calls,
    manual,             \* history: the percentage was set by hand, or for another unit
    reentered,          \* history: a slot of speed(0) reported a speed
    active,             \* history: the time the job has run since its timer was started
    measured, stalled   \* history: the timer was started; resume() did not restart it

amountVars == <<jobAmounts, progressUnit, percentage, manual>>
toldVars == <<told, overtaken>>
speedVars == <<speed, speedTimer, reentered>>
timeVars == <<suspended, elapsedTimer, accumulatedElapsedTime, now, active, measured, stalled>>
progressVars == <<amountVars, toldVars, stack, speedVars, timeVars, calls>>

NoTimer == MaxTime + 1

Push(f) == stack' = <<f>> \o stack
Become(f) == stack' = <<f>> \o Tail(stack)
Pop == stack' = Tail(stack)
Top(at) == stack # <<>> /\ Head(stack).at = at
Frame(at, unit, which, amount) == [at |-> at, unit |-> unit, which |-> which, amount |-> amount]
(* A call that tells of no amount. *)
Plain(at) == Frame(at, FirstUnit, "processed", 0)

(* The signals of an amount that are still to return. *)
Tells(f, unit, which) == f.at \in {"changed", "size"} /\ f.unit = unit /\ f.which = which

(* The job, its observers or the event loop call the job. *)
Call ==
    /\ calls < MaxCalls /\ calls' = calls + 1
    /\ Len(stack) < MaxDepth

-----------------------------------------------------------------------------
(* setProcessedAmount() and setTotalAmount(), which = "processed" or "total", *)
(* up to the slots of processedAmountChanged() or totalAmountChanged().    *)
setAmount(which, unit, amount) ==
    /\ Call
    /\ jobAmounts[unit][which] # amount
    /\ jobAmounts' = [jobAmounts EXCEPT ![unit][which] = amount]
    /\ Push(Frame("changed", unit, which, amount))
    /\ overtaken' = IF \E n \in DOMAIN stack : Tells(stack[n], unit, which)
                    THEN overtaken \cup {<<unit, which>>}
                    ELSE overtaken \ {<<unit, which>>}
    /\ UNCHANGED <<progressUnit, percentage, manual, told, speedVars, timeVars>>

(* The last slot was told the amount that the call was made with, whatever   *)
(* an earlier slot has set it to since.                                    *)
Told == told' = [told EXCEPT ![Head(stack).unit][Head(stack).which] = Head(stack).amount]

(* Then processedSize() or totalSize(), if this is the unit of progress. *)
ChangedReturns ==
    /\ Top("changed")
    /\ Told
    /\ IF Head(stack).unit = progressUnit
       THEN Become([Head(stack) EXCEPT !.at = "size"])
       ELSE Pop
    /\ UNCHANGED overtaken
    /\ UNCHANGED <<amountVars, speedVars, timeVars, calls>>

(* setPercent(): observers are told of a change. *)
setPercent(percent) ==
    /\ percentage' = percent
    /\ IF percent # percentage THEN Become(Plain("percent")) ELSE Pop

(* The percentage of an amount, without its fraction. *)
Percent(a) == (100 * a.processed) \div a.total

(* Mutant: nothing is told until something was processed. *)
emitPercent_NotZero(unit) ==
    IF jobAmounts[unit].total # 0 /\ jobAmounts[unit].processed # 0
    THEN setPercent(Percent(jobAmounts[unit]))
    ELSE Pop /\ UNCHANGED percentage

(* emitPercent(), with the amounts as slots have left them. *)
emitPercent(unit) ==
    IF jobAmounts[unit].total # 0
    THEN setPercent(Percent(jobAmounts[unit]))
    ELSE Pop /\ UNCHANGED percentage

(* The slots of processedSize() may have chosen another unit. *)
SizeReturns ==
    /\ Top("size")
    /\ Told
    /\ emitPercent(Head(stack).unit)
    /\ manual' = IF jobAmounts[Head(stack).unit].total # 0
                 THEN Head(stack).unit # progressUnit ELSE manual
    /\ UNCHANGED <<jobAmounts, progressUnit, overtaken, speedVars, timeVars, calls>>

PercentReturns ==
    /\ Top("percent")
    /\ Pop
    /\ UNCHANGED <<amountVars, toldVars, speedVars, timeVars, calls>>

setProgressUnit(unit) ==
    /\ Call
    /\ progressUnit' = unit
    /\ manual' = TRUE
    /\ UNCHANGED <<jobAmounts, percentage, stack, toldVars, speedVars, timeVars>>

(* setPercent() called by the subclass. *)
SetPercent(percent) ==
    /\ Call
    /\ percent # percentage
    /\ percentage' = percent
    /\ manual' = TRUE
    /\ Push(Plain("percent"))
    /\ UNCHANGED <<jobAmounts, progressUnit, toldVars, speedVars, timeVars>>

-----------------------------------------------------------------------------
(* emitSpeed(), up to the slots of speed(). *)
emitSpeed ==
    /\ Call
    /\ speed' = 1
    /\ reentered' = (reentered \/ \E n \in DOMAIN stack : stack[n].at = "timeout")
    /\ Push(Plain("speed"))
    /\ UNCHANGED <<amountVars, toldVars, speedTimer, timeVars>>

(* Mutant: the timer is not started. *)
SpeedReturns_NoTimer ==
    /\ Top("speed")
    /\ UNCHANGED speedTimer
    /\ Pop
    /\ UNCHANGED <<amountVars, toldVars, speed, reentered, timeVars, calls>>

(* The timer is started, again if it runs. *)
SpeedReturns ==
    /\ Top("speed")
    /\ speedTimer' = TRUE
    /\ Pop
    /\ UNCHANGED <<amountVars, toldVars, speed, reentered, timeVars, calls>>

(* speedTimeout(): no speed any more; the timer repeats until it is stopped *)
(* after the slots have run.                                               *)
speedTimeout ==
    /\ speedTimer /\ Len(stack) < MaxDepth
    /\ speed' = 0
    /\ Push(Plain("timeout"))
    /\ UNCHANGED <<amountVars, toldVars, speedTimer, reentered, timeVars, calls>>

TimeoutReturns ==
    /\ Top("timeout")
    /\ speedTimer' = FALSE
    /\ Pop
    /\ UNCHANGED <<amountVars, toldVars, speed, reentered, timeVars, calls>>

-----------------------------------------------------------------------------
Elapsed == IF elapsedTimer = NoTimer THEN 0 ELSE now - elapsedTimer

elapsedTime == accumulatedElapsedTime + Elapsed

(* start() of the subclass measures from now on; the job is not suspended. *)
startElapsedTimer ==
    /\ Call
    /\ ~suspended
    /\ elapsedTimer' = now
    /\ accumulatedElapsedTime' = 0
    /\ active' = 0 /\ measured' = TRUE /\ stalled' = FALSE
    /\ UNCHANGED <<amountVars, toldVars, speedVars, stack, suspended, now>>

(* Mutant: the time until now is forgotten. *)
suspend_Forgets ==
    /\ Call
    /\ ~suspended
    /\ suspended' = TRUE
    /\ accumulatedElapsedTime' = Elapsed
    /\ elapsedTimer' = NoTimer
    /\ UNCHANGED <<amountVars, toldVars, speedVars, stack, now, active, measured, stalled>>

(* suspend(), with doSuspend() returning true. *)
suspend ==
    /\ Call
    /\ ~suspended
    /\ suspended' = TRUE
    /\ accumulatedElapsedTime' = elapsedTime
    /\ elapsedTimer' = NoTimer
    /\ UNCHANGED <<amountVars, toldVars, speedVars, stack, now, active, measured, stalled>>

(* resume(), with doResume() returning true: the timer is not started again  *)
(* when nothing was accumulated.                                           *)
resume ==
    /\ Call
    /\ suspended
    /\ suspended' = FALSE
    /\ elapsedTimer' = IF accumulatedElapsedTime > 0 THEN now ELSE elapsedTimer
    /\ stalled' = (stalled \/ (measured /\ accumulatedElapsedTime = 0))
    /\ UNCHANGED <<amountVars, toldVars, speedVars, stack, accumulatedElapsedTime, now, active, measured>>

(* A millisecond passes; how many did before the timer was first started is   *)
(* of no matter.                                                           *)
Tick ==
    /\ now < MaxTime /\ measured
    /\ now' = now + 1
    /\ active' = IF ~suspended THEN active + 1 ELSE active
    /\ UNCHANGED <<amountVars, toldVars, speedVars, stack, suspended, elapsedTimer,
                   accumulatedElapsedTime, measured, stalled, calls>>

-----------------------------------------------------------------------------
ProgressInit ==
    /\ jobAmounts = [u \in Units |-> [processed |-> 0, total |-> 0]]
    /\ progressUnit = FirstUnit
    /\ percentage = 0
    /\ stack = <<>>
    /\ told = [u \in Units |-> [processed |-> 0, total |-> 0]] /\ overtaken = {}
    /\ speed = 0 /\ speedTimer = FALSE
    /\ suspended = FALSE
    /\ elapsedTimer = NoTimer /\ accumulatedElapsedTime = 0
    /\ now = 0 /\ calls = 0
    /\ manual = FALSE /\ reentered = FALSE
    /\ active = 0 /\ measured = FALSE /\ stalled = FALSE

ProgressNext ==
    \/ \E u \in Units, a \in Amounts : setAmount("processed", u, a) \/ setAmount("total", u, a)
    \/ ChangedReturns \/ SizeReturns \/ PercentReturns
    \/ \E u \in Units : setProgressUnit(u)
    \/ SetPercent(50)
    \/ emitSpeed \/ SpeedReturns \/ speedTimeout \/ TimeoutReturns
    \/ startElapsedTimer \/ suspend \/ resume \/ Tick

-----------------------------------------------------------------------------
(* Properties. *)

(* Whatever order amounts are reported in, and whatever slots report in the   *)
(* middle of that, in the end the percentage is that of the amounts of the  *)
(* progress unit, unless it was set by hand or the unit was changed since.  *)
PercentFollows ==
    stack = <<>> /\ ~manual /\ jobAmounts[progressUnit].total # 0 =>
        percentage = Percent(jobAmounts[progressUnit])

(* In the end observers have last been told the amount the job has, except   *)
(* one that was last reported inside a signal of that amount: the outer call *)
(* goes on with its own, older amount (kjob.cpp:307-309, 331-333), and the   *)
(* last thing told is then out of date.                                    *)
AmountsTold ==
    stack = <<>> =>
        \A u \in Units, which \in {"processed", "total"} :
            told[u][which] = jobAmounts[u][which] \/ <<u, which>> \in overtaken

(* While observers show a speed its timer runs, or is about to be started.   *)
(* The exception is a job of which a slot of speed(0) has reported a speed:  *)
(* speedTimeout() then stops the timer which that report started, and the    *)
(* speed is shown for good, against kjob.h:753 ("starts the timer for        *)
(* removing that info").                                                   *)
SpeedExpires ==
    speed # 0 => speedTimer \/ reentered \/ \E n \in DOMAIN stack : stack[n].at = "speed"

(* The elapsed time is the time the job has run, without the times it was     *)
(* suspended.  The exception is a job that was suspended in the millisecond  *)
(* in which its timer was started: resume() does not start the timer again,  *)
(* and what it runs afterwards is not counted, against kjob.h:440.         *)
ElapsedExact == ~stalled => elapsedTime = active

(* What observers of a job are told of its progress is what it has done, with *)
(* the three exceptions above: an amount reported again inside its own signal, *)
(* a speed reported inside speed(0), and a timer that stood when the job was *)
(* suspended.                                                              *)
ProgressTold == PercentFollows /\ AmountsTold /\ SpeedExpires /\ ElapsedExact
=============================================================================
