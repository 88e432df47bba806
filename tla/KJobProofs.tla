----------------------------- MODULE KJobProofs -----------------------------
(***************************************************************************)
(* Proofs about KJob, for any depth of nested calls: finished() is emitted *)
(* once, result() at most once and never for a job that was killed         *)
(* quietly, whatever slots and subclasses call meanwhile.                  *)
(***************************************************************************)
EXTENDS KJob, TLAPS

(* A frame that has emitted finished() and not yet decided on result(), or   *)
(* that destroys the job, belongs to a finished job; the former knows that  *)
(* result() was not emitted, and does not emit it after a quiet kill.       *)
IsSound(f, finished, results, verbosity) ==
    /\ f.at \in {"finished", "destroy"} => finished
    /\ f.at = "finished" =>
         results = 0 /\ (verbosity = "Quietly" => f.arg = FALSE)

FramesAreSound ==
    \A n \in 1 .. Len(stack) :
        IsSound(stack[n], isFinished, resultCount, killVerbosity)

(* Only one call is between finished() and result(). *)
OneFinish ==
    \A m, n \in 1 .. Len(stack) :
        stack[m].at = "finished" /\ stack[n].at = "finished" => m = n

KilledIsFinished == killVerbosity # "none" => isFinished

IInv ==
    /\ TypeOK
    /\ FramesAreSound
    /\ OneFinish
    /\ KilledIsFinished
    /\ SignalsOnce
    /\ QuietKillIsQuiet

-----------------------------------------------------------------------------
(* The three ways to change the stack. *)

LEMMA PushFacts ==
    ASSUME NEW S, NEW s \in Seq(S), NEW f \in S
    PROVE  /\ <<f>> \o s \in Seq(S)
           /\ Len(<<f>> \o s) = Len(s) + 1
           /\ (<<f>> \o s)[1] = f
           /\ \A n \in 2 .. Len(s) + 1 : (<<f>> \o s)[n] = s[n - 1]
OBVIOUS

LEMMA PopFacts ==
    ASSUME NEW S, NEW s \in Seq(S), s # <<>>
    PROVE  /\ Tail(s) \in Seq(S)
           /\ Len(s) \in Nat \ {0}
           /\ Head(s) = s[1] /\ Head(s) \in S
           /\ Len(Tail(s)) = Len(s) - 1
           /\ \A n \in 1 .. Len(s) - 1 : Tail(s)[n] = s[n + 1]
OBVIOUS

LEMMA BecomeFacts ==
    ASSUME NEW S, NEW s \in Seq(S), s # <<>>, NEW f \in S
    PROVE  /\ <<f>> \o Tail(s) \in Seq(S)
           /\ Len(<<f>> \o Tail(s)) = Len(s)
           /\ (<<f>> \o Tail(s))[1] = f
           /\ \A n \in 2 .. Len(s) : (<<f>> \o Tail(s))[n] = s[n]
BY PopFacts

(* A call that is pushed on the stack, replaces the innermost one or ends    *)
(* keeps the conditions on frames if it is itself sound and does not add a  *)
(* second call that is between finished() and result().                    *)
LEMMA PushKeeps ==
    ASSUME TypeOK, OneFinish, NEW f \in FrameKinds, Push(f),
           \A n \in 1 .. Len(stack) : IsSound(stack[n], isFinished', resultCount', killVerbosity'),
           IsSound(f, isFinished', resultCount', killVerbosity'),
           f.at = "finished" =>
              \A n \in 1 .. Len(stack) : stack[n].at # "finished"
    PROVE  stack' \in Seq(FrameKinds) /\ FramesAreSound' /\ OneFinish'
<1>1. stack \in Seq(FrameKinds) /\ stack' = <<f>> \o stack
  BY DEF TypeOK, Push
<1>2. /\ stack' \in Seq(FrameKinds) /\ Len(stack') = Len(stack) + 1
      /\ Len(stack) \in Nat /\ stack'[1] = f
      /\ \A n \in 2 .. Len(stack) + 1 : stack'[n] = stack[n - 1]
  BY <1>1, PushFacts
<1>3. FramesAreSound'
  <2> SUFFICES ASSUME NEW n \in 1 .. Len(stack')
               PROVE  IsSound(stack'[n], isFinished', resultCount', killVerbosity')
    BY DEF FramesAreSound
  <2>1. CASE n = 1
    BY <1>2, <2>1
  <2>2. CASE n # 1
    <3>1. n \in 2 .. Len(stack) + 1 /\ n - 1 \in 1 .. Len(stack)
      BY <1>2, <2>2
    <3> QED
      BY <1>2, <3>1
  <2> QED
    BY <2>1, <2>2
<1>4. OneFinish'
  <2> SUFFICES ASSUME NEW m \in 1 .. Len(stack'), NEW n \in 1 .. Len(stack'),
                      stack'[m].at = "finished", stack'[n].at = "finished"
               PROVE  m = n
    BY DEF OneFinish
  <2>1. \A i \in 1 .. Len(stack') : i # 1 =>
          i - 1 \in 1 .. Len(stack) /\ stack'[i] = stack[i - 1]
    BY <1>2
  <2>2. CASE m = 1 \/ n = 1
    BY <1>2, <2>1, <2>2
  <2>3. CASE m # 1 /\ n # 1
    <3>1. m - 1 = n - 1
      BY <2>1, <2>3 DEF OneFinish
    <3> QED
      BY <1>2, <3>1
  <2> QED
    BY <2>2, <2>3
<1> QED
  BY <1>2, <1>3, <1>4

LEMMA BecomeKeeps ==
    ASSUME TypeOK, OneFinish, stack # <<>>, NEW f \in FrameKinds, Become(f),
           \A n \in 2 .. Len(stack) : IsSound(stack[n], isFinished', resultCount', killVerbosity'),
           IsSound(f, isFinished', resultCount', killVerbosity'),
           f.at = "finished" =>
              \A n \in 2 .. Len(stack) : stack[n].at # "finished"
    PROVE  stack' \in Seq(FrameKinds) /\ FramesAreSound' /\ OneFinish'
<1>1. stack \in Seq(FrameKinds) /\ stack' = <<f>> \o Tail(stack)
  BY DEF TypeOK, Become
<1>2. /\ stack' \in Seq(FrameKinds) /\ Len(stack') = Len(stack)
      /\ Len(stack) \in Nat /\ stack'[1] = f
      /\ \A n \in 2 .. Len(stack) : stack'[n] = stack[n]
  BY <1>1, BecomeFacts
<1>3. FramesAreSound'
  BY <1>2 DEF FramesAreSound
<1>4. OneFinish'
  BY <1>2 DEF OneFinish
<1> QED
  BY <1>2, <1>3, <1>4

LEMMA PopKeeps ==
    ASSUME TypeOK, OneFinish, stack # <<>>, Pop,
           \A n \in 2 .. Len(stack) : IsSound(stack[n], isFinished', resultCount', killVerbosity')
    PROVE  stack' \in Seq(FrameKinds) /\ FramesAreSound' /\ OneFinish'
<1>1. stack \in Seq(FrameKinds) /\ stack' = Tail(stack)
  BY DEF TypeOK, Pop
<1>2. /\ stack' \in Seq(FrameKinds) /\ Len(stack') = Len(stack) - 1
      /\ Len(stack) \in Nat
      /\ \A n \in 1 .. Len(stack) - 1 : stack'[n] = stack[n + 1]
  BY <1>1, PopFacts
<1>3. FramesAreSound'
  BY <1>2 DEF FramesAreSound
<1>4. OneFinish'
  BY <1>2, SMTT(30) DEF OneFinish
<1> QED
  BY <1>2, <1>3, <1>4

(* The innermost call. *)
LEMMA HeadIsSound ==
    ASSUME TypeOK, FramesAreSound, OneFinish, stack # <<>>
    PROVE  /\ Len(stack) \in Nat \ {0}
           /\ Head(stack) = stack[1] /\ Head(stack) \in FrameKinds
           /\ IsSound(Head(stack), isFinished, resultCount, killVerbosity)
           /\ Head(stack).at = "finished" =>
                 \A n \in 2 .. Len(stack) : stack[n].at # "finished"
<1>1. /\ Len(stack) \in Nat \ {0}
      /\ Head(stack) = stack[1] /\ Head(stack) \in FrameKinds
  BY PopFacts DEF TypeOK
<1>2. IsSound(Head(stack), isFinished, resultCount, killVerbosity)
  BY <1>1 DEF FramesAreSound
<1>3. Head(stack).at = "finished" =>
         \A n \in 2 .. Len(stack) : stack[n].at # "finished"
  BY <1>1 DEF OneFinish
<1> QED
  BY <1>1, <1>2, <1>3

-----------------------------------------------------------------------------
(* A job that was just constructed. *)
LEMMA InitIInv == Init => IInv
<1> SUFFICES ASSUME Init PROVE IInv
  OBVIOUS
<1>1. stack = <<>> /\ stack \in Seq(FrameKinds) /\ Len(stack) = 0
  BY DEF Init
<1>2. TypeOK
  BY <1>1 DEF Init, TypeOK
<1>3. FramesAreSound /\ OneFinish
  BY <1>1 DEF FramesAreSound, OneFinish
<1>4. SignalsOnce /\ QuietKillIsQuiet /\ KilledIsFinished
  BY DEF Init, SignalsOnce, QuietKillIsQuiet, KilledIsFinished
<1> QED
  BY <1>2, <1>3, <1>4 DEF IInv

(* Every step keeps IInv. *)
LEMMA NextIInv == IInv /\ [Next \/ Rest]_vars => IInv'
<1> SUFFICES ASSUME IInv, [Next \/ Rest]_vars PROVE IInv'
  OBVIOUS
<1> USE DEF IInv, flags, history, Frame, Running
<1>1. CASE emitResult
  <2>1. Frame("finished", TRUE) \in FrameKinds /\ Push(Frame("finished", TRUE))
    BY <1>1 DEF emitResult, FrameKinds, Verbosities
  <2>2. /\ ~isFinished /\ isFinished' = TRUE /\ finishedCount' = finishedCount + 1
        /\ UNCHANGED <<resultCount, killVerbosity>>
    BY <1>1 DEF emitResult, MarkFinished
  <2>3. finishedCount = 0 /\ resultCount = 0 /\ killVerbosity = "none"
    BY <2>2 DEF SignalsOnce, TypeOK, KilledIsFinished
  <2>4. \A n \in 1 .. Len(stack) :
            /\ stack[n].at # "finished"
            /\ IsSound(stack[n], isFinished', resultCount', killVerbosity')
    BY <2>2 DEF FramesAreSound, IsSound
  <2>5. IsSound(Frame("finished", TRUE), isFinished', resultCount', killVerbosity')
    BY <2>2, <2>3 DEF IsSound
  <2>6. stack' \in Seq(FrameKinds) /\ FramesAreSound' /\ OneFinish'
    BY <2>1, <2>4, <2>5, PushKeeps
  <2>7. TypeOK'
    BY <1>1, <2>6 DEF emitResult, MarkFinished, TypeOK
  <2>8. SignalsOnce' /\ QuietKillIsQuiet' /\ KilledIsFinished'
    BY <1>1, <2>2, <2>3 DEF emitResult, SignalsOnce, QuietKillIsQuiet, KilledIsFinished
  <2> QED
    BY <2>6, <2>7, <2>8
<1>2. CASE FinishedReturns
  <2>1. stack # <<>> /\ Head(stack).at = "finished"
    BY <1>2 DEF FinishedReturns
  <2>2. /\ isFinished /\ resultCount = 0
        /\ killVerbosity = "Quietly" => Head(stack).arg = FALSE
        /\ \A n \in 2 .. Len(stack) : stack[n].at # "finished"
    BY <2>1, HeadIsSound DEF IsSound
  <2>3. PICK f \in FrameKinds : f.at = "result" /\ Become(f)
    BY <1>2 DEF FinishedReturns, FrameKinds
  <2>4. /\ \A n \in 2 .. Len(stack) :
            IsSound(stack[n], isFinished', resultCount', killVerbosity')
        /\ IsSound(f, isFinished', resultCount', killVerbosity')
    BY <1>2, <2>2, <2>3 DEF FinishedReturns, IsSound, FramesAreSound
  <2>5. stack' \in Seq(FrameKinds) /\ FramesAreSound' /\ OneFinish'
    BY <2>1, <2>3, <2>4, BecomeKeeps
  <2>6. TypeOK'
    BY <1>2, <2>5 DEF FinishedReturns, TypeOK
  <2>7. SignalsOnce' /\ QuietKillIsQuiet' /\ KilledIsFinished'
    BY <1>2, <2>2 DEF FinishedReturns, SignalsOnce, QuietKillIsQuiet, KilledIsFinished
  <2> QED
    BY <2>5, <2>6, <2>7
<1>3. CASE FinishJobReturns
  <2>1. stack # <<>> /\ Pop
    BY <1>3 DEF FinishJobReturns
  <2>2. \A n \in 2 .. Len(stack) :
            IsSound(stack[n], isFinished', resultCount', killVerbosity')
    BY <1>3 DEF FinishJobReturns, FramesAreSound
  <2>3. stack' \in Seq(FrameKinds) /\ FramesAreSound' /\ OneFinish'
    BY <2>1, <2>2, PopKeeps
  <2> QED
    BY <1>3, <2>3 DEF FinishJobReturns, TypeOK, NoError, FrameKinds, IsSound, SignalsOnce, QuietKillIsQuiet, KilledIsFinished
<1>4. ASSUME NEW v \in Verbosities, kill(v) PROVE IInv'
  <2>1. Frame("doKill", v) \in FrameKinds /\ Push(Frame("doKill", v))
    BY <1>4 DEF kill, FrameKinds, Verbosities
  <2>2. /\ \A n \in 1 .. Len(stack) :
            IsSound(stack[n], isFinished', resultCount', killVerbosity')
        /\ IsSound(Frame("doKill", v), isFinished', resultCount', killVerbosity')
    BY <1>4 DEF kill, MarkFinished, IsSound, FramesAreSound, SignalsOnce, QuietKillIsQuiet, KilledIsFinished
  <2>3. stack' \in Seq(FrameKinds) /\ FramesAreSound' /\ OneFinish'
    BY <2>1, <2>2, PushKeeps
  <2> QED
    BY <1>4, <2>3 DEF kill, MarkFinished, TypeOK, NoError, SignalsOnce, QuietKillIsQuiet, KilledIsFinished
<1>5. CASE KillSucceeds
  <2>1. stack # <<>> /\ Head(stack).at = "doKill"
    BY <1>5 DEF KillSucceeds
  <2>2. Head(stack) \in FrameKinds /\ Head(stack).arg \in Verbosities
    BY <2>1, HeadIsSound DEF FrameKinds, Verbosities
  <2>3. CASE isFinished
    <3>1. /\ Pop
          /\ UNCHANGED <<isFinished, isAutoDelete, error, startedWithExec, eventLoop,
                         deletePosted, alive, keep, finishedCount, resultCount,
                         killVerbosity>>
      BY <1>5, <2>3 DEF KillSucceeds
    <3>2. \A n \in 2 .. Len(stack) :
              IsSound(stack[n], isFinished', resultCount', killVerbosity')
      BY <3>1 DEF FramesAreSound
    <3>3. stack' \in Seq(FrameKinds) /\ FramesAreSound' /\ OneFinish'
      BY <2>1, <3>1, <3>2, PopKeeps
    <3> QED
      BY <3>1, <3>3 DEF TypeOK, SignalsOnce, QuietKillIsQuiet, KilledIsFinished
  <2>4. CASE ~isFinished
    <3> DEFINE f == Frame("finished", Announces(Head(stack).arg))
    <3>1. /\ Become(f) /\ error' = KilledJobError /\ MarkFinished
          /\ killVerbosity' = Head(stack).arg
          /\ UNCHANGED <<isAutoDelete, startedWithExec, resultCount,
                         deletePosted, alive, keep>>
      BY <1>5, <2>4 DEF KillSucceeds
    <3>2. f \in FrameKinds
      BY DEF Announces, FrameKinds
    <3>3. finishedCount = 0 /\ resultCount = 0
      BY <2>4 DEF SignalsOnce, TypeOK
    <3>4. /\ \A n \in 2 .. Len(stack) :
              IsSound(stack[n], isFinished', resultCount', killVerbosity')
          /\ \A n \in 2 .. Len(stack) : stack[n].at # "finished"
      BY <2>4, <3>1 DEF IsSound, FramesAreSound, MarkFinished
    <3>5. IsSound(f, isFinished', resultCount', killVerbosity')
      BY <3>1, <3>3 DEF IsSound, Announces, MarkFinished
    <3> HIDE DEF f
    <3>6. stack' \in Seq(FrameKinds) /\ FramesAreSound' /\ OneFinish'
      BY <2>1, <3>1, <3>2, <3>4, <3>5, BecomeKeeps
    <3>7. TypeOK'
      BY <2>2, <3>1, <3>6 DEF TypeOK, MarkFinished
    <3> QED
      BY <2>4, <3>1, <3>3, <3>6, <3>7 DEF MarkFinished, SignalsOnce, QuietKillIsQuiet, KilledIsFinished
  <2> QED
    BY <2>3, <2>4
<1>6. CASE KillFails
  <2>1. stack # <<>> /\ Pop
    BY <1>6 DEF KillFails
  <2>2. \A n \in 2 .. Len(stack) :
            IsSound(stack[n], isFinished', resultCount', killVerbosity')
    BY <1>6 DEF KillFails, FramesAreSound
  <2>3. stack' \in Seq(FrameKinds) /\ FramesAreSound' /\ OneFinish'
    BY <2>1, <2>2, PopKeeps
  <2> QED
    BY <1>6, <2>3 DEF KillFails, TypeOK, NoError, FrameKinds, IsSound, SignalsOnce, QuietKillIsQuiet, KilledIsFinished
<1>7. CASE exec
  <2>1. Frame("start", isAutoDelete) \in FrameKinds /\ Push(Frame("start", isAutoDelete))
    <3>1. isAutoDelete \in BOOLEAN
      BY DEF TypeOK
    <3>2. Frame("start", isAutoDelete) \in FrameKinds
      BY <3>1 DEF FrameKinds
    <3>3. Push(Frame("start", isAutoDelete))
      BY <1>7 DEF exec
    <3> QED
      BY <3>2, <3>3
  <2>2. /\ \A n \in 1 .. Len(stack) :
            IsSound(stack[n], isFinished', resultCount', killVerbosity')
        /\ IsSound(Frame("start", isAutoDelete), isFinished', resultCount', killVerbosity')
    BY <1>7 DEF exec, MarkFinished, IsSound, FramesAreSound, SignalsOnce, QuietKillIsQuiet, KilledIsFinished
  <2>3. stack' \in Seq(FrameKinds) /\ FramesAreSound' /\ OneFinish'
    BY <2>1, <2>2, PushKeeps
  <2> QED
    BY <1>7, <2>3 DEF exec, MarkFinished, TypeOK, NoError, SignalsOnce, QuietKillIsQuiet, KilledIsFinished
<1>8. CASE StartReturns
  <2>1. stack # <<>> /\ Head(stack).at = "start"
    BY <1>8 DEF StartReturns
  <2>2. Head(stack).arg \in BOOLEAN
    BY <2>1, HeadIsSound DEF FrameKinds
  <2>3. PICK f \in FrameKinds : f.at \in {"leave", "spin"} /\ Become(f)
    BY <1>8, <2>2 DEF StartReturns, EnterLoop, FrameKinds
  <2>4. /\ \A n \in 2 .. Len(stack) :
            IsSound(stack[n], isFinished', resultCount', killVerbosity')
        /\ IsSound(f, isFinished', resultCount', killVerbosity')
    BY <1>8, <2>3 DEF StartReturns, IsSound, FramesAreSound
  <2>5. stack' \in Seq(FrameKinds) /\ FramesAreSound' /\ OneFinish'
    BY <2>1, <2>3, <2>4, BecomeKeeps
  <2> QED
    BY <1>8, <2>5 DEF StartReturns, EnterLoop, TypeOK, SignalsOnce, QuietKillIsQuiet, KilledIsFinished
<1>9. CASE ExecReturns
  <2>1. stack # <<>> /\ Pop
    BY <1>9 DEF ExecReturns
  <2>2. \A n \in 2 .. Len(stack) :
            IsSound(stack[n], isFinished', resultCount', killVerbosity')
    BY <1>9 DEF ExecReturns, FramesAreSound
  <2>3. stack' \in Seq(FrameKinds) /\ FramesAreSound' /\ OneFinish'
    BY <2>1, <2>2, PopKeeps
  <2>4. /\ Head(stack) \in FrameKinds
        /\ IsSound(Head(stack), isFinished, resultCount, killVerbosity)
    BY <2>1, HeadIsSound
  <2> QED
    BY <1>9, <2>3, <2>4 DEF ExecReturns, TypeOK, NoError, FrameKinds, IsSound, SignalsOnce, QuietKillIsQuiet, KilledIsFinished
<1>10. ASSUME NEW on \in BOOLEAN, setAutoDelete(on) PROVE IInv'
  <2>1. FramesAreSound' /\ OneFinish'
    BY <1>10 DEF setAutoDelete, FramesAreSound, OneFinish
  <2> QED
    BY <1>10, <2>1 DEF setAutoDelete, TypeOK, NoError, SignalsOnce, QuietKillIsQuiet, KilledIsFinished
<1>11. CASE setError
  <2>1. FramesAreSound' /\ OneFinish'
    BY <1>11 DEF setError, FramesAreSound, OneFinish
  <2> QED
    BY <1>11, <2>1 DEF setError, TypeOK, NoError, SignalsOnce, QuietKillIsQuiet, KilledIsFinished
<1>12. CASE Destroy
  <2>1. CASE isFinished
    <3>1. FramesAreSound' /\ OneFinish'
      BY <1>12, <2>1 DEF Destroy, FramesAreSound, OneFinish
    <3> QED
      BY <1>12, <2>1, <3>1 DEF Destroy, TypeOK, SignalsOnce, QuietKillIsQuiet, KilledIsFinished
  <2>2. CASE ~isFinished
    <3>1. Frame("destroy", TRUE) \in FrameKinds /\ Push(Frame("destroy", TRUE))
      BY <1>12, <2>2 DEF Destroy, FrameKinds
    <3>2. /\ \A n \in 1 .. Len(stack) :
              IsSound(stack[n], isFinished', resultCount', killVerbosity')
          /\ IsSound(Frame("destroy", TRUE), isFinished', resultCount', killVerbosity')
      BY <1>12, <2>2 DEF Destroy, IsSound, FramesAreSound
    <3>3. stack' \in Seq(FrameKinds) /\ FramesAreSound' /\ OneFinish'
      BY <3>1, <3>2, PushKeeps
    <3>4. /\ isFinished' = TRUE /\ finishedCount' = finishedCount + 1 /\ alive
          /\ UNCHANGED <<isAutoDelete, error, startedWithExec, eventLoop, alive,
                         keep, resultCount, killVerbosity>>
          /\ deletePosted' = FALSE
      BY <1>12, <2>2 DEF Destroy
    <3>5. finishedCount = 0 /\ resultCount = 0 /\ killVerbosity = "none"
      BY <2>2 DEF SignalsOnce, TypeOK, KilledIsFinished
    <3>6. TypeOK'
      <4>1. isFinished' \in BOOLEAN /\ deletePosted' \in BOOLEAN
        BY <3>4, Zenon
      <4>2. finishedCount' \in Nat
        BY <3>4, <3>5
      <4>3. stack' \in Seq(FrameKinds)
        BY <3>3
      <4> QED
        BY <3>4, <4>1, <4>2, <4>3 DEF TypeOK
    <3>7. SignalsOnce' /\ QuietKillIsQuiet' /\ KilledIsFinished'
      BY <3>4, <3>5 DEF SignalsOnce, QuietKillIsQuiet, KilledIsFinished
    <3> QED
      BY <3>3, <3>6, <3>7
  <2> QED
    BY <2>1, <2>2
<1>13. CASE DestroyReturns
  <2>1. stack # <<>> /\ Pop
    BY <1>13 DEF DestroyReturns
  <2>2. \A n \in 2 .. Len(stack) :
            IsSound(stack[n], isFinished', resultCount', killVerbosity')
    BY <1>13 DEF DestroyReturns, FramesAreSound
  <2>3. stack' \in Seq(FrameKinds) /\ FramesAreSound' /\ OneFinish'
    BY <2>1, <2>2, PopKeeps
  <2>4. /\ Head(stack) \in FrameKinds
        /\ IsSound(Head(stack), isFinished, resultCount, killVerbosity)
    BY <2>1, HeadIsSound
  <2> QED
    BY <1>13, <2>3, <2>4 DEF DestroyReturns, TypeOK, NoError, FrameKinds, IsSound, SignalsOnce, QuietKillIsQuiet, KilledIsFinished
<1>14. CASE UNCHANGED vars
  BY <1>14 DEF vars, TypeOK, FramesAreSound, OneFinish, SignalsOnce, QuietKillIsQuiet, KilledIsFinished
<1> QED
  BY <1>1, <1>2, <1>3, <1>4, <1>5, <1>6, <1>7, <1>8, <1>9, <1>10, <1>11, <1>12, <1>13, <1>14
  DEF Next, Rest, Continue, Call, DeferredDelete, DeleteByOwner

LEMMA Invariance == Spec => []IInv
BY InitIInv, NextIInv, PTL DEF Spec

(* Every variable keeps its type, the stack of calls under way included.     *)
THEOREM JobTypeCorrect == Spec => []TypeOK
<1>1. IInv => TypeOK
  BY DEF IInv
<1> QED
  BY <1>1, Invariance, PTL

(* finished() is emitted exactly once, when the job is marked as finished,   *)
(* and result() at most once and never before it, however deep slots and   *)
(* virtual functions call the job again (kjob.h:452, 488): for every bound  *)
(* on the nesting.                                                         *)
THEOREM EmitsOnce == Spec => []SignalsOnce
<1>1. IInv => SignalsOnce
  BY DEF IInv
<1> QED
  BY <1>1, Invariance, PTL

(* A job killed quietly never emits result() (kjob.h:224), whoever else      *)
(* finishes or kills it from doKill() or a slot.                           *)
THEOREM QuietIsQuiet == Spec => []QuietKillIsQuiet
<1>1. IInv => QuietKillIsQuiet
  BY DEF IInv
<1> QED
  BY <1>1, Invariance, PTL
-----------------------------------------------------------------------------
(* exec().  Its frame is the outermost one, since it is not called from      *)
(* slots; while it is there, there is an event loop; the nested loop of a   *)
(* finished job has been told to quit; and only a finished job makes exec() *)
(* leave without entering the loop.  f is frame n of len.                   *)
ExecSafe(f, n, len, finished, loop) ==
    /\ f.at \in {"start", "spin", "leave"} => n = len /\ loop # "none"
    /\ f.at = "spin" /\ finished => loop = "quit"
    /\ f.at = "leave" => finished

ExecInv ==
    /\ eventLoop = "quit" => isFinished
    /\ \A n \in 1 .. Len(stack) :
         ExecSafe(stack[n], n, Len(stack), isFinished, eventLoop)

(* What a call that is pushed on the stack, replaces the innermost one or   *)
(* ends must keep.                                                         *)
LEMMA PushKeepsExec ==
    ASSUME TypeOK, NEW f \in FrameKinds, Push(f),
           \A n \in 1 .. Len(stack) :
               ExecSafe(stack[n], n, Len(stack), isFinished', eventLoop'),
           ExecSafe(f, 1, Len(stack) + 1, isFinished', eventLoop'),
           eventLoop' = "quit" => isFinished'
    PROVE  ExecInv'
<1>1. /\ Len(stack') = Len(stack) + 1 /\ Len(stack) \in Nat /\ stack'[1] = f
      /\ \A n \in 2 .. Len(stack) + 1 : stack'[n] = stack[n - 1]
  BY PushFacts DEF TypeOK, Push
<1>2. ASSUME NEW n \in 1 .. Len(stack')
      PROVE  ExecSafe(stack'[n], n, Len(stack'), isFinished', eventLoop')
  <2>1. CASE n = 1
    BY <1>1, <2>1
  <2>2. CASE n # 1
    <3>1. n \in 2 .. Len(stack) + 1 /\ n - 1 \in 1 .. Len(stack)
          /\ (n - 1 = Len(stack) => n = Len(stack'))
      BY <1>1, <2>2
    <3>2. stack'[n] = stack[n - 1]
          /\ ExecSafe(stack[n - 1], n - 1, Len(stack), isFinished', eventLoop')
      BY <1>1, <3>1
    <3> QED
      BY <3>1, <3>2 DEF ExecSafe
  <2> QED
    BY <2>1, <2>2
<1> QED
  BY <1>2 DEF ExecInv

LEMMA BecomeKeepsExec ==
    ASSUME TypeOK, stack # <<>>, NEW f \in FrameKinds, Become(f),
           \A n \in 2 .. Len(stack) :
               ExecSafe(stack[n], n, Len(stack), isFinished', eventLoop'),
           ExecSafe(f, 1, Len(stack), isFinished', eventLoop'),
           eventLoop' = "quit" => isFinished'
    PROVE  ExecInv'
<1>1. /\ Len(stack') = Len(stack) /\ Len(stack) \in Nat /\ stack'[1] = f
      /\ \A n \in 2 .. Len(stack) : stack'[n] = stack[n]
  BY BecomeFacts, PopFacts DEF TypeOK, Become
<1>2. ASSUME NEW n \in 1 .. Len(stack')
      PROVE  ExecSafe(stack'[n], n, Len(stack'), isFinished', eventLoop')
  <2>1. n = 1 \/ n \in 2 .. Len(stack)
    BY <1>1
  <2> QED
    BY <1>1, <2>1
<1> QED
  BY <1>2 DEF ExecInv

LEMMA PopKeepsExec ==
    ASSUME TypeOK, stack # <<>>, Pop,
           \A n \in 2 .. Len(stack) :
               ExecSafe(stack[n], n, Len(stack), isFinished', eventLoop'),
           eventLoop' = "quit" => isFinished'
    PROVE  ExecInv'
<1>1. /\ Len(stack') = Len(stack) - 1 /\ Len(stack) \in Nat
      /\ \A n \in 1 .. Len(stack) - 1 : stack'[n] = stack[n + 1]
  BY PopFacts DEF TypeOK, Pop
<1>2. ASSUME NEW n \in 1 .. Len(stack')
      PROVE  ExecSafe(stack'[n], n, Len(stack'), isFinished', eventLoop')
  <2>1. n + 1 \in 2 .. Len(stack) /\ n \in 1 .. Len(stack) - 1
        /\ (n + 1 = Len(stack) => n = Len(stack'))
    BY <1>1
  <2>2. stack'[n] = stack[n + 1]
        /\ ExecSafe(stack[n + 1], n + 1, Len(stack), isFinished', eventLoop')
    BY <1>1, <2>1
  <2> QED
    BY <2>1, <2>2 DEF ExecSafe
<1> QED
  BY <1>2 DEF ExecInv

LEMMA InitExecInv == Init => ExecInv
<1> SUFFICES ASSUME Init PROVE ExecInv
  OBVIOUS
<1>1. stack = <<>> /\ eventLoop = "none"
  BY DEF Init
<1> QED
  BY <1>1 DEF ExecInv

(* finishJob() tells the loop to quit in the same step that marks the job. *)
LEMMA MarkFinishedKeepsExec ==
    ASSUME TypeOK, ExecInv, MarkFinished
    PROVE  /\ \A n \in 1 .. Len(stack) :
                ExecSafe(stack[n], n, Len(stack), isFinished', eventLoop')
           /\ eventLoop' = "quit" => isFinished'
<1>1. isFinished' = TRUE
  BY DEF MarkFinished
<1>2. eventLoop # "none" => eventLoop' = "quit"
  BY DEF MarkFinished
<1>3. ASSUME NEW n \in 1 .. Len(stack)
      PROVE  ExecSafe(stack[n], n, Len(stack), isFinished', eventLoop')
  <2>1. ExecSafe(stack[n], n, Len(stack), isFinished, eventLoop)
    BY DEF ExecInv
  <2> QED
    BY <1>1, <1>2, <2>1 DEF ExecSafe
<1> QED
  BY <1>1, <1>3

LEMMA NextExecInv == IInv /\ ExecInv /\ [Next \/ Rest]_vars => ExecInv'
<1> SUFFICES ASSUME TypeOK, ExecInv, [Next \/ Rest]_vars PROVE ExecInv'
  BY DEF IInv
<1> USE DEF flags, history, Frame, Running
<1>0. ASSUME isFinished' = isFinished, eventLoop' = eventLoop
      PROVE  /\ \A n \in 1 .. Len(stack) :
                  ExecSafe(stack[n], n, Len(stack), isFinished', eventLoop')
             /\ eventLoop' = "quit" => isFinished'
  BY <1>0 DEF ExecInv
<1>1. CASE emitResult
  <2>1. Push(Frame("finished", TRUE)) /\ MarkFinished
    BY <1>1 DEF emitResult
  <2>2. Frame("finished", TRUE) \in FrameKinds
        /\ ExecSafe(Frame("finished", TRUE), 1, Len(stack) + 1, isFinished', eventLoop')
    BY DEF FrameKinds, ExecSafe
  <2> QED
    BY <2>1, <2>2, MarkFinishedKeepsExec, PushKeepsExec
<1>2. CASE FinishedReturns
  <2>1. stack # <<>> /\ isFinished' = isFinished /\ eventLoop' = eventLoop
    BY <1>2 DEF FinishedReturns
  <2>2. PICK f \in FrameKinds : f.at = "result" /\ Become(f)
    BY <1>2 DEF FinishedReturns, FrameKinds
  <2>3. ExecSafe(f, 1, Len(stack), isFinished', eventLoop')
    BY <2>2 DEF ExecSafe
  <2>4. \A n \in 2 .. Len(stack) : n \in 1 .. Len(stack)
    OBVIOUS
  <2> QED
    BY <1>0, <2>1, <2>2, <2>3, <2>4, BecomeKeepsExec
<1>3. CASE FinishJobReturns \/ KillFails \/ DestroyReturns
  <2>1. stack # <<>> /\ isFinished' = isFinished /\ eventLoop' = eventLoop /\ Pop
    BY <1>3 DEF FinishJobReturns, KillFails, DestroyReturns
  <2>2. \A n \in 2 .. Len(stack) : n \in 1 .. Len(stack)
    OBVIOUS
  <2> QED
    BY <1>0, <2>1, <2>2, PopKeepsExec
<1>4. ASSUME NEW v \in Verbosities, kill(v) PROVE ExecInv'
  <2>1. Frame("doKill", v) \in FrameKinds /\ Push(Frame("doKill", v))
        /\ isFinished' = isFinished /\ eventLoop' = eventLoop
    BY <1>4 DEF kill, FrameKinds, Verbosities
  <2>2. ExecSafe(Frame("doKill", v), 1, Len(stack) + 1, isFinished', eventLoop')
    BY DEF ExecSafe
  <2> QED
    BY <1>0, <2>1, <2>2, PushKeepsExec
<1>5. CASE KillSucceeds
  <2>1. stack # <<>> /\ \A n \in 2 .. Len(stack) : n \in 1 .. Len(stack)
    BY <1>5 DEF KillSucceeds
  <2>2. CASE isFinished
    <3>1. Pop /\ isFinished' = isFinished /\ eventLoop' = eventLoop
      BY <1>5, <2>2 DEF KillSucceeds
    <3> QED
      BY <1>0, <2>1, <3>1, PopKeepsExec
  <2>3. CASE ~isFinished
    <3>1. MarkFinished /\ Become(Frame("finished", Announces(Head(stack).arg)))
      BY <1>5, <2>3 DEF KillSucceeds
    <3>2. PICK f \in FrameKinds : f.at = "finished" /\ Become(f)
      BY <3>1 DEF Announces, FrameKinds
    <3>3. ExecSafe(f, 1, Len(stack), isFinished', eventLoop')
      BY <3>2 DEF ExecSafe
    <3> QED
      BY <2>1, <3>1, <3>2, <3>3, MarkFinishedKeepsExec, BecomeKeepsExec
  <2> QED
    BY <2>2, <2>3
<1>6. CASE exec
  <2>1. stack = <<>> /\ isFinished' = isFinished /\ eventLoop' = "running"
        /\ Push(Frame("start", isAutoDelete))
    BY <1>6 DEF exec
  <2>2. Frame("start", isAutoDelete) \in FrameKinds
    <3>1. isAutoDelete \in BOOLEAN
      BY DEF TypeOK
    <3> QED
      BY <3>1 DEF FrameKinds
  <2>3. Len(stack) = 0
    BY <2>1
  <2>4. ExecSafe(Frame("start", isAutoDelete), 1, Len(stack) + 1, isFinished', eventLoop')
    BY <2>1, <2>3 DEF ExecSafe
  <2> QED
    BY <2>1, <2>2, <2>3, <2>4, PushKeepsExec
<1>7. CASE StartReturns
  <2>1. stack # <<>> /\ Head(stack).at = "start" /\ isFinished' = isFinished
    BY <1>7 DEF StartReturns
  <2>2. /\ Len(stack) \in Nat \ {0} /\ Head(stack) = stack[1] /\ Head(stack) \in FrameKinds
    BY <2>1, PopFacts DEF TypeOK
  <2>3. ExecSafe(stack[1], 1, Len(stack), isFinished, eventLoop)
    BY <2>2 DEF ExecInv
  <2>4. Len(stack) = 1 /\ eventLoop # "none"
    BY <2>1, <2>2, <2>3 DEF ExecSafe
  <2>5. Head(stack).arg \in BOOLEAN
    BY <2>1, <2>2 DEF FrameKinds
  <2>6. CASE isFinished
    <3>1. PICK f \in FrameKinds : f.at = "leave" /\ Become(f)
      BY <1>7, <2>5, <2>6 DEF StartReturns, FrameKinds
    <3>2. eventLoop' = eventLoop
      BY <1>7, <2>6 DEF StartReturns
    <3>3. isFinished'
      BY <2>1, <2>6
    <3>4. ExecSafe(f, 1, Len(stack), isFinished', eventLoop')
      BY <2>4, <3>1, <3>2, <3>3 DEF ExecSafe
    <3>5. stack # <<>> /\ \A n \in 2 .. Len(stack) :
             ExecSafe(stack[n], n, Len(stack), isFinished', eventLoop')
      BY <2>1, <2>4
    <3> QED
      BY <3>1, <3>3, <3>4, <3>5, BecomeKeepsExec
  <2>7. CASE ~isFinished
    <3>1. PICK f \in FrameKinds : f.at = "spin" /\ Become(f)
      BY <1>7, <2>5, <2>7 DEF StartReturns, EnterLoop, FrameKinds
    <3>2. eventLoop' = "running"
      BY <1>7, <2>7 DEF StartReturns, EnterLoop
    <3>3. ExecSafe(f, 1, Len(stack), isFinished', eventLoop')
      BY <2>1, <2>4, <2>7, <3>1, <3>2 DEF ExecSafe
    <3> QED
      BY <2>1, <2>4, <3>1, <3>2, <3>3, BecomeKeepsExec
  <2> QED
    BY <2>6, <2>7
<1>8. CASE ExecReturns
  <2>1. stack # <<>> /\ Head(stack).at \in {"leave", "spin"} /\ Pop
        /\ isFinished' = isFinished /\ eventLoop' = "none"
    BY <1>8 DEF ExecReturns
  <2>2. Len(stack) \in Nat \ {0} /\ Head(stack) = stack[1]
    BY <2>1, PopFacts DEF TypeOK
  <2>3. ExecSafe(stack[1], 1, Len(stack), isFinished, eventLoop)
    BY <2>2 DEF ExecInv
  <2>4. Len(stack) = 1
    BY <2>1, <2>2, <2>3 DEF ExecSafe
  <2> QED
    BY <2>1, <2>4, PopKeepsExec
<1>9. CASE Destroy
  <2>1. stack = <<>> /\ eventLoop' = eventLoop
    BY <1>9 DEF Destroy
  <2>2. CASE isFinished
    BY <1>9, <2>1, <2>2 DEF Destroy, ExecInv
  <2>3. CASE ~isFinished
    <3>1. Push(Frame("destroy", TRUE)) /\ isFinished' = TRUE
      BY <1>9, <2>3 DEF Destroy
    <3>2. PICK f \in FrameKinds : f.at = "destroy" /\ Push(f)
      BY <3>1 DEF FrameKinds
    <3>3. ExecSafe(f, 1, Len(stack) + 1, isFinished', eventLoop')
      BY <3>2 DEF ExecSafe
    <3>4. \A n \in 1 .. Len(stack) :
             ExecSafe(stack[n], n, Len(stack), isFinished', eventLoop')
      BY <2>1
    <3>5. isFinished'
      BY <3>1
    <3> QED
      BY <3>2, <3>3, <3>4, <3>5, PushKeepsExec
  <2> QED
    BY <2>2, <2>3
<1>10. CASE (\E on \in BOOLEAN : setAutoDelete(on)) \/ setError \/ UNCHANGED vars
  <2>1. stack' = stack /\ isFinished' = isFinished /\ eventLoop' = eventLoop
    BY <1>10 DEF setAutoDelete, setError, vars
  <2> QED
    BY <2>1 DEF ExecInv
<1> QED
  BY <1>1, <1>2, <1>3, <1>4, <1>5, <1>6, <1>7, <1>8, <1>9, <1>10
  DEF Next, Rest, Continue, Call, DeferredDelete, DeleteByOwner

(* The event loop of exec() goes away only when the job has finished. *)
LEMMA LoopEndsFinished ==
    ASSUME TypeOK, ExecInv, [Next \/ Rest]_vars, eventLoop # "none", eventLoop' = "none"
    PROVE  isFinished
<1>1. ExecReturns
  BY DEF Next, Rest, Continue, Call, DeferredDelete, DeleteByOwner, vars, flags, history,
         emitResult, MarkFinished, FinishedReturns, FinishJobReturns, kill, KillSucceeds,
         KillFails, exec, StartReturns, EnterLoop, setAutoDelete, setError, Destroy,
         DestroyReturns
<1>2. CASE eventLoop = "quit"
  BY <1>2 DEF ExecInv
<1>3. CASE eventLoop # "quit"
  <2>1. stack # <<>> /\ Head(stack).at = "leave"
    BY <1>1, <1>3 DEF ExecReturns, Running
  <2>2. Len(stack) \in Nat \ {0} /\ Head(stack) = stack[1]
    BY <2>1, PopFacts DEF TypeOK
  <2>3. ExecSafe(stack[1], 1, Len(stack), isFinished, eventLoop)
    BY <2>2 DEF ExecInv
  <2> QED
    BY <2>1, <2>2, <2>3 DEF ExecSafe
<1> QED
  BY <1>2, <1>3

(* The safety of exec() (kjob.cpp:101-110, 205-232), whatever start(), slots *)
(* and doKill() do to the job: its loop never sleeps through the end of the *)
(* job, and it returns only when the job has finished.                      *)
THEOREM ExecIsSafe == Spec => []NoLostQuit /\ ExecWaits
<1>1. Spec => []ExecInv
  BY InitExecInv, NextExecInv, Invariance, PTL DEF Spec
<1>2. ExecInv => NoLostQuit
  BY DEF ExecInv, ExecSafe, NoLostQuit
<1>3. IInv /\ ExecInv /\ [Next \/ Rest]_vars =>
        [eventLoop # "none" /\ eventLoop' = "none" => isFinished]_vars
  BY LoopEndsFinished DEF IInv
<1> QED
  BY <1>1, <1>2, <1>3, Invariance, PTL DEF Spec, ExecWaits
=============================================================================
