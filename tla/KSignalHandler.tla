--------------------------- MODULE KSignalHandler ---------------------------
(***************************************************************************)
(* UNIX signals as Qt signals (ksignalhandler.cpp).  The handler of a      *)
(* signal, which may interrupt any thread, writes its number to a socket;  *)
(* the event loop of the thread that owns the KSignalHandler reads it.     *)
(*                                                                         *)
(* The kernel, the socket and the loop are external: a signal that is      *)
(* pending already is not queued again, a full socket makes the writer     *)
(* wait, and an enabled notifier calls its slot while there is data.       *)
(***************************************************************************)
EXTENDS Naturals, Sequences

CONSTANTS
    Signals,
    Capacity,   \* how many numbers the socket holds
    MaxRaised   \* bound on the signals raised

ASSUME SignalAssumption == Capacity \in Nat \ {0} /\ MaxRaised \in Nat

VARIABLES
    m_signalsRegistered,
    m_handler,  \* the notifier: "none", "enabled" or "disabled"
    pending,    \* signals the kernel has not delivered
    writing,    \* the signal whose handler runs, in which thread
    socket,     \* what was written and not read
    reading,    \* the slot has disabled the notifier and not read yet
    raised,
    written, received \* history: what handlers wrote, what was emitted

history == <<raised, written, received>>
handlerVars == <<m_signalsRegistered, m_handler, pending, writing, socket, reading, history>>

NoSignal == [signal |-> 0, main |-> FALSE]

(* The handler runs in the thread of the loop, which then does nothing else *)
(* until it has returned.                                                  *)
Interrupted == writing # NoSignal /\ writing.main

watchSignal(s) ==
    /\ ~Interrupted
    /\ s \notin m_signalsRegistered
    /\ m_signalsRegistered' = m_signalsRegistered \cup {s}
    /\ UNCHANGED <<m_handler, pending, writing, socket, reading, history>>

(* Somebody sends a signal that has a handler. *)
Raise(s) ==
    /\ s \in m_signalsRegistered
    /\ raised < MaxRaised
    /\ raised' = raised + 1
    /\ pending' = pending \cup {s}
    /\ UNCHANGED <<m_signalsRegistered, m_handler, writing, socket, reading, written, received>>

(* The kernel interrupts a thread. *)
Interrupt(s, main) ==
    /\ s \in pending /\ writing = NoSignal
    /\ pending' = pending \ {s}
    /\ writing' = [signal |-> s, main |-> main]
    /\ UNCHANGED <<m_signalsRegistered, m_handler, socket, reading, history>>

(* signalHandler(): write() waits for room. *)
signalHandler ==
    /\ writing # NoSignal
    /\ Len(socket) < Capacity
    /\ socket' = Append(socket, writing.signal)
    /\ written' = Append(written, writing.signal)
    /\ writing' = NoSignal
    /\ UNCHANGED <<m_signalsRegistered, m_handler, pending, reading, raised, received>>

(* The timer of the constructor: the loop runs for the first time. *)
CreateNotifier ==
    /\ ~Interrupted
    /\ m_handler = "none"
    /\ m_handler' = "enabled"
    /\ UNCHANGED <<m_signalsRegistered, pending, writing, socket, reading, history>>

(* handleSignal(): the notifier is disabled first. *)
Activated ==
    /\ ~Interrupted
    /\ m_handler = "enabled" /\ ~reading /\ socket # <<>>
    /\ m_handler' = "disabled"
    /\ reading' = TRUE
    /\ UNCHANGED <<m_signalsRegistered, pending, writing, socket, history>>

(* Mutant: the notifier stays disabled. *)
handleSignal_Once ==
    /\ ~Interrupted
    /\ reading
    /\ reading' = FALSE
    /\ socket' = Tail(socket)
    /\ received' = Append(received, Head(socket))
    /\ UNCHANGED <<m_signalsRegistered, m_handler, pending, writing, raised, written>>

(* handleSignal(): one number is read, and emitted when the notifier is      *)
(* enabled again.                                                          *)
handleSignal ==
    /\ ~Interrupted
    /\ reading
    /\ reading' = FALSE
    /\ socket' = Tail(socket)
    /\ m_handler' = "enabled"
    /\ received' = Append(received, Head(socket))
    /\ UNCHANGED <<m_signalsRegistered, pending, writing, raised, written>>

HandlerInit ==
    /\ m_signalsRegistered = {}
    /\ m_handler = "none"
    /\ pending = {}
    /\ writing = NoSignal
    /\ socket = <<>>
    /\ reading = FALSE
    /\ raised = 0
    /\ written = <<>>
    /\ received = <<>>

HandlerNext ==
    \/ \E s \in Signals : watchSignal(s) \/ Raise(s) \/ \E main \in BOOLEAN : Interrupt(s, main)
    \/ signalHandler \/ CreateNotifier \/ Activated \/ handleSignal

(* The threads and the loop run, and the kernel delivers. *)
HandlerFairness ==
    /\ WF_handlerVars(\E s \in Signals, main \in BOOLEAN : Interrupt(s, main))
    /\ WF_handlerVars(signalHandler)
    /\ WF_handlerVars(CreateNotifier \/ Activated \/ handleSignal)

-----------------------------------------------------------------------------
(* Properties. *)

(* The handler has interrupted the only thread that could make room for it. *)
Stuck == Interrupted /\ Len(socket) = Capacity

(* Every signal that is raised is emitted, in the order in which handlers    *)
(* wrote, also those raised before the loop runs for the first time and     *)
(* while slots of others run; unless more of them came at once than the    *)
(* socket holds, and the thread of the loop was the one interrupted.       *)
SignalsReceived ==
    \A s \in Signals :
        s \in pending ~> Stuck \/ (s \notin pending /\ received = written)
=============================================================================
