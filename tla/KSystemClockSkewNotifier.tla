---------------------- MODULE KSystemClockSkewNotifier ----------------------
(***************************************************************************)
(* Clock skew notifiers (ksystemclockskewnotifier.cpp) and the engine they *)
(* share while at least one of them is active                              *)
(* (ksystemclockskewnotifierengine.cpp, ..._linux.cpp).                    *)
(*                                                                         *)
(* Slots of skewed() run at once, one after the other, and may activate    *)
(* and deactivate notifiers.  The timer file of the engine is external: it *)
(* becomes readable when the clock is set, and reading it takes that back. *)
(***************************************************************************)
EXTENDS Naturals, FiniteSets

CONSTANTS
    Notifiers,
    MaxSkews    \* bound on the changes of the clock

ASSUME SkewAssumption == MaxSkews \in Nat

VARIABLES
    isActive,   \* the notifiers that are active
    holders,    \* the notifiers whose shared pointer holds the engine
    connected,  \* the notifiers the engine's skewed() is connected to
    exists,     \* the engine exists: the weak pointer of globalInstance() locks
    readable,   \* the clock was set after the engine last read its timer
    telling,    \* notifiers that are still to be told by the skewed() under way
    skews,
    owed        \* history: notifiers active since the clock was set, not told of it

skewVars == <<isActive, holders, connected, exists, readable, telling, skews, owed>>

(* globalInstance(): the engine there is, or a new one, unless its timer cannot *)
(* be made.                                                                *)
globalInstance(create) == exists \/ create

loadNotifierEngine(n) ==
    \E create \in BOOLEAN :
        /\ exists' = globalInstance(create)
        /\ readable' = (exists /\ readable)
        /\ IF globalInstance(create)
           THEN holders' = holders \cup {n} /\ connected' = connected \cup {n}
           ELSE UNCHANGED <<holders, connected>>

(* Mutant: the pointer is not reset. *)
unloadNotifierEngine_Keeps(n) ==
    /\ connected' = connected \ {n}
    /\ UNCHANGED <<holders, exists, readable>>

(* unloadNotifierEngine(): the last pointer takes the engine with it. *)
unloadNotifierEngine(n) ==
    /\ connected' = connected \ {n}
    /\ holders' = holders \ {n}
    /\ exists' = (holders' # {})
    /\ readable' = (readable /\ exists')

(* setActive(): nothing happens when it is so already. *)
setActive(n, set) ==
    /\ (n \in isActive) # set
    /\ IF set
       THEN isActive' = isActive \cup {n} /\ loadNotifierEngine(n)
       ELSE isActive' = isActive \ {n} /\ unloadNotifierEngine(n)
    /\ telling' = telling \ {n}
    /\ owed' = owed \ {n}
    /\ UNCHANGED skews

(* The system clock is set. *)
SetClock ==
    /\ skews < MaxSkews
    /\ skews' = skews + 1
    /\ readable' = exists
    /\ owed' = owed \cup holders
    /\ UNCHANGED <<isActive, holders, connected, exists, telling>>

(* handleTimerCancelled(): the timer is read, and skewed() is emitted. *)
handleTimerCancelled ==
    /\ exists /\ readable /\ telling = {}
    /\ readable' = FALSE
    /\ telling' = connected
    /\ UNCHANGED <<isActive, holders, connected, exists, skews, owed>>

(* One of the slots runs. *)
skewed(n) ==
    /\ n \in telling
    /\ telling' = telling \ {n}
    /\ owed' = owed \ {n}
    /\ UNCHANGED <<isActive, holders, connected, exists, readable, skews>>

SkewInit ==
    /\ isActive = {} /\ holders = {} /\ connected = {}
    /\ exists = FALSE /\ readable = FALSE
    /\ telling = {} /\ skews = 0 /\ owed = {}

SkewNext ==
    \/ \E n \in Notifiers : skewed(n) \/ \E set \in BOOLEAN : setActive(n, set)
    \/ SetClock \/ handleTimerCancelled

(* The event loop runs, and slots return. *)
SkewFairness ==
    /\ WF_skewVars(handleTimerCancelled)
    /\ \A n \in Notifiers : WF_skewVars(skewed(n))

-----------------------------------------------------------------------------
(* Properties. *)

(* The engine lives exactly as long as an active notifier holds it, only      *)
(* active notifiers are told of a change, and every active notifier that    *)
(* has the engine is told of every change or is going to be, whatever      *)
(* slots of the others do meanwhile.                                       *)
EngineShared ==
    /\ exists <=> holders # {}
    /\ holders \subseteq isActive /\ connected = holders
    /\ telling \subseteq isActive
    /\ \A n \in owed : readable \/ n \in telling
=============================================================================
