----------------------------- MODULE KDirWatch -----------------------------
(***************************************************************************)
(* The KDirWatchPrivate of one thread (kdirwatch.cpp, kdirwatch_p.h): the  *)
(* watched entries with their clients, the inotify watches, polling, the   *)
(* rescan timer and deferred removal, between a file system that others    *)
(* change at any time and KDirWatch instances that use it.                 *)
(*                                                                         *)
(* Handlers run one at a time, in the event loop; each is an action.  What *)
(* a handler does is an operator from states s of the watcher to states.   *)
(* The kernel queues events for watched objects; signals to the instances  *)
(* are posted (Qt::QueuedConnection) and delivered later.                  *)
(*                                                                         *)
(* Client::pending is left out: nothing ever sets it.  Entries are polled  *)
(* at every rescan (msecLeft).  IN_IGNORED events find no entry.           *)
(***************************************************************************)
EXTENDS Integers, Sequences, FiniteSets, SequencesExt

CONSTANTS
    Paths,          \* the paths as a sequence, sorted as in m_mapEntries:
                    \*   parents before what is in them; the root is first
    Parent,         \* the directory of every path but the root
    NfsPaths,       \* what KFileSystemType says is on NFS
    Instances,      \* KDirWatch objects
    Watchable,      \* the paths they add
    ModeChoices,    \* what they pass as watchModes
    NotifyChoices,  \* what they pass to startScan()
    MaxWatches,     \* fs.inotify.max_user_watches
    MaxChanges,     \* bound on the changes of the file system
    MaxCalls,       \* bound on the calls of the instances
    MaxTime         \* bound on the clock, in seconds

PathSet == ToSet(Paths)
Root == Paths[1]
Children(p) == {c \in PathSet \ {Root} : Parent[c] = p}

ASSUME PathAssumption ==
    /\ \A n \in 2 .. Len(Paths) : \E m \in 1 .. n - 1 : Parent[Paths[n]] = Paths[m]
    /\ NfsPaths \subseteq PathSet /\ Watchable \subseteq PathSet
    /\ ModeChoices \subseteq SUBSET {"WatchFiles", "WatchSubDirs"}
    /\ {MaxWatches, MaxChanges, MaxCalls, MaxTime} \subseteq Nat

VARIABLES
    fs,             \* what is at every path: NoObject, or its number, kind, ctime
    now,            \* the clock of the file system
    queue,          \* events of the kernel that have not been read
    s,              \* the KDirWatchPrivate, see Fresh below
    posted,         \* signals posted to instances
    alive,          \* the instances that exist
    known,          \* what an instance has found when it last looked at a path
    paused,         \* history: entries whose clients were all stopped at a time
    moved,          \* history: watched paths whose object went elsewhere
    met,            \* history: the objects that KDirWatchPrivate has found
    changes, calls  \* how many there have been

vars == <<fs, now, queue, s, posted, alive, known, paused, moved, met, changes, calls>>

NoObject == [obj |-> 0, isDir |-> FALSE, ctime |-> 0]
Invalid == -1       \* invalid_ctime, and no watch descriptor
Nobody == "nullptr"

Exists(p) == fs[p].obj # 0
nlink(p) == IF fs[p].isDir
            THEN 2 + Cardinality({c \in Children(p) : fs[c].isDir}) ELSE 1

(* What a client can tell of a path: times are in seconds. *)
Version(p) == <<fs[p].obj, fs[p].ctime>>
Gone == <<NoObject.obj, NoObject.ctime>>

(* A KDirWatchPrivate without entries.  out collects the signals a handler  *)
(* posts; watches are the kernel's, from descriptors to objects.           *)
Fresh ==
    [entries |-> <<>>, wdToEntry |-> <<>>, watches |-> <<>>, lastWd |-> 0,
     removeList |-> {}, delayRemove |-> FALSE, removePosted |-> FALSE,
     rescan |-> FALSE, cList |-> {}, statEntries |-> 0, polling |-> FALSE,
     isStopped |-> FALSE, out |-> <<>>]

Without(f, x) == [y \in DOMAIN f \ {x} |-> f[y]]
With(f, x, v) == [y \in DOMAIN f \cup {x} |-> IF y = x THEN v ELSE f[y]]

Has(t, p) == p \in DOMAIN t.entries
isValid(e) == DOMAIN e.clients # {} \/ e.subs # {}
findSubEntry(e, p) == p \in e.subs

(* What an entry can be, and how it can be watched: QFSWatchMode is that of   *)
(* systems without inotify.                                                *)
entryStatus == {"Normal", "NonExistent"}
entryMode == {"Unknown", "Stat", "INotify"}

Client(modes, stopped) == [count |-> 1, modes |-> modes, stopped |-> stopped]

(* The instances of S in the order in which their signals are posted. *)
Ordered(S) == SetToSeq(S)

-----------------------------------------------------------------------------
(* Operators on the state of the watcher. *)

addClient(t, p, i, modes) ==
    [t EXCEPT !.entries[p].clients =
        IF i = Nobody THEN @
        ELSE IF i \in DOMAIN @
             THEN [@ EXCEPT ![i].count = @ + 1, ![i].modes = modes]
             ELSE With(@, i, Client(modes, t.isStopped))]

(* Mutant: a client that is counted down to zero stays. *)
removeClient_NotErased(t, p, i) ==
    [t EXCEPT !.entries[p].clients =
        IF i \notin DOMAIN @ THEN @ ELSE [@ EXCEPT ![i].count = @ - 1]]

removeClient(t, p, i) ==
    [t EXCEPT !.entries[p].clients =
        IF i \notin DOMAIN @ THEN @
        ELSE IF @[i].count = 1 THEN Without(@, i)
             ELSE [@ EXCEPT ![i].count = @ - 1]]

(* emitEvent(): one signal for each kind of event, to every client of p     *)
(* that is not stopped.  about is the path the signals name.               *)
emitEvent(t, p, kinds, about) ==
    LET to == Ordered({i \in DOMAIN t.entries[p].clients :
                         ~t.entries[p].clients[i].stopped})
        for(i) == [k \in 1 .. Len(kinds) |-> [to |-> i, kind |-> kinds[k], path |-> about]]
    IN [t EXCEPT !.out = @ \o FlattenSeq([n \in 1 .. Len(to) |-> for(to[n])])]

(* useStat(): poll; the first polled entry starts the timer. *)
useStat(t, p) ==
    IF t.entries[p].mode = "Stat" THEN t
    ELSE [t EXCEPT !.entries[p].mode = "Stat",
                   !.statEntries = @ + 1,
                   !.polling = (@ \/ t.statEntries = 0)]

(* inotify_add_watch(): an object that is watched keeps its descriptor. *)
inotify_add_watch(t, p) ==
    LET old == {wd \in DOMAIN t.watches : t.watches[wd] = fs[p].obj}
        wd == IF old # {} THEN CHOOSE d \in old : TRUE ELSE t.lastWd + 1
    IN [t EXCEPT !.watches = With(@, wd, fs[p].obj),
                 !.lastWd = IF old # {} THEN @ ELSE wd,
                 !.wdToEntry = With(@, wd, p),
                 !.entries[p].wd = wd]

CanWatch(t, p) ==
    Exists(p) /\ (Cardinality(DOMAIN t.watches) < MaxWatches
                    \/ \E wd \in DOMAIN t.watches : t.watches[wd] = fs[p].obj)

NewEntry(p, isDir, subs) ==
    [clients |-> <<>>, subs |-> subs, mode |-> "Unknown", wd |-> Invalid,
     dirty |-> FALSE, pendingFileChanges |-> {},
     isDir |-> IF Exists(p) THEN fs[p].isDir ELSE isDir,
     status |-> IF Exists(p) THEN "Normal" ELSE "NonExistent",
     ctime |-> IF Exists(p) THEN fs[p].ctime ELSE Invalid,
     ino |-> fs[p].obj,
     nlink |-> IF Exists(p) THEN nlink(p) ELSE 0]

RECURSIVE addEntry(_, _, _, _, _, _)

(* useINotify(): an entry that does not exist waits in the entry of its       *)
(* parent; polling is what is left when the kernel refuses the watch.      *)
useINotify(t, p) ==
    LET u == [t EXCEPT !.entries[p].wd = Invalid, !.entries[p].dirty = FALSE,
                       !.entries[p].mode = "INotify"]
    IN IF t.entries[p].status = "NonExistent" /\ p # Root
       THEN addEntry(u, Nobody, Parent[p], {p}, TRUE, {})
       ELSE IF CanWatch(t, p) THEN inotify_add_watch(u, p)
       ELSE useStat(u, p)

addWatch(t, p) == IF p \in NfsPaths THEN useStat(t, p) ELSE useINotify(t, p)

(* addEntry(): for a client i, or (subs) for an entry that does not exist.   *)
(* A directory to be watched with its subdirectories adds those as well;   *)
(* files in it are left to inotify.                                        *)
addEntry(t, i, p, subs, isDir, modes) ==
    IF Has(t, p)
    THEN IF subs # {} THEN [t EXCEPT !.entries[p].subs = @ \cup subs]
                      ELSE addClient(t, p, i, modes)
    ELSE LET e == NewEntry(p, isDir, subs)
             kept == IF Exists(p) /\ ~e.isDir THEN {} ELSE modes
             u == addClient([t EXCEPT !.entries = With(@, p, e)], p, i, kept)
             below == IF e.isDir /\ Exists(p) /\ "WatchSubDirs" \in kept
                      THEN SetToSeq({c \in Children(p) : fs[c].isDir}) ELSE <<>>
         IN addWatch(FoldLeft(LAMBDA v, c : addEntry(v, i, c, {}, TRUE, kept), u, below), p)

(* Mutant: the descriptor stays in the table. *)
removeWatch_KeepsTable(t, p) ==
    IF t.entries[p].mode # "INotify" THEN t
    ELSE [t EXCEPT !.watches = Without(@, t.entries[p].wd)]

removeWatch(t, p) ==
    LET wd == t.entries[p].wd
    IN IF t.entries[p].mode # "INotify" THEN t
       ELSE [t EXCEPT !.wdToEntry = Without(@, wd), !.watches = Without(@, wd)]

RECURSIVE removeEntry(_, _, _, _)

(* removeEntry(): client i, or the waiting entry sub, no longer needs p.    *)
(* Nothing leaves the map while delayRemove is set.                        *)
removeEntry(t, i, p, subs) ==
    IF ~Has(t, p) THEN t
    ELSE LET u == removeClient([t EXCEPT !.removeList = @ \ {p},
                                         !.entries[p].subs = @ \ subs], p, i)
             e == u.entries[p]
             v == IF e.status = "Normal" THEN removeWatch(u, p)
                  ELSE IF p = Root THEN u ELSE removeEntry(u, Nobody, Parent[p], {p})
             last == e.mode = "Stat" /\ v.statEntries = 1
         IN IF isValid(e) THEN u
            ELSE IF u.delayRemove THEN [u EXCEPT !.removeList = @ \cup {p}]
            ELSE [v EXCEPT !.statEntries = IF e.mode = "Stat" THEN @ - 1 ELSE @,
                           !.polling = (@ /\ ~last),
                           !.wdToEntry = Without(@, e.wd),
                           !.entries = Without(@, p)]

(* Mutant: the parent keeps the pointer to the entry that was waiting. *)
NoLongerWaits_Stays(t, p) ==
    t

(* The entry has been found to exist: it waits in its parent no longer. *)
NoLongerWaits(t, p) ==
    IF p = Root THEN t ELSE removeEntry(t, Nobody, Parent[p], {p})

(* scanEntry(): the new state of the watcher, and the events as a sequence.  *)
(* The link count is not set for an entry that has just been created.      *)
scanEntry(t, p) ==
    LET e == t.entries[p]
        u == IF e.mode = "INotify" THEN [t EXCEPT !.entries[p].dirty = FALSE] ELSE t
        Differs == e.ctime # fs[p].ctime \/ e.ino # fs[p].obj \/ e.nlink # nlink(p)
        seen == [u EXCEPT !.entries[p].ctime = fs[p].ctime, !.entries[p].nlink = nlink(p)]
    IN CASE e.mode = "INotify" /\ ~e.dirty -> [s |-> t, ev |-> <<>>]
         [] Exists(p) /\ e.status = "NonExistent" ->
              [s |-> NoLongerWaits([u EXCEPT !.entries[p].ctime = fs[p].ctime,
                                             !.entries[p].status = "Normal",
                                             !.entries[p].ino = fs[p].obj], p),
               ev |-> <<"created">>]
         [] Exists(p) /\ (e.ctime = Invalid \/ ~Differs) -> [s |-> u, ev |-> <<>>]
         [] Exists(p) /\ e.ino = fs[p].obj -> [s |-> seen, ev |-> <<"dirty">>]
         [] Exists(p) ->
              [s |-> [addWatch(removeWatch(seen, p), p) EXCEPT !.entries[p].ino = fs[p].obj],
               ev |-> <<"deleted", "created">>]
         [] OTHER ->
              [s |-> [u EXCEPT !.entries[p].nlink = 0, !.entries[p].ino = 0,
                               !.entries[p].status = "NonExistent",
                               !.entries[p].ctime = Invalid],
               ev |-> IF e.ctime = Invalid THEN <<>> ELSE <<"deleted">>]

(* The clients that asked for what an event in a directory is about. *)
Interested(e, isDir) ==
    {i \in DOMAIN e.clients :
        (IF isDir THEN "WatchSubDirs" ELSE "WatchFiles") \in e.clients[i].modes}

-----------------------------------------------------------------------------
(* inotifyEventReceived(): processEvent for each kind of event. *)

(* IN_DELETE_SELF: the entry waits in its parent for its path to come back. *)
DeleteSelf(t, p) ==
    LET u == emitEvent([t EXCEPT !.entries[p].status = "NonExistent",
                                 !.entries[p].wd = Invalid,
                                 !.entries[p].ctime = Invalid,
                                 !.wdToEntry = Without(@, t.entries[p].wd)],
                       p, <<"deleted">>, p)
        v == IF Has(u, Parent[p]) THEN [u EXCEPT !.entries[Parent[p]].dirty = TRUE] ELSE u
    IN IF p = Root THEN u ELSE addEntry(v, Nobody, Parent[p], {p}, TRUE, {})

(* IN_CREATE, IN_MOVED_TO: an entry that waits is scanned soon; a new        *)
(* directory is added for the clients that watch subdirectories.           *)
Created(t, p, name, isDir) ==
    LET e == t.entries[p]
        for == Interested(e, isDir)
        Add(u, i) == addEntry(u, i, name, {}, TRUE, e.clients[i].modes)
        u == IF isDir THEN FoldLeft(Add, t, Ordered(for)) ELSE t
        v == IF for # {} THEN emitEvent(u, p, <<"created">>, name) ELSE u
    IN IF findSubEntry(e, name) THEN [t EXCEPT !.entries[name].dirty = TRUE]
       ELSE IF e.isDir /\ DOMAIN e.clients # {}
            THEN [v EXCEPT !.entries[p].pendingFileChanges = @ \cup {p}]
       ELSE t

(* IN_DELETE, IN_MOVED_FROM *)
Removed(t, p, name, isDir) ==
    LET e == t.entries[p]
    IN IF e.isDir /\ Interested(e, isDir) # {}
       THEN emitEvent(t, p, <<"deleted">>, name) ELSE t

(* Mutant: does not ask whether the entry is a directory. *)
Modified_FilesToo(t, p, name, wasDirty, attrib) ==
    IF DOMAIN t.entries[p].clients = {} THEN t
    ELSE [t EXCEPT !.entries[p].pendingFileChanges = @ \cup {name},
                   !.entries[p].dirty = (wasDirty \/ (name = p /\ attrib))]

(* IN_MODIFY, IN_ATTRIB: of the watched path itself when name is p; the     *)
(* signal then has a slash at its end, which is left out here.             *)
Modified(t, p, name, wasDirty, attrib) ==
    LET e == t.entries[p]
    IN IF e.isDir /\ DOMAIN e.clients # {}
       THEN [t EXCEPT !.entries[p].pendingFileChanges = @ \cup {name},
                      !.entries[p].dirty = (wasDirty \/ (name = p /\ attrib))]
       ELSE t

processEvent(t, event) ==
    IF event.wd \notin DOMAIN t.wdToEntry THEN t
    ELSE LET p == t.wdToEntry[event.wd]
             wasDirty == t.entries[p].dirty
             u == [t EXCEPT !.entries[p].dirty = TRUE, !.rescan = TRUE]
         IN CASE event.mask = "DELETE_SELF" -> DeleteSelf(u, p)
              [] event.mask = "CREATE" -> Created(u, p, event.name, event.isDir)
              [] event.mask = "DELETE" -> Removed(u, p, event.name, event.isDir)
              [] event.mask \in {"MODIFY", "ATTRIB"} ->
                   Modified(u, p, event.name, wasDirty, event.mask = "ATTRIB")
              [] OTHER -> u

(* All that is pending is read, and each event is processed in turn.  The queue *)
(* of the kernel does not overflow here.                                   *)
ReadPending(t) == FoldLeft(processEvent, t, queue)

-----------------------------------------------------------------------------
(* slotRescan() *)

(* Mutant: the entries that wait are not scanned. *)
propagate_dirty_Not(t) ==
    t

(* propagate_dirty(): from the inotify entries that are dirty to the entries *)
(* that wait in them and were not, to those that wait in these, and so on. *)
propagate_dirty(t) ==
    LET Waits(p) == p # Root /\ Has(t, Parent[p]) /\ findSubEntry(t.entries[Parent[p]], p)
        spreads[p \in PathSet] ==
            Has(t, p) /\ IF t.entries[p].dirty THEN t.entries[p].mode = "INotify"
                         ELSE Waits(p) /\ spreads[Parent[p]]
    IN [t EXCEPT !.entries = [p \in DOMAIN @ |->
           [@[p] EXCEPT !.dirty = @ \/ (Waits(p) /\ spreads[Parent[p]])]]]

(* The follow-up of a scan in inotify mode: wait for what was deleted, watch *)
(* what was created.  cList collects the latter.                           *)
FollowUp(t, p, ev) ==
    IF t.entries[p].mode # "INotify" THEN t
    ELSE IF ev = <<"deleted">> /\ p # Root
         THEN addEntry(t, Nobody, Parent[p], {p}, TRUE, {})
    ELSE IF ev = <<"created">> /\ t.entries[p].wd = Invalid
         THEN [addWatch(t, p) EXCEPT !.cList = @ \cup {p}]
    ELSE t

ScanOne(t, p) ==
    IF ~Has(t, p) \/ ~isValid(t.entries[p]) THEN t
    ELSE LET scan == scanEntry(t, p)
             u == FollowUp(scan.s, p, scan.ev)
             changed == IF u.entries[p].isDir
                        THEN Ordered(u.entries[p].pendingFileChanges) ELSE <<>>
             v == FoldLeft(LAMBDA w, name : emitEvent(w, p, <<"dirty">>, name), u, changed)
         IN emitEvent([v EXCEPT !.entries[p].pendingFileChanges =
                                    IF u.entries[p].isDir THEN {} ELSE @],
                      p, scan.ev, p)

Rescanned(t) ==
    LET u == FoldLeft(ScanOne,
                      [propagate_dirty(t) EXCEPT !.delayRemove = TRUE, !.cList = {}], Paths)
        v == FoldLeft(LAMBDA w, p : IF p \in u.cList THEN NoLongerWaits(w, p) ELSE w,
                      u, Paths)
    IN [v EXCEPT !.cList = {}, !.removePosted = TRUE]

(* Mutant: the list is cleared without removing its entries. *)
RemovedDelayed_OnlyClears(t) ==
    [t EXCEPT !.delayRemove = FALSE, !.removePosted = FALSE, !.removeList = {}]

RemovedDelayed(t) ==
    FoldLeft(LAMBDA u, p : IF p \in u.removeList THEN removeEntry(u, Nobody, p, {}) ELSE u,
             [t EXCEPT !.delayRemove = FALSE, !.removePosted = FALSE],
             Paths)

-----------------------------------------------------------------------------
(* Stopping and restarting. *)

StillWatching(t, i, p) ==
    {j \in DOMAIN t.entries[p].clients \ {i} : ~t.entries[p].clients[j].stopped}

stopEntryScan(t, i, p) ==
    LET cs == t.entries[p].clients
    IN [t EXCEPT !.entries[p].clients =
                    [j \in DOMAIN cs |-> [cs[j] EXCEPT !.stopped = (@ \/ j = i)]],
                 !.entries[p].ctime =
                    IF StillWatching(t, i, p) = {} THEN Invalid ELSE @]

(* restartEntryScan(): without notify, the entry takes over what there is    *)
(* now; with it, it is scanned.                                            *)
restartEntryScan(t, i, p, notify) ==
    LET cs == t.entries[p].clients
        u == [t EXCEPT !.entries[p].clients[i].stopped = FALSE]
        v == IF notify THEN u
             ELSE IF Exists(p)
             THEN NoLongerWaits([u EXCEPT !.entries[p].ctime = fs[p].ctime,
                                          !.entries[p].status = "Normal",
                                          !.entries[p].nlink = nlink(p),
                                          !.entries[p].ino = fs[p].obj], p)
             ELSE [u EXCEPT !.entries[p].ctime = Invalid,
                            !.entries[p].status = "NonExistent",
                            !.entries[p].nlink = 0]
        scan == scanEntry(v, p)
    IN IF i \notin DOMAIN cs \/ ~cs[i].stopped THEN t
       ELSE IF StillWatching(t, i, p) # {} THEN u
       ELSE emitEvent(scan.s, p, scan.ev, p)

(* The entries of the map in its order; one may be gone when its turn comes. *)
EntriesOf(t) == SelectSeq(Paths, LAMBDA p : Has(t, p))

-----------------------------------------------------------------------------
(* Actions. *)

(* A handler or call ends in state t; the signals it posted are queued.     *)
Commit(t, nowPaused) ==
    /\ s' = [t EXCEPT !.out = <<>>]
    /\ posted' = posted \o t.out
    /\ paused' = (paused \cup nowPaused) \cap DOMAIN t.entries
    /\ moved' = moved \cap DOMAIN t.entries
    /\ met' = met \cup {t.entries[p].ino : p \in DOMAIN t.entries}

(* The instance looks at p, and at what is in it. *)
Look(i, p) ==
    known' = [known EXCEPT ![i] =
        [q \in PathSet |-> IF q = p \/ q \in Children(p) THEN Version(q) ELSE @[q]]]

Handles == UNCHANGED <<fs, now, alive, known, changes, calls>>

inotifyEventReceived ==
    /\ queue # <<>>
    /\ Commit(ReadPending(s), {})
    /\ queue' = <<>>
    /\ Handles

RescanTimeout ==
    /\ s.rescan
    /\ Commit([Rescanned(s) EXCEPT !.rescan = FALSE], {})
    /\ UNCHANGED queue /\ Handles

(* The timer of polled entries, which goes on running. *)
PollTimeout ==
    /\ s.polling
    /\ Commit(Rescanned(s), {})
    /\ UNCHANGED queue /\ Handles

slotRemoveDelayed ==
    /\ s.removePosted
    /\ Commit(RemovedDelayed(s), {})
    /\ UNCHANGED queue /\ Handles

(* A posted signal is emitted: the application takes deleted() at its word,  *)
(* and looks at the path of another signal.                                *)
Deliver ==
    /\ posted # <<>>
    /\ LET m == Head(posted)
       IN IF m.kind # "deleted" THEN Look(m.to, m.path)
          ELSE known' = [known EXCEPT ![m.to][m.path] = Gone]
    /\ posted' = Tail(posted)
    /\ UNCHANGED <<fs, now, queue, s, alive, paused, moved, met, changes, calls>>

-----------------------------------------------------------------------------
(* Calls of an instance, from the event loop or from a slot. *)

Call(i) ==
    /\ i \in alive
    /\ calls < MaxCalls /\ calls' = calls + 1
    /\ UNCHANGED <<fs, now, queue, alive, changes>>

Uses(i) == UNCHANGED known /\ Call(i)

(* The application looks at what it starts to watch. *)
addDir(i, p, modes) ==
    /\ Commit(addEntry(s, i, p, {}, TRUE, modes), {})
    /\ Look(i, p) /\ Call(i)

addFile(i, p) ==
    /\ Commit(addEntry(s, i, p, {}, FALSE, {}), {})
    /\ Look(i, p) /\ Call(i)

(* removeDir() and removeFile() *)
remove(i, p) ==
    /\ Has(s, p)
    /\ Commit(removeEntry(s, i, p, {}), {})
    /\ Uses(i)

(* Entries that nobody is going to watch any more when i stops. *)
Pauses(i, p) == IF StillWatching(s, i, p) = {} THEN {p} ELSE {}

stopDirScan(i, p) ==
    /\ Has(s, p) /\ s.entries[p].isDir
    /\ Commit(stopEntryScan(s, i, p), Pauses(i, p))
    /\ UNCHANGED known /\ Call(i)

(* Applications restart when they have refreshed the path. *)
restartDirScan(i, p) ==
    /\ Has(s, p) /\ s.entries[p].isDir
    /\ Commit(restartEntryScan(s, i, p, FALSE), {})
    /\ Look(i, p) /\ Call(i)

stopScan(i) ==
    LET stopped == FoldLeft(LAMBDA t, p : stopEntryScan(t, i, p), s, EntriesOf(s))
    IN /\ Commit([stopped EXCEPT !.isStopped = TRUE],
                 UNION {Pauses(i, p) : p \in DOMAIN s.entries})
       /\ Uses(i)

(* Without notify, the application has looked at everything itself. *)
startScan(i, notify) ==
    LET restarted == FoldLeft(LAMBDA t, p : restartEntryScan(t, i, p, notify), s, EntriesOf(s))
    IN /\ Commit([restarted EXCEPT !.isStopped = FALSE], {})
       /\ known' = IF notify THEN known
                   ELSE [known EXCEPT ![i] = [q \in PathSet |-> Version(q)]]
       /\ Call(i)

contains(i, p) == Has(s, p) /\ i \in DOMAIN s.entries[p].clients

Construct(i) ==
    /\ i \notin alive
    /\ alive' = alive \cup {i}
    /\ calls < MaxCalls /\ calls' = calls + 1
    /\ UNCHANGED <<fs, now, queue, s, posted, known, paused, moved, met, changes>>

(* removeEntries(): i is no longer a client of any entry, however often it    *)
(* was added to it.                                                        *)
removeEntries(t, i) ==
    LET Leave(u, p) == IF i \in DOMAIN u.entries[p].clients
                       THEN removeEntry([u EXCEPT !.entries[p].clients[i].count = 1], i, p, {})
                       ELSE u
    IN FoldLeft(LAMBDA u, p : IF Has(u, p) THEN Leave(u, p) ELSE u, t, EntriesOf(t))

(* ~KDirWatchPrivate(): closing the inotify descriptor ends the watches, and    *)
(* entries, timers and what is posted to it go; the next one starts anew.    *)
NoPrivate == Fresh

(* unref(): the last instance to go destroys the KDirWatchPrivate. *)
unref(t, i) == IF alive = {i} THEN NoPrivate ELSE t

(* ~KDirWatch() *)
Destroy(i) ==
    LET t == unref(removeEntries(s, i), i)
    IN /\ i \in alive
       /\ alive' = alive \ {i}
       /\ calls < MaxCalls /\ calls' = calls + 1
       /\ s' = t
       /\ posted' = SelectSeq(posted, LAMBDA m : m.to # i)
       /\ queue' = IF alive = {i} THEN <<>> ELSE queue
       /\ paused' = paused \cap DOMAIN t.entries
       /\ moved' = moved \cap DOMAIN t.entries
       /\ UNCHANGED <<fs, now, known, met, changes>>

-----------------------------------------------------------------------------
(* The file system and its inotify events (external). *)

(* One event for the watch of an object, if it has one; the kernel merges    *)
(* an event with an equal one at the end of the queue.                     *)
Told(q, obj, mask, name, isDir) ==
    LET wds == {wd \in DOMAIN s.watches : s.watches[wd] = obj}
        event == [wd |-> CHOOSE wd \in wds : TRUE, mask |-> mask, name |-> name, isDir |-> isDir]
    IN IF wds = {} \/ (q # <<>> /\ Last(q) = event) THEN q ELSE Append(q, event)

Change ==
    /\ changes < MaxChanges /\ changes' = changes + 1
    /\ UNCHANGED <<now, posted, alive, known, paused, met, calls>>

(* An object dies: its watches end, and the file system has version f. *)
Dies(obj) == s' = [s EXCEPT !.watches =
    LET old == @ IN [wd \in {x \in DOMAIN old : old[x] # obj} |-> old[wd]]]

Touched(f, p) == IF p = Root THEN f ELSE [f EXCEPT ![Parent[p]].ctime = now]

(* A file or directory is made, or a file is renamed over another. *)
Make(p, isDir) ==
    LET made == [obj |-> Len(Paths) + changes + 1, isDir |-> isDir, ctime |-> now]
        q == Told(queue, fs[Parent[p]].obj, "CREATE", p, isDir)
    IN /\ p # Root /\ fs[Parent[p]].isDir
       /\ Exists(p) => ~isDir /\ ~fs[p].isDir
       /\ fs' = [Touched(fs, p) EXCEPT ![p] = made]
       /\ queue' = IF Exists(p) THEN Told(q, fs[p].obj, "DELETE_SELF", p, FALSE) ELSE q
       /\ IF Exists(p) THEN Dies(fs[p].obj) ELSE UNCHANGED s
       /\ UNCHANGED moved
       /\ Change

Delete(p) ==
    /\ p # Root /\ Exists(p)
    /\ \A c \in Children(p) : ~Exists(c)
    /\ fs' = [Touched(fs, p) EXCEPT ![p] = NoObject]
    /\ queue' = Told(Told(queue, fs[Parent[p]].obj, "DELETE", p, fs[p].isDir),
                     fs[p].obj, "DELETE_SELF", p, fs[p].isDir)
    /\ Dies(fs[p].obj)
    /\ UNCHANGED moved
    /\ Change

(* A file is written to, or the attributes of a directory change. *)
Modify(p) ==
    LET mask == IF fs[p].isDir THEN "ATTRIB" ELSE "MODIFY"
    IN /\ p # Root /\ Exists(p)
       /\ fs' = [fs EXCEPT ![p].ctime = now]
       /\ queue' = Told(Told(queue, fs[Parent[p]].obj, mask, p, fs[p].isDir),
                        fs[p].obj, mask, p, fs[p].isDir)
       /\ UNCHANGED <<s, moved>>
       /\ Change

(* An object leaves its path and lives on: it is renamed, or unlinked while  *)
(* another link or process holds it.  Its watch goes with it.              *)
MoveAway(p) ==
    LET gone == {q \in PathSet : q = p \/ (q # Root /\ Parent[q] = p)}
    IN /\ p # Root /\ Exists(p)
       /\ fs' = [q \in PathSet |-> IF q \in gone THEN NoObject ELSE Touched(fs, p)[q]]
       /\ queue' = Told(Told(queue, fs[Parent[p]].obj, "DELETE", p, fs[p].isDir),
                        fs[p].obj, "MOVE_SELF", p, fs[p].isDir)
       /\ moved' = moved \cup (gone \cap DOMAIN s.entries)
       /\ UNCHANGED s
       /\ Change

(* Time matters only between a change of what is watched and another change. *)
Tick ==
    /\ now < MaxTime /\ changes < MaxChanges
    /\ \E p \in DOMAIN s.entries : fs[p].ctime = now
    /\ now' = now + 1
    /\ UNCHANGED <<fs, queue, s, posted, alive, known, paused, moved, met, changes, calls>>

-----------------------------------------------------------------------------
(* Init, which has any tree, and the specification. *)

Trees ==
    {f \in [PathSet -> {NoObject} \cup {[obj |-> n, isDir |-> d, ctime |-> 0] :
                                          n \in 1 .. Len(Paths), d \in BOOLEAN}] :
        /\ f[Root].isDir
        /\ \A n \in 1 .. Len(Paths) : f[Paths[n]].obj \in {0, n}
        /\ \A p \in PathSet \ {Root} : f[p].obj # 0 => f[Parent[p]].isDir
        /\ \A p \in PathSet : Children(p) # {} /\ f[p].obj # 0 => f[p].isDir}

Init ==
    /\ fs \in Trees
    /\ now = 1
    /\ queue = <<>> /\ posted = <<>>
    /\ s = Fresh
    /\ alive = {}
    /\ known = [i \in Instances |-> [p \in PathSet |-> Gone]]
    /\ paused = {} /\ moved = {} /\ met = {}
    /\ changes = 0 /\ calls = 0

CallOf(i) ==
    \/ \E p \in Watchable, modes \in ModeChoices : addDir(i, p, modes)
    \/ \E p \in Watchable : addFile(i, p) \/ remove(i, p)
    \/ \E p \in Watchable : stopDirScan(i, p) \/ restartDirScan(i, p)
    \/ stopScan(i)
    \/ \E notify \in NotifyChoices : startScan(i, notify)
    \/ Construct(i) \/ Destroy(i)

FileSystem ==
    \/ \E p \in PathSet, isDir \in BOOLEAN : Make(p, isDir)
    \/ \E p \in PathSet : Delete(p) \/ Modify(p) \/ MoveAway(p)
    \/ Tick

Next ==
    \/ inotifyEventReceived \/ RescanTimeout \/ PollTimeout \/ slotRemoveDelayed
    \/ Deliver
    \/ \E i \in Instances : CallOf(i)
    \/ FileSystem

(* The event loop gets to every handler that is due; nothing makes the       *)
(* application or the file system act.  Weak fairness of a handler is       *)
(* spelled out where TLC cannot afford to evaluate its ENABLED: that is     *)
(* its guard, as the handler always changes something.                     *)
Fairness ==
    /\ []<>(queue = <<>>) \/ []<><<inotifyEventReceived>>_vars
    /\ []<>(~s.rescan) \/ []<><<RescanTimeout>>_vars
    /\ []<>(~s.polling) \/ []<><<PollTimeout>>_vars
    /\ []<>(~s.removePosted) \/ []<><<slotRemoveDelayed>>_vars
    /\ WF_vars(Deliver)

Spec == Init /\ [][Next]_vars /\ Fairness

-----------------------------------------------------------------------------
(* Properties. *)

EntryTypeOK(e) ==
    /\ DOMAIN e.clients \subseteq Instances
    /\ \A i \in DOMAIN e.clients :
        e.clients[i] \in [count : 1 .. MaxCalls, modes : ModeChoices \cup {{}},
                         stopped : BOOLEAN]
    /\ e.subs \subseteq PathSet /\ e.pendingFileChanges \subseteq PathSet
    /\ e.mode \in entryMode \ {"Unknown"} /\ e.status \in entryStatus
    /\ {e.dirty, e.isDir} \subseteq BOOLEAN
    /\ {e.wd, e.ctime} \subseteq Nat \cup {Invalid} /\ {e.ino, e.nlink} \subseteq Nat

(* Every variable keeps its type between two handlers of KDirWatchPrivate.  *)
TypeOK ==
    /\ DOMAIN s.entries \subseteq PathSet
    /\ \A p \in DOMAIN s.entries : EntryTypeOK(s.entries[p])
    /\ s.removeList \subseteq DOMAIN s.entries
    /\ s.cList = {} /\ s.out = <<>>
    /\ s.statEntries \in Nat
    /\ alive \subseteq Instances
    /\ \A n \in DOMAIN posted : posted[n].to \in alive

(* The raw pointers that entries keep to those that wait in them point to    *)
(* entries of the map that do not exist: what operator<< asserts, and what *)
(* crashed in bug 222974 when a waiting entry was removed or came to exist.*)
SubEntriesSound ==
    \A p \in DOMAIN s.entries : \A c \in s.entries[p].subs :
        /\ c # Root /\ Parent[c] = p
        /\ Has(s, c) /\ s.entries[c].status = "NonExistent"

(* An event finds the entry that holds its descriptor, never one that has    *)
(* left the map or has another descriptor (m_inotify_wd_to_entry).         *)
WatchTableSound ==
    \A wd \in DOMAIN s.wdToEntry :
        LET p == s.wdToEntry[wd] IN Has(s, p) /\ s.entries[p].wd = wd

(* No entry stays behind when nobody needs it: it has a client, another      *)
(* entry waits in it, or slotRemoveDelayed() is going to remove it.        *)
NoOrphans ==
    \A p \in DOMAIN s.entries :
        isValid(s.entries[p]) \/ (p \in s.removeList /\ s.removePosted)

RECURSIVE Above(_)
Above(p) == IF p = Root THEN {p} ELSE {p} \cup Above(Parent[p])

(* p does not depend on anything the code is known to lose: an entry that    *)
(* was stopped or was moved while watched, one that waits in a polled one. *)
Reliable(p) ==
    \A q \in Above(p) :
        /\ q \notin paused \cup moved
        /\ Has(s, q) /\ s.entries[q].subs # {} => s.entries[q].mode = "INotify"

Idle == queue = <<>> /\ ~s.rescan /\ ~s.delayRemove

(* When the watcher is idle every entry in inotify mode holds the watch of   *)
(* the object that is at its path now, or waits in its parent for one.     *)
WatchesCurrent ==
    Idle => \A p \in DOMAIN s.entries :
        s.entries[p].mode = "INotify" /\ isValid(s.entries[p]) /\ Reliable(p) =>
            IF Exists(p)
            THEN /\ s.entries[p].wd \in DOMAIN s.watches
                 /\ s.watches[s.entries[p].wd] = fs[p].obj
                 /\ s.wdToEntry[s.entries[p].wd] = p
            ELSE Has(s, Parent[p]) /\ p \in s.entries[Parent[p]].subs

(* i has asked for p, and has not stopped watching it. *)
Asked(i, p) ==
    /\ i \in alive /\ contains(i, p)
    /\ ~s.entries[p].clients[i].stopped

(* Once the file system and the application are quiet, an instance has been  *)
(* told of all that happened to the paths it watches: the last time it     *)
(* looked, it saw what there is, or what came and went unnoticed.          *)
StaysUpToDate ==
    \A i \in Instances, p \in PathSet :
        <>[](Asked(i, p) /\ Reliable(p) =>
                \/ known[i][p] = Version(p)
                \/ ~Exists(p) /\ known[i][p][1] \notin met)

(* The entries have their types and point to no entry that is not there.    *)
EntriesSound == TypeOK /\ SubEntriesSound
=============================================================================
