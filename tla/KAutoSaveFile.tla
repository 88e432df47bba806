---------------------------- MODULE KAutoSaveFile ----------------------------
(***************************************************************************)
(* Auto-save files (kautosavefile.cpp): KAutoSaveFile objects of several   *)
(* processes, the files in the directory of stale files, and the lock      *)
(* files beside them.  A process may crash between any two steps; others   *)
(* find what it left with staleFiles().                                    *)
(*                                                                         *)
(* open() and releaseLock() work on a file and on its lock one after the   *)
(* other, so each is two steps.  QLockFile is external: a lock may be      *)
(* taken when there is none, when the process that holds it is gone, and,  *)
(* with the stale time of open(), when it is older than a minute, whether  *)
(* or not its process lives.  One URL is edited; random names never clash. *)
(* What the names say of the URL is modelled apart from that, at the end.  *)
(***************************************************************************)
EXTENDS Integers, SequencesExt

CONSTANTS
    Objects,    \* the KAutoSaveFile objects there may be
    Process,    \* the process of each of them
    Names,      \* names tempFileName() gives; bounds the number of files
    Nobody, NoName,
    MaxCrashes, \* bound on the crashes
    LocksAge,   \* locks are held for more than a minute
    ReusesFailed \* clients call setManagedFile() on an object that failed to open()

ASSUME AutoSaveAssumption ==
    /\ MaxCrashes \in Nat /\ LocksAge \in BOOLEAN /\ ReusesFailed \in BOOLEAN
    /\ NoName \notin Names /\ Nobody \notin Objects

VARIABLES
    obj,        \* the state of every object
    disk,       \* the auto-save files that exist
    fresh,      \* names that no file has had yet
    locks,      \* the lock file beside each name: who wrote it, is it alive, is it old
    crashes,
    left,       \* history: files with the unsaved work of a process that crashed
                \* while it held their locks, and that nobody has taken over yet
    raced,      \* history: files that were opened or locked while somebody else
                \* was between dropping the lock and removing the file
    broken      \* history: files whose lock was taken for its age, from a live process

histories == <<left, raced, broken>>
autoVars == <<obj, disk, fresh, locks, crashes, histories>>

NoLock == [on |-> NoName, held |-> FALSE]
NoLockFile == [by |-> Nobody, live |-> FALSE, old |-> FALSE]

(* file: a name, and the handle: closed, open, or open on a removed file;    *)
(* dirty: work was written that the file still holds.                      *)
Gone == [exists |-> FALSE, name |-> NoName, managedFileNameChanged |-> FALSE,
         lock |-> NoLock, handle |-> "closed", dirty |-> FALSE, step |-> "ready"]

AutoProcesses == {Process[f] : f \in Objects}
Using(n) == {f \in Objects : obj[f].exists /\ obj[f].name = n}

(* The objects of a process are used by one thread. *)
Free(f) == \A g \in Objects : Process[g] = Process[f] => obj[g].step = "ready"
Ready(f) == obj[f].exists /\ Free(f)

(* Between the two halves of releaseLock() for a file. *)
Releasing(n) == \E f \in Using(n) : obj[f].step \in {"unlocked", "destroyed"}

(* A file goes away: handles on it stay, on nothing that has a name. *)
Unlinked(objs, n) ==
    [f \in Objects |-> IF objs[f].name = n /\ objs[f].handle = "open"
                       THEN [objs[f] EXCEPT !.handle = "unlinked", !.dirty = FALSE]
                       ELSE objs[f]]

-----------------------------------------------------------------------------
(* KAutoSaveFile(url). *)
Construct(f) ==
    /\ ~obj[f].exists /\ Free(f)
    /\ obj' = [obj EXCEPT ![f] = [Gone EXCEPT !.exists = TRUE,
                                              !.managedFileNameChanged = TRUE]]
    /\ UNCHANGED <<disk, fresh, locks, crashes, histories>>

(* staleFiles(): every file in the directory is a candidate, whether its     *)
(* owner is gone or not.  The process takes one of them.                   *)
staleFiles(f, n) ==
    /\ ~obj[f].exists /\ Free(f)
    /\ n \in disk
    /\ obj' = [obj EXCEPT ![f] = [Gone EXCEPT !.exists = TRUE, !.name = n]]
    /\ UNCHANGED <<disk, fresh, locks, crashes, histories>>

(* open(), first half: a name if there is none, and QFile::open(). *)
OpenFile(f) ==
    /\ Ready(f) /\ obj[f].handle = "closed"
    /\ \E n \in IF obj[f].managedFileNameChanged THEN fresh ELSE {obj[f].name} :
        /\ obj' = [obj EXCEPT ![f].name = n, ![f].managedFileNameChanged = FALSE,
                              ![f].handle = "open", ![f].step = "opened",
                              ![f].lock.on = IF @ = NoName THEN n ELSE @]
        /\ disk' = disk \cup {n}
        /\ fresh' = fresh \ {n}
        /\ raced' = IF Releasing(n) THEN raced \cup {n} ELSE raced
    /\ UNCHANGED <<locks, crashes, left, broken>>

(* Mutant: what tryLock() returns is ignored. *)
Takable_Always(n) == TRUE

(* QLockFile: may the lock on a name be taken?  Not a live one, unless it is *)
(* over a minute old.                                                      *)
Takable(n) == locks[n].by = Nobody \/ ~locks[n].live \/ locks[n].old

(* open(), second half: the lock, or the file is closed again. *)
LockFile(f) ==
    /\ obj[f].step = "opened"
    /\ LET n == obj[f].lock.on IN
       IF obj[f].lock.held \/ Takable(n)
       THEN /\ obj' = [obj EXCEPT ![f].lock.held = TRUE, ![f].step = "ready"]
            /\ IF obj[f].lock.held
               THEN UNCHANGED <<locks, broken>>
               ELSE /\ locks' = [locks EXCEPT ![n] = [by |-> f, live |-> TRUE, old |-> FALSE]]
                    /\ broken' = IF locks[n].live /\ locks[n].old THEN broken \cup {n} ELSE broken
            /\ left' = left \ {obj[f].name}
       ELSE /\ obj' = [obj EXCEPT ![f].handle = "closed", ![f].step = "ready"]
            /\ UNCHANGED <<locks, broken, left>>
    /\ raced' = IF Releasing(obj[f].name) THEN raced \cup {obj[f].name} ELSE raced
    /\ UNCHANGED <<disk, fresh, crashes>>

(* The application saves its unsaved work, after open() has succeeded. *)
Write(f) ==
    /\ Ready(f) /\ obj[f].lock.held /\ obj[f].handle # "closed"
    /\ obj' = [obj EXCEPT ![f].dirty = (obj[f].handle = "open")]
    /\ UNCHANGED <<disk, fresh, locks, crashes, histories>>

(* The document is saved: remove() of the auto-save file, which stays locked *)
(* ("it's safe to delete the file and recreate it later").                 *)
RemoveFile(f) ==
    /\ Ready(f) /\ obj[f].lock.held /\ obj[f].handle # "closed"
    /\ obj' = [Unlinked(obj, obj[f].name) EXCEPT ![f].handle = "closed", ![f].dirty = FALSE]
    /\ disk' = disk \ {obj[f].name}
    /\ left' = left \ {obj[f].name}
    /\ UNCHANGED <<fresh, locks, crashes, raced, broken>>

-----------------------------------------------------------------------------
(* Mutant: the file is removed although the lock is not held. *)
releaseLock_Unheld(f, changed, exists) ==
    /\ obj' = [obj EXCEPT ![f].lock = NoLock, ![f].managedFileNameChanged = changed,
                          ![f].step = IF exists THEN "unlocked" ELSE "destroyed"]
    /\ locks' = IF obj[f].lock.held
                THEN [locks EXCEPT ![obj[f].lock.on] = NoLockFile] ELSE locks

(* releaseLock() of an object that holds a lock, first half: the lock file   *)
(* goes, whoever has written it.  Without a lock nothing happens.  What    *)
(* setManagedFile() and the destructor do next is done here.               *)
releaseLock(f, changed, exists) ==
    IF obj[f].lock.held
    THEN /\ obj' = [obj EXCEPT ![f].lock = NoLock, ![f].managedFileNameChanged = changed,
                               ![f].step = IF exists THEN "unlocked" ELSE "destroyed"]
         /\ locks' = [locks EXCEPT ![obj[f].lock.on] = NoLockFile]
    ELSE /\ obj' = [obj EXCEPT ![f] = IF exists
                                      THEN [@ EXCEPT !.managedFileNameChanged = changed]
                                      ELSE Gone]
         /\ UNCHANGED locks

(* releaseLock() called by the application. *)
Release(f) ==
    /\ Ready(f) /\ obj[f].lock.held
    /\ releaseLock(f, obj[f].managedFileNameChanged, TRUE)
    /\ UNCHANGED <<disk, fresh, crashes, histories>>

setManagedFile(f) ==
    /\ Ready(f)
    /\ ReusesFailed \/ obj[f].lock = NoLock \/ obj[f].lock.held
    /\ releaseLock(f, TRUE, TRUE)
    /\ UNCHANGED <<disk, fresh, crashes, histories>>

(* ~KAutoSaveFile(). *)
Destroy(f) ==
    /\ Ready(f)
    /\ releaseLock(f, FALSE, FALSE)
    /\ UNCHANGED <<disk, fresh, crashes, histories>>

(* Mutant: the file is closed, and stays. *)
RemoveReleased_Keeps(f) ==
    /\ obj[f].step \in {"unlocked", "destroyed"}
    /\ obj' = [obj EXCEPT ![f] = IF @.step = "destroyed" THEN Gone
                                 ELSE [@ EXCEPT !.handle = "closed", !.dirty = FALSE,
                                                !.step = "ready"]]
    /\ UNCHANGED <<disk, fresh, locks, crashes, histories>>

(* releaseLock(), second half: remove() of the file. *)
RemoveReleased(f) ==
    /\ obj[f].step \in {"unlocked", "destroyed"}
    /\ LET n == obj[f].name
           objs == Unlinked(obj, n)
       IN /\ obj' = [objs EXCEPT ![f] = IF obj[f].step = "destroyed" THEN Gone
                                        ELSE [@ EXCEPT !.handle = "closed", !.dirty = FALSE,
                                                       !.step = "ready"]]
          /\ disk' = disk \ {n}
    /\ UNCHANGED <<fresh, locks, crashes, histories>>

-----------------------------------------------------------------------------
(* A process dies.  Its files and lock files stay; it may start again. *)
Crash(p) ==
    /\ crashes < MaxCrashes
    /\ crashes' = crashes + 1
    /\ LET mine == {f \in Objects : Process[f] = p} IN
       /\ obj' = [f \in Objects |-> IF f \in mine THEN Gone ELSE obj[f]]
       /\ locks' = [n \in Names |-> IF locks[n].by \in mine
                                    THEN [locks[n] EXCEPT !.live = FALSE] ELSE locks[n]]
       /\ left' = left \cup {obj[f].name : f \in {g \in mine :
                                obj[g].dirty /\ obj[g].lock.held}}
    /\ UNCHANGED <<disk, fresh, raced, broken>>

(* A minute passes for a lock. *)
Age(n) ==
    /\ LocksAge
    /\ locks[n].live /\ ~locks[n].old
    /\ locks' = [locks EXCEPT ![n].old = TRUE]
    /\ UNCHANGED <<obj, disk, fresh, crashes, histories>>

AutoInit ==
    /\ obj = [f \in Objects |-> Gone]
    /\ disk = {}
    /\ fresh = Names
    /\ locks = [n \in Names |-> NoLockFile]
    /\ crashes = 0
    /\ left = {}
    /\ raced = {}
    /\ broken = {}

AutoNext ==
    \/ \E f \in Objects :
        \/ Construct(f) \/ OpenFile(f) \/ LockFile(f) \/ Write(f) \/ RemoveFile(f)
        \/ Release(f) \/ setManagedFile(f) \/ Destroy(f) \/ RemoveReleased(f)
        \/ \E n \in Names : staleFiles(f, n)
    \/ \E p \in AutoProcesses : Crash(p)
    \/ \E n \in Names : Age(n)

-----------------------------------------------------------------------------
(* Properties. *)

TypeOK ==
    /\ obj \in [Objects -> [exists : BOOLEAN, name : Names \cup {NoName},
                            managedFileNameChanged : BOOLEAN,
                            lock : [on : Names \cup {NoName}, held : BOOLEAN],
                            handle : {"closed", "open", "unlinked"}, dirty : BOOLEAN,
                            step : {"ready", "opened", "unlocked", "destroyed"}]]
    /\ disk \subseteq Names /\ fresh \subseteq Names
    /\ locks \in [Names -> [by : Objects \cup {Nobody}, live : BOOLEAN, old : BOOLEAN]]
    /\ crashes \in 0 .. MaxCrashes
    /\ left \subseteq Names /\ raced \subseteq Names /\ broken \subseteq Names

Opened(f) == Ready(f) /\ obj[f].handle # "closed" /\ obj[f].lock.held

(* Two objects never have the same auto-save file open at a time, in one     *)
(* process or in several ("No other application will attempt to edit such  *)
(* a file either while the lock is held", kautosavefile.h:190), unless its *)
(* lock was taken from a live process for being older than a minute.       *)
EditedByOne ==
    \A f, g \in Objects :
        f # g /\ Opened(f) /\ Opened(g) /\ obj[f].name = obj[g].name =>
            obj[f].name \in broken

(* The work of a process that crashed stays on the disk, whatever others     *)
(* that look at it do and whenever they crash, until somebody has opened   *)
(* the file and holds its lock.  Two ways to lose it are left: the file     *)
(* was opened between the two halves of another's releaseLock(), or its    *)
(* lock was taken from a live process.                                     *)
CrashKeepsWork == left \subseteq disk \cup raced \cup broken

(* Files do not pile up: without a crash, a file on the disk is one that a    *)
(* live object works on.                                                   *)
NothingLeftBehind ==
    crashes = 0 => \A n \in disk : Using(n) # {}

-----------------------------------------------------------------------------
(* The names of the files.  A URL has a scheme, the path of a directory and a  *)
(* name, which are sequences of characters.                                *)

NamePadding == 8

toPercentEncoding(text) ==
    FlattenSeq([i \in DOMAIN text |->
        CASE text[i] = "/" -> <<"%", "2", "F">> [] text[i] = " " -> <<"%", "2", "0">>
          [] text[i] = "%" -> <<"%", "2", "5">> [] OTHER -> <<text[i]>>])

(* Half of an encoded character at the end, where a name was cut, stays. *)
fromPercentEncoding(text) ==
    LET decoded[i \in 1 .. Len(text) + 1] ==
            IF i > Len(text) THEN <<>>
            ELSE IF text[i] = "%" /\ i + 2 <= Len(text)
            THEN <<CASE text[i + 2] = "F" -> "/" [] text[i + 2] = "0" -> " " [] OTHER -> "%">> \o decoded[i + 3]
            ELSE <<text[i]>> \o decoded[i + 1]
    IN decoded[1]

PathOf(url) == url.dir \o (IF url.dir = <<"/">> THEN <<>> ELSE <<"/">>) \o url.name

(* What is left of a name for the directory; QStringView::left() takes all of  *)
(* it when that is negative.                                              *)
pathLengthLimit(url, max) ==
    max - NamePadding - Len(toPercentEncoding(url.name)) - Len(url.scheme) - 16
Left(text, n) == IF n < 0 \/ n > Len(text) THEN text ELSE SubSeq(text, 1, n)

LastThree(text) == SubSeq(text, Len(text) - 2, Len(text))

tempFileName(url, junk, max) ==
    toPercentEncoding(url.name) \o LastThree(junk) \o url.scheme \o <<"_">>
      \o Left(toPercentEncoding(url.dir), pathLengthLimit(url, max)) \o junk

(* Where a part of a text begins for the first time, from a place on. *)
FirstAt(text, part, from) ==
    LET places == {i \in from .. Len(text) - Len(part) + 1 : SubSeq(text, i, i + Len(part) - 1) = part}
    IN CHOOSE i \in places : \A j \in places : i <= j

NamePart(file) == SubSeq(file, 1, FirstAt(file, LastThree(file), 1) - 1)
PathPart(file) ==
    LET underscore == FirstAt(file, <<"_">>, FirstAt(file, LastThree(file), 1))
    IN SubSeq(file, underscore + 1, Len(file) - NamePadding)

(* Of a path that is decoded, QFileInfo::fileName(). *)
AfterSlash(text) == SubSeq(text, SelectLastInSeq(text, LAMBDA c : c = "/") + 1, Len(text))

(* The path a stale file was saved for, from the path of the stale file itself. *)
extractManagedFilePath(file) ==
    fromPercentEncoding(PathPart(file)) \o <<"/">> \o AfterSlash(fromPercentEncoding(NamePart(file)))

staleMatchesManaged(file, url) ==
    /\ url.name = fromPercentEncoding(NamePart(file))
    /\ IsPrefix(PathPart(file), toPercentEncoding(PathOf(url)))

Lock == <<".", "l", "o", "c", "k">>

(* The stale files of a URL among those in the directory: all but locks. *)
staleFilesFor(files, url) ==
    {file \in files : ~IsSuffix(Lock, file) /\ staleMatchesManaged(AfterSlash(file), url)}

-----------------------------------------------------------------------------
(* An auto-save file is found for the file it was saved for, and never for a   *)
(* file of another name or of a directory whose name does not begin like its  *)
(* own; without its URL the path is read off its name; and QLockFile finds    *)
(* room in the longest name the system allows.  That is so as long as the     *)
(* separator, three random letters, is not found earlier in the name, and the *)
(* path is whole only where nothing was cut off.                           *)
NamesSayWhat(url, junk, max, app, others) ==
    LET file == tempFileName(url, junk, max)
        path == app \o file
        Apart(text, name) == FirstAt(text, LastThree(junk), 1) = Len(text) - Len(file) + Len(name) + 1
        limit == pathLengthLimit(url, max)
        whole == limit < 0 \/ Len(toPercentEncoding(url.dir)) <= limit
    IN /\ limit >= 0 => Len(file) + Len(Lock) + 7 <= max
       /\ Apart(file, toPercentEncoding(url.name)) =>
            /\ staleFilesFor({path, path \o Lock}, url) = {path}
            /\ \A other \in others :
                  staleMatchesManaged(file, other) =>
                      /\ other.name = url.name
                      /\ whole => IsPrefix(url.dir, PathOf(other))
       /\ Apart(path, toPercentEncoding(url.name)) /\ whole =>
            extractManagedFilePath(path) = url.dir \o <<"/">> \o url.name
=============================================================================
