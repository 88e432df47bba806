# A TLA+ verification of KCoreAddons

KCoreAddons is a library of Qt-only building blocks: a cache in shared memory
(KSharedDataCache), asynchronous jobs (KJob), a directory watcher (KDirWatch),
files, processes, plugins, users and text. This directory holds TLA+ models of
its parts, TLC configurations that check them on small instances, and theorems
about them that TLAPS checks for every value of the constants. Paths below are
relative to the repository; `caching/` stands for `src/lib/caching/`, and so on.

## 1. Inventory

| Component | State | Operations | Talks to | What is hard, and what must hold |
|---|---|---|---|---|
| KSharedDataCache operations (`kshareddatacache.cpp`, `ksdcmemory.cpp`) | index table, page table, pages, `cacheAvail`, timestamp and policy, in shared memory | `insert` `find` `remove` `contains` `clear` `setTimestamp` `setEvictionPolicy` | every process that maps the file | open addressing without tombstones, ageing, eviction and compaction all rewrite the same tables: tables agree with each other and with the pages; a hit returns what was stored under the key |
| Sizes and layout (`ksdcmemory.cpp`, `ksdcmapping_p.h`) | `cacheSize`, `pageSize`, `m_mapSize` | mapping, accessors | processes with other sizes, at other addresses | what accessors reach is mapped, and is the same bytes for everybody |
| Attach, lock, recover (`ksdcmapping_p.h`, `ksdclock*`, `kshareddatacache.cpp`) | the file, `ready`, the lock word, `m_mapped`, `shm` | constructor, `CacheLocker`, `recoverCorruptedCache`, `deleteCache` | other processes, at any point, dying at any point | one initialiser, mutual exclusion, no operation waits for ever |
| KSharedDataCache on Windows (`kshareddatacache_win.cpp`) | a `QCache` | the same | nobody | the limit and the order of use |
| KJob (`jobs/kjob.cpp`) | `isFinished`, `error`, `isAutoDelete`, `eventLoop` | `start` `kill` `emitResult` `exec` `suspend` `resume` | slots, subclasses, the event loop | re-entrance from slots and `doKill()`; signals once; nested loops end |
| KJob's progress | amounts, percentage, elapsed and speed timers | `setProcessedAmount` `setTotalAmount` `emitPercent` `emitSpeed` | slots | slots that report, too; what is told last is what is true |
| KCompositeJob | list of subjobs | `addSubjob` `removeSubjob` `clearSubjobs` `slotResult` | signals of its subjobs | subjobs that never report, errors while finishing |
| Job trackers, UI delegates | connections | register, unregister, `setUiDelegate` | KJob | order of slots, replaced delegates |
| KDirWatch (`io/kdirwatch.cpp`) | entries, clients, `removeList`, watch descriptors, timers | add/remove, stop/restart scan, inotify, poll and rescan handlers | kernel, the KDirWatch instances of a thread | lost and late events, removal during a scan, running out of descriptors |
| KAutoSaveFile, KBackup | file names, locks; numbered backups | `open` `releaseLock` `staleFiles`; rotation | other processes, crashes | steps between lock and file, stale locks, a rotation cut in the middle |
| KNetworkMounts, KFileSystemType | settings, cache of links | lookups | file system | staleness; a type whatever tells it |
| KUrlMimeData (`io/kurlmimedata.cpp`) | transfers, objects, cache of what was read | export, `urlsFromMimeData`, `setMetaData` | portal, other applications | transfers, objects and signals end in any order |
| KSignalHandler | socket pair, notifier | `watchSignal`, handler | signal context, event loop | signals before the loop runs, none lost |
| KListOpenFilesJob | `hasEmittedResult` | slots of the lsof process | QProcess, KJob | error and end racing |
| KSystemClockSkewNotifier | shared engine | `setActive` | timer file or D-Bus | activity and engine agree while slots change it |
| KProcess, KSandbox | environment, program and arguments | `setEnv` `<<` `setShellCommand` `execute` | QProcess, the host | "empty" means "inherit"; a wait that times out as the child ends |
| Plugin search and factory (`plugin/`) | cache of metadata, registered classes | `findPlugins` `findPluginById` `create` | files that others replace | a stale cache |
| KAboutData | the application's data and the properties of the Q*Application | setters, licences, AppStream files | Qt, files | copies, back pointers, properties in step |
| KUser, KUserGroup, KUserProxy | copies of entries; watches | lookups, lists; `update` | databases of the system, KDirWatch | sizes of buffers, who one is, files that change |
| KMemoryInfo, KProcessList, KOSRelease | none that changes | queries | the system | parsing, units, widths, processes that exit meanwhile |
| KShell, KMacroExpander | none | quote, split, expand | shells | what is put in comes out, and as one word |
| KFormat, KStringHandler, KTextToHTML, KFuzzyMatcher, KFileUtils | none | pure functions | | carries, indices that go back, text lost |
| KRandom, KLibexec, KRuntimePlatform, other QML proxies | none | pure functions | Qt | nothing of state |

Interactions: a client's call takes the lock of the cache's mapping
(`CacheLocker`), runs on the segment, and on `KSDCCorrupted` unlinks the file
and maps a new one; every other process keeps its old mapping until it has
trouble of its own. A KJob calls its observers by signals that run at once in
the same thread, which may call the job again; deletion goes through the event
loop. A composite job is such an observer of its subjobs. KDirWatch posts its
signals, so that slots run later, when the entries may have changed again; its
handlers, the timers and deferred removal share the event loop. KUserProxy is
driven by it.

The hazards that follow from this, each at its line and with the properties
that watch it, are in `PROJECT.json`.

## 2. Modules

### KSDCMemory, KSharedDataCache, LossyCache

`KSDCMemory` describes the segment as a record with the fields of
`struct SharedMemory` that change after initialisation. Helpers of
`ksdcmemory.cpp` are operators from segments to segments, with a companion
`...Throws` where the code throws `KSDCCorrupted`. Sizes are in bytes; the
content of a page is abstracted to "piece n of the item (key, value)", which is
what the properties tell apart, and a free page holds `Junk`.
`qstrncmp()` of a key with a page is the comparison of the item's key.

`KSharedDataCache` has one action per public operation. They are atomic, since
the code holds the lock for the whole of each; `KSDCMapping` is about when that
is not so. `insert` returns a set of outcomes, because culling draws a random
number and `std::sort` may order equal entries either way. `reply` is what the
caller sees: the boolean, the value read, `"corrupt"` when the operation ended
in `recoverCorruptedCache()`, or `"torn"` for bytes that no `insert` stored
together. The clock `now` moves by `Tick`; a fresh segment is
`performInitialSetup()`. The end of the last page (`UnmappedBytes`) may be outside of
the mapping, as `totalSize()` has it. An `insert()` that reaches it throws after it has
updated the tables. This process then goes on with a new file (`Recovered`), or,
for those that still map the old one, the entry stays half-made: its pages hold what
they held before (`HalfMade`, `OldBytes`), and `failed` remembers such entries.

`LossyCache` is the abstract specification: for every key a set of values (an
overwrite may leave an older copy in the chain), any of which may be forgotten
at any write, none of which is invented, mixed up or torn. Only a key that a failed
`insert()` has spoiled, or one of the same hash, may show anything until its entry is gone. The refinement
mapping `Held` reads it off the index table and the pages.

### KSDCDefragment

`KSDCMemory!defragment` says in one step what `SharedMemory::defragment()` does
in nested loops. This module has the loops, one action per iteration, from every
consistent page table, and checks that they end with that very segment, the
overrun of the header included. `MCKSDCMapping` runs it beside `KSDCMapping`, with
which it shares nothing.

### KSDCLayout

`createMemoryMapping()` chooses sizes, `mapSharedMemory()` maps them, accessors
compute places from the header. A process opens the cache with any of the given
sizes at any of the given addresses. An unsigned int has `UintSize` values: where
`intCeil()` would overflow it throws and the constructor is left, and the product and the
result of `totalSize()` wrap around; the assertion that compares them with the size
asked for is not there in a release. The same module has the kinds of locks, and what any
calls of `lock()`, `unlock()` and of processes that attach make of one.

### KSDCMapping

Processes open or create the file, race for `ready`, use the lock with its
timeout, delete the file, recover, and die. Program counters are the points of
the code where another process can come between; what happens inside an
operation is left to `KSharedDataCache`. A segment is an inode: it survives
`unlink` while somebody maps it. The four kinds of lock are one that is a word
in the segment, times out, and is initialised on attach, which all
of them share (`ksdclock_p.h`: all four `initialize()` make it free); `KSDCLayout` has
the choice among them.
Timeouts may come at any time while their condition holds.

### KJob

`stack` is the stack of calls that are in a place where other code runs: slots
of `finished` and `result`, `doKill()`, `start()`, the nested event loop. New
calls are pushed where code of others runs, and the innermost call continues
with a `...Returns` action, so that every interleaving of nested calls up to
`MaxDepth` is there. `finishedCount`, `resultCount`, `killVerbosity` and `keep`
are history variables. Clients are assumed not to turn auto-deletion on for a
job that has finished or is inside `exec()`, not to delete a job from
its own slots, and to execute a job from outside of its slots only.

### KCompositeJob

The composite and its subjobs, and a subclass like the one of
`kcompositejobtest.cpp`, which starts them one after the other. `stack` holds
the calls that are inside a signal: wherever slots run, clients may add, remove,
kill, start and delete subjobs, and kill the composite. Of a subjob there is the
state that `KJob` proves sound: whether it lives, has finished, will be
deleted. Errors are told apart by the job they come from. `abandoned` marks what
`CompositeEnds` cannot promise: a composite that waits for a subjob that will
never report (see "Met on the way").

### KJobProgress, KJobObservers

`KJobProgress` has amounts in two units, the percentage, the speed and elapsed
timers, and suspending; as in `KJob`, slots of the signals call the job again. `told` is
the amount that observers were told last, which an outer call may make an older one.
`KJobObservers` folds over a series of calls (register, unregister, set a
delegate, emit, finish), each a list of connections made, broken or called in
their order.

### KDirWatch

The file system (`fs`, changed by anybody at any time), the kernel's watches and
its queue of events, the `KDirWatchPrivate` of a thread as the record `s`, and
the signals that are posted. Every handler of the event loop is an action:
`inotifyEventReceived`, the rescan and the poll timer (`slotRescan`),
`slotRemoveDelayed`, and the delivery of a posted signal; so is every public
call. What a handler does is an operator on `s`, nested like the functions of
the code (`addEntry`, `removeEntry`, `scanEntry`, `emitEvent`, ...), down to
sub-entries, implicit parents, and entries of files that do not exist yet. When
`inotify_add_watch()` fails the entry is polled. `MCKDirWatch` has a directory,
a directory in it and a file in that.

### KAutoSaveFile, KBackup, KUrlMimeData, KPlugins, KAboutData

- `KAutoSaveFile`: objects of several processes, the files and the lock files.
  `open()` and `releaseLock()` are two steps each, between which a process can
  crash or another one look for stale files; `Age` makes a lock old. Its second part
  has the names: how the name of a file is made of a url, cut to the limit of
  the file system, and taken apart again.
- `KBackup`: one step per call of the file system, which may fail, and the death of
  the process after each.
- `KUrlMimeData`: export in batches (some file may not open), reading with a cache
  and with errors of the portal, the end of a transfer, of an object, of a
  reader; the list of pairs of the metadata as a text with its separators.
- `KPlugins`: a search goes file by file while files are replaced, by new ones or by
  ones with an old modification time, and removed; the cache of
  `findPlugins()`; `KPluginData` has what is read of the metadata, also from a JSON
  file, the language of its texts (`kjsonutils.cpp`), the file `findPluginById()`
  takes, the registration of classes in a factory and the constructor it uses.
- `KAboutData`: the application's copy, a client's copy, the properties of the
  Q*Application, licences that point back, or to a third object when `addLicense()`
  was given one of its licences; `KAppStream` has both constructors with all
  their arguments, the setters and getters, the text of licences and their SPDX
  names with "or later", translators, and the elements of an AppStream file with
  their texts in every language, its releases and their notes.

### KSignalHandler, KSystemClockSkewNotifier, KListOpenFilesJob, KNetworkMounts

Small components with a state. A signal may interrupt the thread of the event
loop or another one, the handler writes to a socket of limited size, and the
loop reads it with the notifier off while slots run. Clock skew notifiers share
an engine, and change its users while it emits. lsof fails to start, crashes or
ends, and tells so in two signals, between which slots of `result()` may run an
event loop. The cache of slow mounts is filled while a path is walked, over
links that change.

### What only computes

Operators, written from the code and checked against what the component
promises over every short text or a set of boundary values:

| Module | Promise |
|---|---|
| `KShell`, `KShellWin` | what is quoted and joined splits into the same words again; errors and meta characters are reported; the tilde comes back; KMacroExpander: in a simple command a macro stands for its value as it is, nested contexts expand as on their own; maps of characters and words |
| `KFormat` | durations with decimals stand for what was given to half of the last digit, in order, if perhaps as "60.00 seconds"; the two functions for sizes agree; a time of day is told with its zone when it needs one |
| `KFuzzyMatcher` | matches exactly what contains the pattern in order, at increasing positions, with the score of those, within the limit |
| `KStringHandler` | squeezing fits, splitting joins, wrapping breaks only where it may, a suggested file name is new |
| `KTextToHTML` | no text is lost and mark-up is closed and escaped, but for two forms ("Met on the way"), with every option: phone numbers, highlighting, spaces that keep their columns; emoticons are found where they stand |
| `KUsers`, `KUsersWin` | looked up in every way one is the same; the lists agree with each other and with their limit; `KUserProxy` shows what the files say |
| `KSystemInfo` | values written with the quoting of `os-release(5)` are read; every amount is that of its own line and in bytes; a process is told the same by every source; a file system by every table |
| `KProcess` | the child's environment is the one meant, also an empty one; the host is told what was set of it; the words of a command stay words, on the host, too; `execute()` tells the exit code |
| `KSDCLayout` | the hash of a key, aligned or not, and the choice and use of the kinds of locks |
| `KSharedDataCacheWin` | what is in the limit is found, the least recently used goes |

`KProcess` and `KUsers` have some state: `KProcess` is checked as a state machine
of its environment and child as well, `KUserProxy` over a series of changes.

### Modules for TLC and for proofs

`MC...` modules give the constants that a configuration cannot express. Three of
them put together components that share nothing, each behaviour being about one
of them: `MCKSDCMapping` (`part`: the mapping or the loop of `defragment()`), `MCServices` (`focus`: signals, skew, progress, backup, lsof, mounts)
and `MCParts` (`topic`). In `MCParts` six topics are state machines: layout,
auto-save files, application data, a process, the portal, plugins. For the
others `input` is a text that grows piece by piece up to `MaxText`, or a value
that is entered at once; "piece" is a character, or a call where a component is
checked over every short series of calls. What holds of the input is an action
property over `input'`, so that it is evaluated once for every text.

The theorems about a module are in the module of that name with `Proofs` at its
end: `KSDCDefragmentProofs`, `KSDCLayoutProofs`, `KSharedDataCacheProofs` (over the
lemmas of `KSDCMemoryProofs` about the helpers of the segment), `KJobProofs`,
`KCompositeJobProofs`. `KServicesProofs` has those of `KSDCMapping` and of the
small components with a state that `MCServices` puts together, `KPartsProofs` those
of the ones in `MCParts`: auto-save files, application data, plugins, a child
process, the portal. Section 4 lists them. Operators whose name has a
suffix, such as `removeEntry_KeepsAvail`, are the mutants: what the operator
would be with a plausible mistake in the code. Nothing uses them; the property
listed with each in `PROJECT.json` fails when one takes the place of the original.

## 3. Runs

| Run | Question |
|---|---|
| `cache` | do tables and pages agree after any sequence of calls, does `insert` find room, and is its item found? |
| `cache_refines` | does the cache implement `LossyCache`, and are items whole? with equal hashes, lookups that return values, the LRU policy, the end of the last page unmapped, recoveries and half-made entries |
| `mapping` | is the set-up exclusive and complete, and does everything that waits come to an end? processes with different sizes, under fairness; and apart from that: do the loops of `defragment()` end with what `defragment` says, from every consistent table? |
| `job_life` | signals once, quiet kills, nested loops, deletion, calls nested four deep |
| `composite` | does the list hold just the subjobs that can report, is the first error the one reported, and does the composite end? |
| `dirwatch` | do entries, descriptors and the kernel's watches agree, and does an instance hear of every change in the end? |
| `services` | signals delivered, engine shared, progress told, backups kept, lsof reported, the cache of mounts transparent? |
| `parts` | everything else: auto-save files with crashes, transfers, plugins, application data, a child process, the layout, and what only computes |

What holds in `dirwatch` holds of paths that do not depend on what the code is
known to lose (`Reliable`): a path above which no directory was stopped and
restarted or moved away while watched, and that does not wait in a polled
directory. The cases are listed below. `CompositeEnds` excludes composites whose
subjob was killed quietly, deleted or removed while it ran.

### What is violated

These runs state what a comment, document or test says, and fail.

| Run | Said | Done |
|---|---|---|
| `cache_remove` | `kshareddatacachetest.cpp:86-87`: a removed key is not contained | an older copy later in the probe chain comes back |
| `cache_tail` | `ksdcmemory.cpp:783`: `totalSize()` is "the total size required for a given cache size" | it leaves out the padding before the pages, so that an `insert` that reaches the end of the last page throws the whole cache away |
| `mapping_reattach` | `ksdcmemory.cpp:822`: called while the lock is held | every attach initialises the lock others may hold |
| `portal_stop` | `kurlmimedata.cpp:323`: we'll stop once our mimedata disappears | the end of one transfer deletes what stops all others (`kurlmimedata.cpp:389-391`) |

### Met on the way

Visible in the models, and not runs of their own. The passing runs are set so
that these do not hide the rest.

*KSharedDataCache.*

- `defragment()` writes `indexTable()[-1].firstPage` (`ksdcmemory.cpp:588`) when
  the page after a moved one is free; that word is `cacheTimestamp`, which only
  `setTimestamp()` should change (`kshareddatacache.h:199-200`);
- the label that NDEBUG builds write over a removed item (`ksdcmemory.cpp:868`)
  is not bounded by the item: with a `LabelLength` as large as a page
  `ItemsKept` fails (`LabelLength = 2` keeps it inside a page);
- the missing padding of `cache_tail` is why the layout property says "all but the last",
  why `ItemsKept` says that the contents are thrown away for that end only
  (`ReadableButAtEnd`), and why `cache`, which looks at full caches, has
  `UnmappedBytes = 0`;
- `verifyProposedMemoryAccess()` comes after the tables are written
  (`kshareddatacache.cpp:304-327`): others find a half-made entry, with the bytes of
  what was there before, perhaps those of another key of the same hash;
- a size asked for near 2^32 makes `intCeil()` throw where nothing catches it, or
  `totalSize()` wrap around (`ksdcmemory.cpp:216, 784-809`);
- pages are aligned by address (`ksdcmemory.cpp:377`), so that two processes
  disagree on their place when a page is larger than those of `mmap()`: why
  `SmallPagesAgree` has a premise;
- "we need to at least match the size" (`ksdcmapping_p.h:190`), but the second
  `mmap()` is given the requested size again (226);
- "the cache remains valid, it just does nothing" (`ksdcmapping_p.h:176-178`), but the
  second mapping leaves `shm` null with a valid mapping (`kshareddatacache.cpp:85`);
- an operation whose `lock()` timed out on a sane cache runs without the lock
  (`kshareddatacache.cpp:123`, `TimeOutSafe`), and unlocks all the same, which
  raises a semaphore above 1; `createLockFromId()` tests `_SC_SEMAPHORES` where
  timeouts matter (`ksdclock.cpp:99`);
- a free slot has hash 0, so that a key whose hash is 0 stops at the first free slot of
  its chain (`ksdcmemory.cpp`, `findNamedEntry()`): why `StoredIsThere` has a premise;
- on Windows `evictionPolicy()` is uninitialised, and the size counts items.

*KJob and composites.*

- `exec()` deletes a job whose client turned auto-deletion off meanwhile
  (`kjob.cpp:228`, `ExecReturns`);
- `resume()` after a suspension within the first millisecond never restarts the
  elapsed timer (170); `speedTimeout()` emits speed 0 before it stops the timer (386);
  a slot that reports leaves the outer call with a stale amount, so that observers
  are told an old one last (307-309, 331-333): the three exceptions of `ProgressTold`; the
  percentage is emitted when it differs, not when it is bigger (`kjob.h:740`),
  may pass 100 (364), and does not follow `setProgressUnit()`;
- a subjob that was killed quietly, deleted, or had finished when it was added
  never reports (`kcompositejob.cpp:88`): the composite waits for ever. The test's
  subclass copies the last subjob's error over the first one;
- a tracker's `finished()` is never called, though `kjobtrackerinterface.h:85` has it
  called "in any case": `unregisterJob()`, connected before it, disconnects it
  (`kjobtrackerinterface.cpp:36-37`); `SystemSound` says so; the error of a job is
  shown after slots that were connected to `result()` earlier;
- `KListOpenFilesJob` sets `hasEmittedResult` only after the slots (106).

*KDirWatch.*

- `_isStopped` is that of all instances of a thread (`kdirwatch.cpp:1768-1785`);
- `startScan(true)` after `stopScan()` notifies of nothing (`kdirwatch.h:182-183`,
  `kdirwatch.cpp:1352`), and `stopScan()` invalidates the ctime of implicit parents;
- an overflow of the inotify queue (429) is no reason to rescan: after it the
  entries are out of date until something else happens. The model's queue has no limit;
- a watched entry that is moved away keeps its descriptor, so that what takes its
  place is not watched (1483);
- an entry made while stopped is not watched when the scan is restarted;
- an entry that waits in a polled parent, or is added again while it does not
  exist, is not looked at; `WatchFiles` filters nothing on NFS; `statEntries` is not
  lowered with every polled entry, and `minfreq` ignores shared ones;
- changes within one second and between `stat()` and `inotify_add_watch()` look alike.

*Files and processes.*

- `KAutoSaveFile`: a lock older than a minute is taken from a process that lives
  (`kautosavefile.h:190`; runs have `LocksAge`); `open()` opens, and may truncate, before it
  locks; `releaseLock()` unlocks before it removes; `setManagedFile()` after a
  failed `open()` keeps the lock of the old name (`ReusesFailed`). A stale file is
  looked for by the beginning of its name, so that one of `/ab/x` is offered for
  `/a/x`, and its separator in the whole path (`kautosavefile.cpp:167-182`), where
  the same letters may stand earlier; a negative limit keeps the whole directory
  (76-80);
- `simpleBackupFile()` removes the old backup before it copies;
- `KUrlMimeData`: exporting twice keeps two transfers until the object goes; a failed
  `StartTransfer` of no urls returns true; metadata that contains or completes the
  separator `$@@$` does not come back (58-68);
- `KNetworkMounts`: changing the lists does not clear the cache;
- plugins: the cache keeps the first caller's options; a stale entry stays first, so
  that the file is read and pushed again at every search; a file replaced by one
  whose modification time is not later than the search that cached it, as updates that
  keep build times do, stays stale for good (`kpluginmetadata.cpp:272-281`,
  `Backdated`); static plugins' ids are
  not in `addedPluginIds`; `findPluginById()` does not look elsewhere when the
  application's file is invalid; `loadFactory()` writes into a shared factory;
- `KSignalHandler`: a full socket blocks the handler in the loop's thread; a failed
  read leaves the notifier off; a failed `socketpair()` leaves descriptor 0;
- the notifier of clock skews is active without an engine when no timer can be made;
- `KProcess::execute()` returns -2 also on timeout (`kprocess.h:235`); `<< ""` adds
  nothing; words after `setShellCommand()` go to the command or to the shell; a
  variable that was unset or cleared in the process environment stays visible on the
  host (`ksandbox.cpp:57-62`), of which `HostTold` only says that nothing is told;
- `KUserProxy` does not watch a face icon that is made later, and keeps watching
  the AccountsService icon of the first name.

*Users and systems.*

- `listGroupsForUser()` reads past its 100 elements when a user has more groups than
  that and than are wanted, and fewer of the first 100 are found (`kuser_unix.cpp:276-284`);
  `MembersAgree` says nothing of that case (`PastTheEnd`); an entry larger than the
  buffer is listed and not found, and hides another user of the same id (92-107);
  a large group is found by name, not by id (409-415);
- on Windows, `KUserGroup::users()` enumerates the groups of a user named like the group
  (`kuser_win.cpp:681, 693`), and `KUserGroup`'s modes are swapped;
- without libmount, AFS and `fuse.*` file systems have another type;
- memory: OpenBSD tells used swap as free, mixes kB and bytes and keeps partial
  updates; `cached` may wrap on Linux; Hurd's available memory is what is not free;
- a name in `/proc` with a blank is cut unless the command line can be read.

*Text.*

- `KShell`: `\x` drops a second digit 0 and the character at the end of a text;
  `joinArgs()` leaves a first word like an assignment unquoted; `tildeCollapse()`
  collapses `/home/userX`; `tildeExpand("~nouser/x")` is empty. On Windows: a leading
  `@` is not quoted; values that end in a backslash, empty values, and macros that
  touch a quote change the quoting;
- a `$((...))` that is closed leaves its saved text (`kmacroexpander_unix.cpp`);
- `KFormat`: an abbreviated duration of whole years ends in "0 sec" (`kformat.h:226`);
  `FoldHours` with `HideSeconds` rounds to minutes (225); 59,999 ms is "60.00
  seconds"; sizes may show 1024.0 KiB; distances test one locale twice;
- `KAboutData`: a licence that `addLicense()` appends keeps pointing to the object it was
  copied from, which may be gone when its text is asked for (`kaboutdata.cpp:889-896`);
  reading an AppStream file twice adds its licence twice, and leaves
  the application's properties behind; the full constructor's `desktopFileName` keeps
  a path (680) that the short one strips (706); the home page of a three-part
  domain loses its name (669); the SPDX names that `spdx()` gives for the licences
  Apache 2, MPL 2, ODbL 1, BSL 1, CC0 1 and FTL are read back by `byKeyword()` as `Custom`
  (431-464); "fi" is taken for "fil";
- `KJsonUtils`: a translation that is not a string hides the text that is not
  translated (54); a class of plugins that takes arguments gets none any more once
  it has a constructor with the metadata alone (`kpluginfactory.h:657`);
- `KFuzzyMatcher` cuts positions beyond 255 (91); `perlSplit()` with an empty
  separator does not end; squeezing to less than 3 lengthens; `obscure()` is no
  involution for two values; any number in parentheses of a file name is raised;
- `KTextToHTML` loses text of a bracketed URL with blanks before its end; an address
  that begins inside a number that was made a link, as in "0111111.a@a.a", cuts the
  link and leaves its mark-up open (`ktexttohtml.cpp:534-548`), and a lone "0" or
  "+" before an open parenthesis is one (138-141); the table of
  emoticons is not sorted at `;-(`, and some before a `<` are not found;
- `KOSRelease` indexes an empty `ID_LIKE`, and keeps the
  backslash of `\$`.

### Bounds

- `cache`: six pages of four bytes, three slots, probe chains of two slots. The
  code has at least 256 pages, 128 slots and chains of six. The instances keep what
  matters: the slots of a chain are distinct (`ProbesDistinct`), two keys share
  a chain and a third overlaps it, an item takes one to three pages, and a
  cache can be full and fragmented. `2 * FreePagesDesired` exceeds the
  pages as it does in nearly full caches of any size. `cache_refines` has five pages,
  two slots, colliding hashes and a byte at the end that is not mapped.
- `MaxUseCount` bounds the uses of one entry (a `uint` in the code). Storing counts as the
  first: with 2, in `cache_refines`, lookups return values. With 1, in `cache`, which is
  about insertion, lookups only miss; halved it is 0, and the entry is culled. `MaxTime = 1` with `CullAge = 0` has old and
  young entries. `Timestamps = {}` where the timestamp is not looked at.
- The loop of `defragment()`, in `mapping`: every consistent table of seven pages and three
  entries.
- `mapping`, `mapping_reattach`: two processes; one segment more than processes is
  all that can be reachable. `RetryLimit` is 4 in the code; 1 and 0 have the cases
  "retries" and "gives up".
- `job_life`, `composite`: depth 4 is one more than `exec`, `doKill` or the nested loop
  and the slot inside of it need; two subjobs are one that reports and one left.
- `dirwatch`: three paths below each other, one instance that watches the inner two,
  two descriptors (fewer than entries that can exist, so that polling happens), two
  changes and three calls at any time, and two seconds. Time only passes after
  something watched has changed, which is when it makes a difference: each of two
  changes may or may not share its second with the look at it.
- `services`: two signals, a socket for two and four raised, so that one is merged
  and one does not fit; two notifiers and skews; amounts 0 to 2, calls three deep,
  four in all; 0, 2 or 3 backups and a version more than those.
- `parts`: two auto-save objects, each a process, and one crash; two transfers of
  batches of two with up to three urls; two plugin files with one id in two library
  paths, two times at which a file may be installed, with the time of then or an old one;
  two licences, of the object itself, of none or of a third one. `UintSize` is 2^28 in
  place of 2^32, as the numbers of TLC have 32 bits, and the sizes asked for go up to
  it: they make `totalSize()` wrap around and `intCeil()` throw. Texts of four pieces hold an opening and
  a closing mark with something inside and one thing beside. Numbers are those
  at the boundaries of the computations (59.5 s, 23:59:59.5, 1023.99 KiB, 364 to
  366 days, pages of 2^9 to 2^18), `sizeof` values those of x86-64 Linux;
  `RecursionLimit` and the scores of `KFuzzyMatcher` are those of the code.
- Symmetry is used in `parts` only, for the auto-save objects, which no definition
  orders and no other topic of that run knows.

### Fairness

- `KSDCMapping`: `WF_vars(Proceed(p))`. A process inside an attach or an operation
  is scheduled, `usleep()` returns and `lock()` has a timeout (`ksdclock_p.h`), so
  one of its steps is taken; nothing is assumed of `Construct`, `Begin`, `Die` or
  `DeleteCache`.
- `KJob`, `KCompositeJob`: `WF_vars(Continue)`: slots and virtual functions return
  and the event loop delivers deferred deletes; nobody has to call the job. In
  `KCompositeJob` a subjob that was started also ends (`WF_vars(JobEnds(j))`).
- `KSDCDefragment`: `WF_loopVars(LoopNext)`, a sequential loop that is run.
- `KDirWatch`: a handler that is due runs: a notifier whose queue has events, the
  timers once they are started, the posted call of `slotRemoveDelayed`, and posted
  signals. It is spelled out as "infinitely often not due, or infinitely often
  run", which is weak fairness with the guard as what enables the handler. Nothing is
  assumed of applications and the file system.
- `KSignalHandler`: the kernel delivers a pending signal, a handler that can write
  returns, and the event loop reads. `KListOpenFilesJob`: lsof makes progress, its end
  is told, and slots return.

The other specifications have safety properties only, and no fairness. Deadlock
is checked in the runs of the cache, the mapping and `job_life` (final
states have an explicit stuttering action); the others stop when nobody calls,
nothing changes any more, or a bound is reached.

## 4. Proofs

What the runs check on small instances is proved for any number of processes,
pages, slots, keys, values, subjobs, objects and names, for any depth of nested
calls, and without the bounds on counters (which stay in the guards, with
any value).

| Theorem | Of | Says, in words |
|---|---|---|
| `KServicesProofs!TypeCorrect`, `SetupExclusive`, `OperationsReady` | `TypeOK`, `SetupIsExclusive`, `OperationsSeeReady` | one process sets up a segment, and nobody uses one that is not set up |
| `KSharedDataCacheProofs!SegmentIsSound` | `SegmentSound` | tables agree with each other, entries are on their probe chains |
| `...!RoomIsFound` | `RoomFound` | free pages that are enough are found, after defragmenting at the latest |
| `...!ContentsAreIntact` | `ContentsIntact` | the pages of an entry hold its item, whole and in order |
| `...!ChecksNeverFire` | `TablesNeverThrow`, `ReadableButAtEnd` | no check of the tables fires, and every page but the end of the last can be read, so that nothing else throws the contents away |
| `...!ItemsAreKept` | `ItemsKept` | both of them, however much of that end is unmapped |
| `...!StoredIsThere` | `FoundAfterInsert` | what `insert` has stored is found by the next `find` |
| `...!ImplementsLossyCache` | `RefinesLossyCache` | the cache implements `LossyCache`, step by step, with what is left of failed inserts |
| `KSDCDefragmentProofs!LoopDefragments` | `DefragmentSound` | the nested loops compute what `defragment` says |
| `KJobProofs!JobTypeCorrect`, `EmitsOnce`, `QuietIsQuiet` | `TypeOK`, `SignalsOnce`, `QuietKillIsQuiet` | signals come once, and none after a quiet kill |
| `KJobProofs!ExecIsSafe` | `NoLostQuit`, `ExecWaits` (the safety half of `ExecSound`) | `exec()` returns only when the job has finished, and a finish is never lost on its loop |
| `KCompositeJobProofs!SubjobsAreSound` | `SubjobsSound` | the list is that of the subjobs that can still report, and they die with the composite |
| `KCompositeJobProofs!FirstErrorIsReported` | `ReportsFirstError` | the composite reports once, with the first error |
| `KPartsProofs!EditedOnlyByOne`, `CrashedWorkIsKept`, `NoFileIsLeft` | `EditedByOne`, `CrashKeepsWork`, `NothingLeftBehind` | two objects have one file open only over a broken lock; crashed work stays; else nothing does |
| `KServicesProofs!EngineIsShared` | `EngineShared` | engine and active notifiers agree |
| `KServicesProofs!CacheIsTransparent` | `CacheTransparent` | remembered answers are those that would be found |
| `KServicesProofs!ProgressIsTold` | `ProgressTold` | percentage, amounts, speed and elapsed time are those of the job, but for amounts reported inside their own signal, a speed reported inside `speed(0)`, and a timer that stood when the job was suspended |
| `KServicesProofs!BackupsAreKept` | `BackupsKept` | backups stay in order, and go only when their number is too high |
| `KServicesProofs!SignalsKeepTheirOrder` | the safety half of `SignalsReceived` | what is emitted is what was written, in order; no read of an empty socket |
| `KServicesProofs!LsofReportsOnce` | the safety half of `LsofReports` | one report, an error or a list |
| `KSDCLayoutProofs!LayoutIsSound` | the first half of `CachesSound` | for every size asked for and every address: the page size is accepted, the slots of a chain are distinct and small pages are at one place; all but the end of the last page is mapped, unless a process asks for less than the header says or that size wrapped around |
| `KSDCLayoutProofs!LockIsChosen` | `LockChosen` of `CachesSound` | on every platform the lock is one that works there and is shared |
| `KSDCLayoutProofs!HashIsSameAnywhere` | `SameAnywhere` of `CachesSound` | a key has the same hash at every address, whatever its length |
| `KSDCLayoutProofs!LockIsKept` | `LockKept` of `CachesSound` | for any callers and calls: one holder, until a process attaches while the lock is held or one whose `lock()` timed out releases it, each of which lets in no more than one; a lock that nobody holds can be taken |
| `KPartsProofs!ProcessIsSound` | `ProcessSound` | the child sees the environment the calls leave, the host is told what they have set; `execute()` leaves no process behind and tells its code |
| `KPartsProofs!PortalIsSound` | `PortalSound` | an open transfer has a file for each url of its object, which lives unless another transfer has ended; a reader gets the urls of the object or those files, in order, for any sizes of batches |
| `KPartsProofs!CacheIsUnseen` | the first half of `PluginsSound` | what a search finds does not depend on the cache, but for files whose time is not later than that of the cached one and for the options of others |
| `KPartsProofs!AboutDataIsSound` | the first half of `AboutDataSound` | no copy lacks a licence or has one of the object it was copied from; only a licence handed to `addLicense()` points elsewhere; registry and Q*Application agree until one of them is set alone |

### Assumptions

They are the named `ASSUME`s of the modules (`SizesAssumption`, `ItemsAssumption`,
`ProbesDistinct`, `JunkAssumption`, `PiecesAssumption`, `MappingAssumption`,
`MountsAssumption`, `BackupAssumption` and so on: numbers are numbers, lists are
sequences, a batch has a url at least, addresses of a mapping are aligned to words, a
special value is none of the ordinary ones, a caller's `maxBackups` comes from a
finite set since it is a `uint`), evaluated by TLC in the runs, and these premises:

- `LabelsFit`, for what the pages hold: the label that is written over a removed
  item stays inside of it. That is so in a build without the label (`LabelLength = 0`) and
  whenever label and key fit the entry's pages. Without it a removal can write into
  another item's page, as "Met on the way" says.
- `Hash[k] # 0`, for `StoredIsThere`: a free slot has hash 0, and so
  `findNamedEntry()` takes it for the entry of a key whose hash is 0.
- `~ReusesFailed`, for the auto-save files: `setManagedFile()` is not called on an object whose
  `open()` failed, for the lock of the old name would stay. With `ReusesFailed` the
  properties do fail.

### Inductive invariants

*KSDCMapping.* Neither safety property is inductive: a process that waits could
find `ready = 0` on a segment somebody sets up. `IInv` adds `MappedWhenAttached`
(who is past `open` maps a segment) and `SetupIsMarked` (a segment that is set up
has `ready = 1`). `LocalStep` is the argument common to most actions: a step
of p that does not begin a set-up and leaves the `ready` of segments that others
map alone keeps `IInv`. `Claim` and `Setup` are proved apart: `Claim` needs
`ready = 0`, which by `SetupIsMarked` and `OperationsSeeReady` no set-up
and no use is compatible with; `Setup` turns 1 into 2 because the one set-up is its
own. Unlinking needs `Reachable` to keep every mapped segment as it is.

*KSDCMemory, KSharedDataCache.* `Sound` (shape, `TablesAgree`, probe chains) is the
invariant for the tables. Each helper has a lemma that says what it does to a sound
segment: removing any set of entries, defragmenting, evicting and inserting. Whether
there is room is a question of cardinalities: free pages are counted by
`cacheAvail`, and `NewPosition`, the number of used pages before a page, is
an order-preserving map of the used pages onto an initial interval, so that
`defragment` leaves one run of free pages. `AllWhole` says for the pages what
`Sound` says for the tables (piece n of the item is in page n of the entry), and is
carried along the same lemmas; moving pages keeps it because the pieces of an entry
move together. Both speak of the entries that no `insert()` has left half-made (`failed`);
the tables of a half-made one are as sound as any. The abstract step of every operation is read off from the two:
`Held` only loses values, or gains the inserted one, and a key is spoiled only by an `insert()` of its hash that
failed. A least or greatest
element of a set of naturals is had from the well-foundedness of finite subsets
(`LeastNatural`, `GreatestNatural`), as no induction theorem of the library can be
instantiated.

*KSDCDefragment.* `DefragmentInv` says how far the loop is: used pages left of
`currentPage` are at their `NewPosition`, what lies between is free, nothing has
changed to the right of it, entries follow their first pages, and the word before the
table holds what the last overrun wrote. When the loop ends that is `defragment`.

*KJob.* `SignalsOnce` and `QuietKillIsQuiet` depend on the calls that are still
on the stack: one that has emitted `finished()` is going to emit `result()`, or
not. `FramesAreSound` says that such a call belongs to a finished job, that
`result()` has not been emitted yet, and that after a quiet kill it will not be;
`OneFinish` that there is only one. `PushKeeps`, `BecomeKeeps` and `PopKeeps` are the three
ways of changing the stack; each action is an instance of one of them. `ExecInv` adds
that the call of `exec()` is the outermost one, that its loop is there as long as it
is, and has been told to quit once the job has finished.

*KCompositeJob.* The list alone says nothing while slots run. `FramesAreSound`
tells for every call on the stack what its job has done; `ListIsSound` that a listed job is
a connected child that has not reported or is just doing so, or is `abandoned`;
`ErrorIsFirst` that the composite has the first error from the moment it finishes on;
`GoneIsQuiet`, `DeletedAreFinished` and `DiesWithComposite` are about deletion.

*KAutoSaveFile.* `ObjectsAreSound` relates name, lock, handle and step of one object;
`LocksAreSound` says that who holds a lock has written the lock file, or it was broken, and
the converse; `RemovedByHolder` that a file is not removed under somebody who holds its
lock, unless the two raced or the lock was broken; `LeftAlone` that nobody works on the
files of a crash; `FilesAreOwned` that without crashes every file has an object.

*KSDCLayout.* `LayoutInv`: the header is empty, with nobody attached, or `Proper`, with a
page size of one of the bits 9 to 18 and at least 256 such pages. The rest is arithmetic
on a proper header: `Division` and `Quotient` say what `\div` and `%` are, `Aligned`,
`AlignedFrom` and `AlignedGrows` what `alignTo()` does, and from these `LastPageMapped`
follows: what `totalSize()` counts, with the size rounded up to a number of pages, is at
least what the accessors reach, without the padding before the pages.
The hash of a key is that of its words (`WordsOf`): the aligned reads give them one by one,
and the unaligned ones the same after shifts, which `HashOfUnaligned` shows for each
alignment. A lock keeps `Excludes` at every call: holders and free places together are at
most one more than the calls that did harm; that it holds after a whole history is
had from the lemmas about loops in `KPartsProofs`.

*KUrlMimeData.* `MimeInv`: `OwnersInv` ties an open transfer to its object (its files are
those of the urls, and the interface that is to stop it lives unless another transfer
has ended); `KeptInv` says that the transfer of an object is its own, and that what a
reader remembers of one are its files; `GotInv` that so is what a reader was given. The
exports go by batches: that appending one after the other gives the whole list is a
lemma about sequences of any length.

*KProcess.* `ProcessInv`: at any time what the calls ask for is what a child would get now
(`Effective = wanted`), through the dummy variable that stands for an empty
environment.

*KPlugins.* `PluginInv`: an entry that was cached after its file was installed has the
content of that file, and nothing was installed or cached in time to come. A search is right since it takes
an entry only when that holds.

*KAboutData.* `AboutInv`: both copies are `Whole`, with a first licence, and all licences
theirs, but for those handed to `addLicense()`; while registry and application are in step their fields are the same.

*Services.* `SkewInv`: who is owed news of a change holds the engine, and slots run for
connected notifiers. `MountsInv`: entries of the cache are true of the links as they
are, and of paths only. `ProgressInv`: a percentage or speed that is out of date is
going to be told by a call on the stack (`PercentIsDue`, `SpeedIsDue`), as is an amount,
unless it was overtaken (`AmountsAreDue`), and the timer
runs just when time is measured (`TimerRuns`). `BackupInv`: numbers go with age, no
backup is newer than the file, and the renaming is below its limit. `SignalsInv`: what
was written is what was received and then what the socket holds. `LsofInv`: until the
job has finished nothing was listed, set or reported, and from then on one report is.

### Only model-checked

- Liveness (`NobodyHangs`, `Terminates`, `CompositeEnds`, `StaysUpToDate`,
  `SignalsReceived`, and the second halves of `ExecSound` and `LsofReports`), which is
  outside of what the prover handles.
- `KDirWatch` (`EntriesSound`, `WatchTableSound`, `NoOrphans`, `WatchesCurrent`):
  `addEntry()` and `removeEntry()` call themselves up and down the tree, with no bound on
  its depth, and every handler is a fold over the entries of the map with these as its
  steps. What such a recursion preserves is an induction over data.
- What the pure operators compute (`QuotingSound`, `TextsSound`, `SystemSound`, and the
  second halves of `AboutDataSound` and `PluginsSound`, whose state machines
  are proved): induction over texts, and recursive operators. Of `CachesSound` it is what
  is promised of the cache without shared memory (`CachePromised`), whose list of items
  is filtered at every call.

## 5. Not modelled

- KSharedDataCache: failures of `mmap`, `mlock`, `posix_fallocate` and single
  calls of the pthread library; wrong versions and lock types in files written by
  other programs; arbitrarily corrupted segments; the wrap-around of `useCount`;
  `freeSize()` and other queries. An operation that runs without the lock is shown to
  be possible (`TimeOutSafe`, `mapping_reattach`), and not what it does to the tables.
- KCompositeJob: the composite is deleted from outside of any slots only, by its owner or by
  the event loop.
- KShell: the escapes `\c`, `\x` and octal with the errors of their own
  (`kshell_unix.cpp:198-237`).
- KAboutData: a name of the application that is a path, of which the last part is taken.
- KDirWatch: a watch that is stopped and restarted with other calls in between (the actions
  are there, the bound on the calls of the run is too small for effects); the reuse of
  the number of a watch by the kernel; the QFileSystemWatcher mode (a thin layer over Qt), hard and symbolic
  links, the lengths of polling intervals, moving an instance to another thread, the
  overflow of the kernel's queue.
- KBackup: `simpleBackupFile()`, two calls; the names of backups.
- KFormat: the narrow forms, and words in general, which are translations.
  KTextToHTML: the option for emoticons together with the others, and schemes beyond
  a few. KStringHandler: `tagUrls()`, `logicalLength()`.
- KUser on Windows: pictures. KUserProxy: host name and `os-release`.
- KUrlMimeData: the escapes of a url in the text of a list.
- What libraries do: loading plugins, parsing JSON and XML, QProcess's channels,
  QLockFile, the portal and the kernel, of which each module has what the
  code relies on.
- KLibexec, KRuntimePlatform and the QML proxies put constants together and pass
  calls on; KRandom and the version have nothing to get
  out of step; static plugins are a global list that only grows.

Texts of errors, translations and layout are left out everywhere.

## 6. Plan

The plan was: the cache first, its tables and pages, then what is around it; jobs;
the directory watcher; the small services; then what only computes, and at last the
proofs in the same order. All of it is there but:

1. an operation of KSharedDataCache in steps, for a process that runs without the
   lock, and for `setTimestamp()` beside an eviction;
2. more instances of `KDirWatch`: two instances of a thread with shared entries, two
   entries in one directory, files on NFS;
3. the narrow forms of `KFormat`; `tagUrls()`;
4. the lock of `KSDCMapping`: that it is exclusive among processes that attached before
   it was taken, which is what remains of `LockIsExclusive`.
