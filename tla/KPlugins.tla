------------------------------- MODULE KPlugins -------------------------------
(***************************************************************************)
(* The search for plugins in a directory, with the cache of their metadata *)
(* (kpluginmetadata.cpp), and the classes that a factory offers            *)
(* (kpluginfactory.cpp).  Other programs install and replace the files     *)
(* while a search goes through them.                                       *)
(*                                                                         *)
(* A file has metadata or, as the content "empty", none; its id is its     *)
(* base name, which a file of another library path may have too.  Static   *)
(* plugins come before and do not touch the cache.                         *)
(***************************************************************************)
EXTENDS Naturals, SequencesExt

CONSTANTS
    PluginFiles,    \* the files of all library paths, in the order they are found
    PluginId,       \* the id of every one
    Contents,       \* the metadata a file can hold; "empty" is none
    MaxNow,         \* bound on the clock
    MaxCache        \* bound on the entries of the cache

ASSUME PluginAssumption == PluginFiles \in Seq(ToSet(PluginFiles)) /\ {MaxNow, MaxCache} \subseteq Nat

VARIABLES
    pluginFiles,    \* the content of every file, its modification time, and when it came there
    now,            \* the clock, in milliseconds
    pluginCache,    \* the entries of the directory, in the order they were added
    search          \* the search that runs: what is left, what it found

pluginVars == <<pluginFiles, now, pluginCache, search>>

FileNames == ToSet(PluginFiles)
Absent == "absent"
NoSearch == [running |-> FALSE, todo |-> <<>>, results |-> <<>>, cached |-> FALSE,
             allowEmpty |-> FALSE, accepts |-> {}, ts |-> 0]

(* isValid(): the options are those the metadata was read with. *)
isValid(m) == m.content # "empty" \/ m.allowEmpty

(* The entry of the cache for a file: the first of its name, or none. *)
EntryOf(f) ==
    LET indices == {i \in DOMAIN pluginCache : pluginCache[i].file = f}
    IN IF indices = {} THEN <<>> ELSE <<pluginCache[CHOOSE i \in indices : \A j \in indices : i <= j]>>

(* Mutant: an entry is good as long as the file is there. *)
IsNew_OnlyAbsent(f) == EntryOf(f) = <<>>

(* Is the metadata read anew: when the file changed after it was last read. *)
IsNew(f) == EntryOf(f) = <<>> \/ EntryOf(f)[1].lastQueriedTs < pluginFiles[f].modified

(* Mutant: also what the filter refuses hides the files after it. *)
Taken_Refused(m) ==
    /\ isValid(m) /\ m.content \in search.accepts
    /\ \A i \in DOMAIN PluginFiles :
          PluginFiles[i] # m.file /\ PluginId[PluginFiles[i]] = PluginId[m.file]
            => PluginFiles[i] \in ToSet(search.todo)

(* Is the metadata among the results: one of an id, and accepted. *)
Taken(m) ==
    /\ isValid(m) /\ m.content \in search.accepts
    /\ \A i \in DOMAIN search.results : PluginId[search.results[i].file] # PluginId[m.file]

findPlugins(cached, allowEmpty, accepts) ==
    /\ ~search.running
    /\ search' = [running |-> TRUE, todo |-> PluginFiles, results |-> <<>>, cached |-> cached,
                  allowEmpty |-> allowEmpty, accepts |-> accepts, ts |-> now]
    /\ UNCHANGED <<pluginFiles, now, pluginCache>>

(* The callback of forEachPlugin() for the next file, if it is there. *)
forEachPlugin ==
    LET f == Head(search.todo)
        fresh == [file |-> f, content |-> pluginFiles[f].content,
                  allowEmpty |-> search.allowEmpty, lastQueriedTs |-> search.ts]
        reads == ~search.cached \/ IsNew(f)
        metadata == IF reads THEN fresh ELSE EntryOf(f)[1]
        there == pluginFiles[f].content # Absent
    IN /\ search.running /\ search.todo # <<>>
       /\ search.cached /\ there /\ reads => Len(pluginCache) < MaxCache
       /\ pluginCache' = IF search.cached /\ there /\ reads
                         THEN Append(pluginCache, fresh) ELSE pluginCache
       /\ search' = [search EXCEPT !.todo = Tail(@),
                        !.results = IF there /\ Taken(metadata) THEN Append(@, metadata) ELSE @]
       /\ UNCHANGED <<pluginFiles, now>>

SearchReturns ==
    /\ search.running /\ search.todo = <<>>
    /\ search' = NoSearch
    /\ UNCHANGED <<pluginFiles, now, pluginCache>>

(* A file is installed or replaced, and has the modification time that it is   *)
(* given: now, or an old one as files out of a package have; or is removed.  *)
Install(f, content, modified) ==
    /\ content # pluginFiles[f].content
    /\ pluginFiles' = [pluginFiles EXCEPT
                          ![f] = [content |-> content, modified |-> modified, installed |-> now]]
    /\ UNCHANGED <<now, pluginCache, search>>

(* Time passes. *)
Later ==
    /\ now < MaxNow
    /\ now' = now + 1
    /\ UNCHANGED <<pluginFiles, pluginCache, search>>

PluginInit ==
    /\ pluginFiles \in [FileNames -> [content : Contents \cup {Absent}, modified : {0}, installed : {0}]]
    /\ now = 1 /\ pluginCache = <<>> /\ search = NoSearch

(* A search takes all plugins, or those that say something of themselves. *)
Filters == {Contents, Contents \ {"empty"}}

PluginNext ==
    \/ \E cached, allowEmpty \in BOOLEAN, accepts \in Filters :
          findPlugins(cached, allowEmpty, accepts)
    \/ forEachPlugin
    \/ SearchReturns
    \/ \E f \in FileNames :
          \/ \E content \in Contents, modified \in {0, now} : Install(f, content, modified)
          \/ Install(f, Absent, 0)
    \/ Later

-----------------------------------------------------------------------------
(* The classes of a factory; superClass gives the class above each, and      *)
(* "QObject" has none.                                                     *)

RegisteredAbove(superClass, class) ==
    LET chain[n \in 0 .. Cardinality(DOMAIN superClass)] ==
            IF n = 0 THEN class
            ELSE IF chain[n - 1] = "QObject" THEN "QObject" ELSE superClass[chain[n - 1]]
    IN {chain[n] : n \in 1 .. Cardinality(DOMAIN superClass)}

(* registerPlugin() warns of two plugins that implement the same interface. *)
registerPluginWarns(superClass, plugins, class) ==
    \E p \in ToSet(plugins) :
        \/ superClass[class] \in RegisteredAbove(superClass, p)
        \/ superClass[p] \in RegisteredAbove(superClass, class)

(* create(): the first plugin that is of the class or below it. *)
create(superClass, plugins, iface) ==
    SelectSeq(plugins, LAMBDA p : iface = p \/ iface \in RegisteredAbove(superClass, p))

(* create<T>(): what is made is deleted when it is no T, as when another library  *)
(* has a class of that name (foreign: those that are below it).             *)
createOf(superClass, plugins, iface, foreign) ==
    LET made == create(superClass, plugins, iface)
    IN IF made = <<>> \/ made[1] \in foreign THEN <<>> ELSE <<made[1]>>

(* instantiatePlugin(): loaded is what loadFactory() came to. *)
instantiatePlugin(loaded, superClass, plugins, iface, foreign) ==
    LET made == createOf(superClass, plugins, iface, foreign)
    IN CASE loaded # "factory" -> [plugin |-> <<>>, errorReason |-> loaded]
         [] loaded = "factory" /\ made = <<>> ->
              [plugin |-> <<>>, errorReason |-> "INVALID_KPLUGINFACTORY_INSTANTIATION"]
         [] OTHER -> [plugin |-> made, errorReason |-> "NO_PLUGIN_ERROR"]

-----------------------------------------------------------------------------
(* The entry that a search would use for a file is older than the file, and     *)
(* cannot be told to be: the file has replaced the one that was read, and is  *)
(* given a modification time that is not later than that search began (see   *)
(* kpluginmetadata.cpp:281).  The old metadata then stays in use for good.   *)
Backdated(f) ==
    /\ EntryOf(f) # <<>>
    /\ pluginFiles[f].modified <= EntryOf(f)[1].lastQueriedTs
    /\ EntryOf(f)[1].lastQueriedTs <= pluginFiles[f].installed

(* Or it was read for a caller with other options. *)
ReadOtherwise(f) == EntryOf(f) # <<>> /\ EntryOf(f)[1].allowEmpty # search.allowEmpty

(* A search that may use the cache finds what one without it would find, file *)
(* by file, although files are replaced before, between and while it goes on; *)
(* unless a file was replaced by one that is not newer than the search which *)
(* read it, or was read first for a caller with other options.  In these two *)
(* cases, which nothing in the code excludes, the cache may be seen.         *)
FileUnseen ==
    search.running /\ search.todo # <<>> /\ search'.todo # search.todo =>
        LET f == Head(search.todo)
            uncached == [file |-> f, content |-> pluginFiles[f].content,
                         allowEmpty |-> search.allowEmpty, lastQueriedTs |-> search.ts]
            found == [i \in DOMAIN search'.results |->
                        [file |-> search'.results[i].file, content |-> search'.results[i].content]]
            before == [i \in DOMAIN search.results |->
                        [file |-> search.results[i].file, content |-> search.results[i].content]]
            first == {i \in DOMAIN search.results :
                        PluginId[search.results[i].file] = PluginId[f]} = {}
        IN \/ found = IF /\ uncached.content # Absent /\ isValid(uncached) /\ first
                         /\ uncached.content \in search.accepts
                      THEN Append(before, [file |-> f, content |-> uncached.content]) ELSE before
           \/ Backdated(f) \/ ReadOtherwise(f)

CacheUnseen == [][FileUnseen]_search

(* As long as registering warned of nothing, every plugin is what create()     *)
(* gives for the class it was registered as and for the one above it, in       *)
(* whatever order they were registered.                                    *)
FactorySound(superClass, plugins) ==
    (\A n \in DOMAIN plugins :
        ~registerPluginWarns(superClass, SubSeq(plugins, 1, n - 1), plugins[n])) =>
    \A n \in DOMAIN plugins :
        /\ create(superClass, plugins, plugins[n])[1] = plugins[n]
        /\ create(superClass, plugins, superClass[plugins[n]])[1] = plugins[n]

(* There is an error exactly if there is no plugin; a plugin is of the class     *)
(* asked for, and where there is none although the factory has one, another    *)
(* library's class of that name was registered before it.                  *)
InstanceRight(loaded, superClass, plugins, iface, foreign) ==
    LET result == instantiatePlugin(loaded, superClass, plugins, iface, foreign)
        Fits(n) == plugins[n] \notin foreign
                     /\ (plugins[n] = iface \/ iface \in RegisteredAbove(superClass, plugins[n]))
    IN /\ (result.plugin = <<>>) = (result.errorReason # "NO_PLUGIN_ERROR")
       /\ result.plugin # <<>> => \E n \in DOMAIN plugins : Fits(n) /\ result.plugin = <<plugins[n]>>
       /\ result.plugin = <<>> /\ loaded = "factory" =>
             \A n \in DOMAIN plugins : Fits(n) => \E m \in 1 .. n - 1 : plugins[m] \in foreign
=============================================================================
