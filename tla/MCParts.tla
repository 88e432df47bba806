------------------------------- MODULE MCParts -------------------------------
(***************************************************************************)
(* Components that share nothing with each other, checked by one run:      *)
(* topic is the one a behaviour is about.  Those with a state take their   *)
(* steps and the rest stays; those that only compute have an input, which  *)
(* is a text that grows character by character or a value out of a set.    *)
(***************************************************************************)
EXTENDS KSDCLayout, KAutoSaveFile, KAboutData, KProcess, KUrlMimeData,
        KPlugins, KFuzzyMatcher

CONSTANTS f1, f2, a1, a2, m1, m2, MaxText

VARIABLES topic, input

(* Every auto-save file object is in a process of its own. *)
MCProcess == [f \in Objects |-> f]
MCSymmetry == Permutations(Objects)

(* The sizes of an x86-64 Linux build, at and around the boundaries of the     *)
(* computation of the page size and of the range of an unsigned int, which   *)
(* has 2^28 values here: the size of one cache does not fit it with small     *)
(* pages and does with large ones, and that of another makes intCeil() throw. *)
MCItemSizes == {0, 1, 511, 1024, 8191, 262143, 262144, 1048576}
MCCacheSizes == {0, 131073, 67108863, 268000000, UintSize - 1}

MCAppStreamFiles ==
    {[license |-> "GPL_V3", fields |-> [f \in {"displayName"} |-> "n"]],
     [license |-> "none", fields |-> [f \in {"componentName"} |-> "n"]]}

Url(name, local, link) == [name |-> name, local |-> local, link |-> link]
MCUrlLists ==
    {<<>>, <<Url(1, TRUE, FALSE), Url(2, FALSE, FALSE), Url(3, TRUE, FALSE)>>,
     <<Url(4, TRUE, TRUE)>>, <<Url(5, TRUE, FALSE)>>}

MCShells == <<"zsh">>

MCPluginFiles == <<"app/x", "lib/x">>
MCPluginId == [f \in ToSet(MCPluginFiles) |-> "x"]

-----------------------------------------------------------------------------
(* The components that only compute. *)

User == <<"b">>
HomePath == <<"/", "h">>
UserHome == <<"/", "b">>
Width == 4096
kB == 4
Macro == "n"
KnownKeys == {<<"n">>}
ListKey == <<"h">>
BufferSize == 2
PasswdSize == 2
GroupSize == 2
GroupLimit == 16

Shell == INSTANCE KShell
Win == INSTANCE KShellWin
Strings == INSTANCE KStringHandler
Format == INSTANCE KFormat
Trackers == {"t", "u"}
Delegates == {"d", "e"}
Observers == INSTANCE KJobObservers
YourNames == <<"n">>
YourEmails == <<"@">>
AppStream == INSTANCE KAppStream
Users == INSTANCE KUsers
PluginData == INSTANCE KPluginData
System == INSTANCE KSystemInfo
UsersWin == INSTANCE KUsersWin
WinCache == INSTANCE KSharedDataCacheWin

(* Some of the emoticons of the table, and what they are made of. *)
Alphabet == <<" ", "&", "(", ")", "-", ":", ";", "<", ">", "a", "g">>
emoticons_map ==
    <<<<"&", "g", ";", ":", "(">>, <<":", "(">>, <<":", "(", "(">>, <<":", ")">>, <<":", ")", ")">>,
      <<":", "-", ")">>>>
Html == INSTANCE KTextToHTML
Options == {"PreserveSpaces", "ConvertPhoneNumbers", "HighlightText"}

ShellCommands ==
    {[text |-> "a b", split |-> <<"a", "b">>], [text |-> "b", split |-> <<"b">>], [text |-> "a;b", split |-> Meta]}

(* Elements of an AppStream file. *)
NotePart == [name |-> "text", lang |-> <<>>, content |-> <<"n">>]
AppStreamRelease(version, content) ==
    [name |-> "release", version |-> version, date |-> "today", content |-> content, url |-> ""]
AppStreamElements ==
    [name : {"id", "developer"}, text : {"b"}] \cup [name : {"project_license"}, keyword : {<<"MIT">>}]
      \cup [name : {"name"}, lang : {<<>>, <<"de">>}, text : {"b"}]
      \cup [name : {"summary"}, lang : {<<"de">>}, text : {"s"}]
      \cup [name : {"url", "value"}, type : {"bugtracker"}, text : {"b"}]
      \cup {[name |-> "url", type |-> "bugtracker", text |-> "c"], [name |-> "releases"],
            AppStreamRelease("1", <<[name |-> "p", lang |-> <<>>, content |-> <<NotePart>>],
                                    [name |-> "p", lang |-> <<"de">>, content |-> <<NotePart>>]>>),
            AppStreamRelease("2", <<>>)}
      \cup {[name |-> "provides", content |-> [i \in 1 .. n |-> [name |-> "binary", text |-> <<"x", "y">>[i]]]] : n \in {1, 2}}

(* Calls of the setters of a KAboutData, and the getters that are about them. *)
AboutCall(op, about, arg) == [op |-> op, about |-> about, arg |-> arg]
AboutCalls ==
    {AboutCall("setComponentName", {"componentName"}, "n"), AboutCall("setVersion", {"version", "internalVersion"}, "v"),
     AboutCall("setDisplayName", {"displayName", "internalProgramName"}, "d"),
     AboutCall("setShortDescription", {"shortDescription"}, "s"), AboutCall("setOtherText", {"otherText"}, "o"),
     AboutCall("setCopyrightStatement", {"copyrightStatement"}, "c"), AboutCall("setBugAddress", {"bugAddress", "internalBugAddress"}, "b"),
     AboutCall("setOrganizationDomain", {"organizationDomain"}, "od"),
     AboutCall("setProductName", {"productName", "internalProductName"}, "p"), AboutCall("programLogo", {"programLogo"}, "l"),
     AboutCall("desktopFileName", {"desktopFileName"}, "f"), AboutCall("setHomepage", {"homepage"}, "h"),
     AboutCall("addAuthor", {"authors"}, AppStream!Person("a", "t", "e", "w", "i")),
     AboutCall("addCredit", {"credits"}, AppStream!Person("b", "", "", "", "")),
     AboutCall("addComponent", {"components"}, AppStream!Component("x", "d", "1", "w", AppStream!License("MIT", FALSE))),
     AboutCall("addComponent", {"components"}, AppStream!Component("y", "", "", "", AppStream!FromPath("file"))),
     AboutCall("setTranslator", {"translators"}, <<"a">>),
     AboutCall("addRelease", {"releases"}, AppStream!Release("1", "t", "d", "r", "u"))}
      \cup {AboutCall(op, AppStream!CustomTexts \cup {"customAuthorTextEnabled"},
                      IF op = "setCustomAuthorText" THEN "t" ELSE "") :
              op \in {"setCustomAuthorText", "unsetCustomAuthorText"}}
      \cup {[type |-> type] @@ AboutCall("setUrl", {type}, "u") : type \in {"homepage", "bugtracker"}}

(* What the text of a topic is made of, piece by piece. *)
Pieces ==
    [t \in {"shell", "macro", "map", "win", "html", "phones", "strings", "fuzzy", "emoticons", "locks", "wincache",
            "commands", "metadata", "userproxy", "observers", "licensing", "translators", "entities", "appstream"} |->
        CASE t = "shell" ->
               {<<c>> : c \in {"a", "=", " ", "~", "/", "'", "\"", "\\", "$", "^", "#", "b"}}
          [] t = "macro" ->
               {<<c>> : c \in {"%", "n", "(", ")", "{", "}", " ", "'", "\"", "\\", "$", "backquote"}}
          [] t = "map" -> {<<c>> : c \in {"%", "n", "b", "{", "}", " "}}
          [] t = "win" -> {<<c>> : c \in {"a", " ", "\\", "\"", "^", "%", "&", "m"}}
          [] t = "html" ->
               {<<c>> : c \in {"a", " ", "@", ".", "<", ">", "(", ")", "\"", "[", "&", "#", "-"}}
                 \cup {<<"w", "w", "w", ".">>, <<"h", "t", ":", "/", "/">>, <<"a", "@", "a", ".", "a">>}
          [] t = "phones" ->
               {<<c>> : c \in {" ", "\n", "\t", "(", ")", "/", "*", "a", "0", "."}}
                 \cup {<<"1", "1", "1", "1", "1", "1">>, <<"@", "a", ".", "a">>}
          [] t = "emoticons" ->
               {<<c>> : c \in {" ", "(", "-", "<", ">", "a"}} \cup {<<":", ")">>, <<":", "(">>, <<"&", "g", ";">>}
          [] t = "commands" ->
               {<<e>> : e \in [op : {"clearProgram"}] \cup [op : {"setProgram"}, argv : {<<"a", "b">>}]
                             \cup [op : {"setProgram_argv", "<< list"}, argv : {<<>>, <<"b", "a">>}]
                             \cup [op : {"<<"}, arg : {"a", "b"}]
                             \cup [op : {"setShellCommand"}, platform : {"windows"}, cmd : {[text |-> "a;b", split |-> Meta]}]}
          [] t = "userproxy" ->
               {<<e>> : e \in [path : {Users!HomeIcon}, value : 0 .. 2]
                            \cup [path : {Users!AccountsIcon(n) : n \in {"a", "b"}}, value : {0, 3}]}
                 \cup {<<[path |-> Users!EtcPasswd, value |-> n]>> : n \in {"a", "b"}}
          [] t = "metadata" -> {<<c>> : c \in {"$", "@", "a"}}
          [] t = "observers" ->
               {<<e>> : e \in [op : {"register"}, who : Trackers] \cup [op : {"unregister"}, who : {"t"}] \cup [op : {"emit"}, signal : {"speed", "warning"}]
                             \cup [op : {"delegate"}, who : Delegates \cup {"none"}]
                             \cup [op : {"auto"}, who : Delegates, enable : {TRUE}]
                             \cup [op : {"finish"}, error : {"Error"}, emitResult : {TRUE}]}
          [] t = "licensing" ->
               {<<call>> : call \in [op : {"set", "add"}, arg : {"Unknown", "MIT"}, orLater : {FALSE}]
                            \cup [op : {"set", "add"}, arg : {"GPL_V3"}, orLater : BOOLEAN]
                            \cup [op : {"setText", "addText"}, arg : {"", "t"}] \cup [op : {"setFile", "addFile"}, arg : {"file"}]}
          [] t = "translators" -> {<<c>> : c \in {"n", "m", ",", " "}}
          [] t = "entities" -> {<<c>> : c \in {"<", "&", "'", ";", "l", "t"}}
          [] t = "appstream" -> {<<e>> : e \in AppStreamElements}
          [] t = "locks" -> {<<call>> : call \in [op : {"lock", "unlock"}, who : {1, 2, 3}] \cup {[op |-> "attach"]}}
          [] t = "wincache" ->
               {<<call>> : call \in [op : {"insert"}, key : {"j", "k", "l"}, value : {"v", "w"}]
                            \cup [op : {"find", "remove"}, key : {"j", "k"}] \cup [op : {"clear"}]}
          [] t = "strings" -> {<<c>> : c \in {"a", "B", " ", "(", ")", "'", ","}}
          [] t = "fuzzy" -> {<<[letter |-> "a", upper |-> FALSE]>>, <<[letter |-> "a", upper |-> TRUE]>>,
                             <<[letter |-> "b", upper |-> FALSE]>>, <<[letter |-> "b", upper |-> TRUE]>>,
                             <<[letter |-> "_", upper |-> FALSE]>>}]

(* The values a macro can have, and the patterns that are looked for. *)
MacroValues ==
    {<<>>, <<"n">>, <<"n", " ">>, <<"'">>, <<"\"", "n">>, <<"\\">>, <<"$", "(">>, <<"%", "n">>}
WinValues ==
    {<<>>, <<"a">>, <<"a", " ">>, <<"\"">>, <<"\\", "a">>, <<"\\", "\"">>, <<"&">>, <<"^">>,
     <<"%">>, <<"a", "\\">>}
Patterns == UNION {[1 .. n -> [letter : {"a", "b"}, upper : {FALSE}]] : n \in 1 .. 4}

Durations ==
    {[day |-> d, ms |-> m + s] :
        d \in {0, 1, 30, 364, 365, 366, 729, 730},
        m \in {0, 60000, 120000, 3600000, 3660000, 7140000, 82800000, 86340000},
        s \in {0, 1, 499, 500, 29499, 29500, 29999, 30000, 59499, 59500, 59999}}
DurationOptions ==
    SUBSET {"HideSeconds", "ShowMilliseconds", "FoldHours", "AbbreviatedDuration", "InitialDuration"}
Sizes == [m : {0, 1, 999, 1000, 1023, 1024, 999999, 1000000, 1048575, 1048576}, e : 0 .. 9]
Seconds ==
    {-200000, -90000, -86400, -3600, -3599, -120, -119, -60, -59, -1, 0, 1, 59, 60, 119, 120,
     1523, 1524, 3599, 3600, 9999, 10000, 86399, 99999, 100000, 100001, 160934, 160935, 200000}

(* Zones of a time: those east of the system by one or two hours, one without    *)
(* daylight time, one without a name, and one with the name of another.       *)
Zone(standard, daylight, name, summerName) ==
    [standard |-> [offset |-> standard, name |-> name], daylight |-> [offset |-> daylight, name |-> summerName]]
Zones ==
    {Zone(0, 1, "WET", "WEST"), Zone(1, 2, "CET", "CEST"), Zone(1, 1, "WAT", "WAT"), Zone(2, 2, "EET", "EET"),
     Zone(2, 3, "", ""), Zone(0, 0, "CET", "CET")}
Times == [hours : 1 .. 3, local : {FALSE}, zone : Zones, daylight : BOOLEAN]
           \cup [hours : 1 .. 3, local : {TRUE}, zone : {Zone(0, 0, "", "")}, daylight : BOOLEAN]

(* What the constructor of a KAboutData is given. *)
GivenToData(name, host) ==
    [componentName |-> name, displayName |-> "d", version |-> "v", shortDescription |-> "", license |-> "Unknown",
     copyright |-> "", text |-> "", homepage |-> host, bugAddress |-> "submit@bugs.kde.org"]

(* Languages, and the descriptions of a release in some of them. *)
Tags == {<<"de", "AT">>, <<"de", "DE">>, <<"de">>, <<"fr", "CA">>, <<"fr">>}
Languages(n) ==
    {langs \in UNION {[1 .. k -> Tags] : k \in 0 .. n} : IsInjective(langs)}
Text(c) == <<[name |-> "text", lang |-> <<>>, content |-> <<c>>]>>
Part(name, lang, content) == [name |-> name, lang |-> lang, content |-> content]
Paragraphs(c) ==
    {<<Part("p", <<>>, Text(c))>>}
      \cup {<<Part("p", <<>>, Text(c)), Part("p", l, Text("t"))>> : l \in {<<"de">>, <<"de", "AT">>}}
      \cup {<<Part("p", <<>>, Text(c)), Part("p", <<"de">>, Text("t")), Part("p", <<"fr">>, Text("u"))>>}
Items(c) == {[i \in DOMAIN p |-> [p[i] EXCEPT !.name = "li"]] : p \in Paragraphs(c)}
Lists == {<<Part("ul", <<>>, a \o b)>> : a \in Items("x"), b \in Items("y")}
Descriptions ==
    {<<>>} \cup {a \o b : a \in Paragraphs("x") \cup Lists, b \in {<<>>} \cup Paragraphs("z") \cup Lists}

(* Users, whose groups have them as members or not. *)
Databases ==
    {[users |-> <<[uid |-> 1, gid |-> a, name |-> "a", home |-> "/a", size |-> 1, gecos |-> <<>>],
                  [uid |-> 2, gid |-> b, name |-> "b", home |-> "/b", size |-> 1, gecos |-> <<>>]>>,
      groups |-> [g \in 1 .. 3 |-> [gid |-> g, members |-> members[g]]]] :
        a \in {1, 4}, b \in 1 .. 4,
        members \in [1 .. 3 -> {<<>>, <<"a">>, <<"b">>, <<"a", "b">>, <<"x", "b">>}]}
Passwd(uid, gid, name, size) ==
    [uid |-> uid, gid |-> gid, name |-> name, home |-> name, size |-> size,
     gecos |-> SubSeq(<<"full", "room", "work", "home", "other">>, 1, IF size > 2 THEN 5 ELSE uid)]
LargeDatabases ==
    {[users |-> <<Passwd(1, g, "a", sizes[1]), Passwd(2, 1, "b", sizes[2]), Passwd(uid, 2, "c", sizes[3])>>,
      groups |-> <<[gid |-> 1, name |-> "g", members |-> members, size |-> size],
                   [gid |-> 2, name |-> "h", members |-> <<"c", "a">>, size |-> 1]>>] :
        g \in 1 .. 3, uid \in {1, 3}, sizes \in [1 .. 3 -> {2, 3}],
        members \in {<<>>, <<"b">>, <<"x", "a">>}, size \in {1, 2, 3, 8, 9, 16}}
Callers ==
    [uid : {1, 2}, euid : {1, 2, 3}, LOGNAME : {"", "a", "b", "c"}, USER : {"", "a", "b", "c"},
     HOME : {"", "/h"}]

(* Computers with Windows, where a group or a second user may have any name. *)
Account(name, rid, type, levels, home, of) ==
    [name |-> name, sid |-> [domain |-> "D", rid |-> rid], type |-> type, levels |-> levels,
     home |-> home, groups |-> of, primaryGroup |-> 3, isAdmin |-> rid = 1]
Computers ==
    {[accounts |-> <<Account(name, 1, type, levels, home, of),
                     Account("v", 2, "SidTypeUser", {4}, "", <<"g">>),
                     Account("g", 3, groupType, {}, "", <<>>)>>,
      current |-> [domain |-> "D", rid |-> me], currentGroup |-> [domain |-> "D", rid |-> 3],
      profilesKnown |-> known] :
        name \in {"u", "v"}, type \in UsersWin!UserTypes \cup {"SidTypeGroup", "SidTypeAlias"},
        levels \in SUBSET {4, 11}, home \in {"", "h"}, of \in {<<>>, <<"g">>, <<"g", "v">>},
        groupType \in {"SidTypeWellKnownGroup", "SidTypeAlias"}, me \in {1, 2}, known \in BOOLEAN}

(* File systems by the name and the number they have, and processes whose       *)
(* arguments and short names have blanks or not.                            *)
FileSystemNames ==
    {"nfs", "nfs4", "autofs", "cifs", "smb", "vfat", "msdos", "ntfs3", "exfat", "ramfs", "ext4", "afs"}
FileSystemsTold ==
    {[mounted |-> mounted, fstypename |-> n, magic |-> IF n = "fuseblk" THEN "fuse" ELSE n,
      statFails |-> fails, device |-> device] :
        mounted \in {"", "nfs", "ext4", "fuseblk", "fuse.sshfs"} \cup FileSystemNames,
        n \in FileSystemNames \cup {"fuseblk"}, fails \in BOOLEAN,
        device \in {"unknown", "none", "ntfs", "exfat"}}
Arguments == {<<"a">>, <<"/", "a">>, <<"b", "/", "a">>, <<"-", "/", "b">>, <<"a", " ", "b">>, <<>>}
ProcessesTold ==
    {p \in [pid : {1}, user : {"u"}, comm : {<<"a">>, <<"a", " ", "b">>, <<"b">>},
            argv : {<<>>} \cup {<<a>> : a \in Arguments} \cup {<<a, b>> : a, b \in Arguments}, titled : BOOLEAN] :
        p.argv # <<>> => p.argv[1] # <<>>}

(* File names: a base of words and numbers in parentheses, and a suffix. *)
FileNamed(parts) == [base |-> parts, suffix |-> ".txt"]
NameBases == {<<>>} \cup {<<Strings!Word("w")>> \o t :
    t \in {<<>>, <<Strings!Number(1)>>, <<Strings!Number(2)>>, <<Strings!Number(1), Strings!Word("v")>>}}
Existing == SUBSET {FileNamed(<<Strings!Word(w), Strings!Number(n)>>) : w \in {"w", "."}, n \in 1 .. 3}

(* Files that are edited, whose names may hold what separates the parts of the  *)
(* name of an auto-save file.                                              *)
ManagedFiles ==
    [scheme : {<<"f">>}, dir : {<<"/">>, <<"/", "a">>, <<"/", "a", "b">>, <<"/", "a", "/", "b">>, <<"/", "_", " ", "b">>},
     name : {<<"a">>, <<"b">>, <<"a", "b">>, <<"a", " ", "_">>, <<"%", "2">>, <<"b", "a", "2", "F", "a">>}]

(* The classes of plugins, each below another or QObject. *)
Classes == {"A", "B", "C", "D"}
ClassTrees ==
    {above \in [Classes -> Classes \cup {"QObject"}] :
        \A c \in Classes : "QObject" \in RegisteredAbove(above, c)}

(* Values of the metadata of a plugin, MIME types that inherit from each other, *)
(* and the files of one id in the directories that are searched.           *)
JsonValues ==
    {PluginData!Undefined, [type |-> "null", v |-> <<>>], [type |-> "object", v |-> <<>>]}
      \cup [type : {"bool"}, v : BOOLEAN] \cup [type : {"double"}, v : PluginData!Numbers]
      \cup [type : {"string"}, v : {<<>>, <<"true">>, <<"false">>, <<"1">>, <<"1", "w">>, <<"w">>}]
      \cup [type : {"array"}, v : {<<>>, <<<<"w">>>>, <<<<"w">>, <<"true">>>>}]
MimeParents == [{"a", "b", "c"} -> {"", "a", "b", "c"}]
PluginPlaces ==
    {files \in [1 .. 3 -> {PluginData!NoFile}
                            \cup [fileName : {"1", "2", "3"}, base : {"x"}, metaData : {"none", "", "y"},
                                  instance : {"nothing", "object", "factory"}]] :
        \A i \in 1 .. 3 : files[i] # PluginData!NoFile => files[i].fileName = ToString(i)}

(* The translations of a text, and what tells the language. *)
Translations ==
    UNION {[tags -> {[type |-> "string", v |-> <<"w">>], [type |-> "null", v |-> <<>>]}] :
              tags \in SUBSET {<<>>, <<"de">>, <<"de", "AT">>, <<"fr">>, <<"fr", "CA">>}}
LocalesTold ==
    [own : BOOLEAN, name : {<<"de", "AT">>, <<"fr">>}, LANGUAGE : {<<>>, <<<<>>, <<"fr">>>>},
     uiLanguages : {<<>>, <<<<"de">>, <<"fr">>>>}]

(* Classes with up to three of the constructors that a factory can call. *)
Constructors == PluginData!WithMetaData \cup PluginData!WithoutMetaData
PluginClasses ==
    [is : {"part", "widget", "object"}, ctors : {c \in SUBSET Constructors : Cardinality(c) \in 1 .. 3}]

(* /proc/meminfo: one line may be in another place, lack its unit or be missing. *)
MeminfoNames == <<"MemTotal", "MemFree", "MemAvailable", "Buffers", "Cached", "SwapCached", "SwapTotal",
                  "SwapFree", "Shmem", "SReclaimable", "HugePages">>
Meminfo(available, shmem) ==
    [i \in DOMAIN MeminfoNames |->
        [name |-> MeminfoNames[i], unit |-> MeminfoNames[i] # "HugePages",
         value |-> CASE MeminfoNames[i] = "MemTotal" -> 90 [] MeminfoNames[i] = "MemAvailable" -> available
                     [] MeminfoNames[i] = "Shmem" -> shmem [] OTHER -> i]]
Meminfos ==
    UNION {{InsertAt(RemoveAt(file, i), j, [file[i] EXCEPT !.unit = u]), RemoveAt(file, i)} :
              file \in {Meminfo(a, s) : a \in {0, 50, 95}, s \in {4, 40}},
              i \in DOMAIN MeminfoNames, j \in DOMAIN MeminfoNames, u \in BOOLEAN}
PageCounts ==
    [fails : {"none", "swap", "usermem", "physmem", "uvmexp", "bcstats"}, page : {2}, total : {60},
     user : {50}, free : {0, 3}, cache : {0, 3}, inactive : {0, 3}, active : {0, 3}, internal : {4},
     compressor : {2}, wired : {0, 3}, zfs : {0, 5}, buffers : {0, 5}, swap : {0, 8}, swapUsed : {0}]
NoMemory == System!Amounts(0, 0, 0, 0, 0, 0, 0)

ValueTopics ==
    {"meminfo", "pages", "json", "mimes", "places", "duration", "size", "date", "times", "languages", "notes",
     "licences", "titles", "hash", "users", "callers", "accounts", "winusers", "filesystems", "processes",
     "names", "stale", "classes", "accessors", "translations", "constructors"}

Inputs(t) ==
    CASE t = "json" -> JsonValues
      [] t = "meminfo" -> Meminfos
      [] t = "pages" -> PageCounts
      [] t = "mimes" -> MimeParents
      [] t = "places" -> PluginPlaces
      [] t = "duration" -> Durations
      [] t = "size" -> Sizes
      [] t = "date" -> Seconds
      [] t = "times" -> Times
      [] t = "languages" -> Languages(3)
      [] t = "notes" -> Descriptions
      [] t = "licences" -> AppStream!Keys
      [] t = "titles" ->
           {GivenToData(name, host) :
              name \in {<<"n">>, <<"p", "n">>, <<"p", "q", "n">>},
              host \in {<<>>} \cup UNION {[1 .. n -> {"x", "y"}] : n \in 1 .. 4}}
      [] t = "hash" -> 0 .. 20
      [] t = "users" -> Databases
      [] t = "callers" -> Callers
      [] t = "accounts" -> LargeDatabases
      [] t = "winusers" -> Computers
      [] t = "filesystems" -> FileSystemsTold
      [] t = "processes" -> ProcessesTold
      [] t = "names" -> Existing
      [] t = "stale" -> [url : ManagedFiles, letters : [1 .. 3 -> {"a", "b", "2", "F"}]]
      [] t = "classes" -> ClassTrees
      [] t = "accessors" -> AboutCalls
      [] t = "translations" -> Translations
      [] t = "constructors" -> PluginClasses

(* A text is entered piece by piece, a value at once. *)
Grow ==
    /\ topic \in DOMAIN Pieces /\ Len(input) < MaxText
    /\ \E piece \in Pieces[topic] : input' = Append(input, piece)

Enter ==
    /\ topic \in ValueTopics /\ input = <<>>
    /\ \E value \in Inputs(topic) : input' = <<value>>

-----------------------------------------------------------------------------
allVars == <<layoutVars, autoVars, aboutVars, processVars, mimeVars, pluginVars>>

(* A component that is not the topic is in one of its states, and stays there. *)
LayoutIdle == header = NoHeader /\ mapSize = [p \in Processes |-> 0] /\ base = mapSize
ProcessIdle ==
    /\ system = <<>> /\ env = <<>> /\ wanted = <<>> /\ executing = "no" /\ code = 0
    /\ child = [state |-> "none", code |-> 0]
PluginIdle ==
    /\ pluginFiles = [f \in FileNames |-> [content |-> Absent, modified |-> 0, installed |-> 0]]
    /\ now = 1 /\ pluginCache = <<>> /\ search = NoSearch

Topics ==
    {"layout", "autosave", "about", "process", "portal", "plugins"}
      \cup DOMAIN Pieces \cup ValueTopics

Init ==
    /\ AutoInit /\ AboutInit /\ MimeInit
    /\ topic \in Topics /\ input = <<>>
    /\ IF topic = "layout" THEN LayoutInit ELSE LayoutIdle
    /\ IF topic = "process" THEN ProcessInit ELSE ProcessIdle
    /\ IF topic = "plugins" THEN PluginInit ELSE PluginIdle

Next ==
    /\ UNCHANGED topic
    /\ \/ /\ topic = "layout" /\ LayoutNext /\ UNCHANGED input
          /\ UNCHANGED <<autoVars, aboutVars, processVars, mimeVars, pluginVars>>
       \/ /\ topic = "autosave" /\ AutoNext /\ UNCHANGED input
          /\ UNCHANGED <<layoutVars, aboutVars, processVars, mimeVars, pluginVars>>
       \/ /\ topic = "about" /\ AboutNext /\ UNCHANGED input
          /\ UNCHANGED <<layoutVars, autoVars, processVars, mimeVars, pluginVars>>
       \/ /\ topic = "process" /\ ProcessNext /\ UNCHANGED input
          /\ UNCHANGED <<layoutVars, autoVars, aboutVars, mimeVars, pluginVars>>
       \/ /\ topic = "portal" /\ MimeNext /\ UNCHANGED input
          /\ UNCHANGED <<layoutVars, autoVars, aboutVars, processVars, pluginVars>>
       \/ /\ topic = "plugins" /\ PluginNext /\ UNCHANGED input
          /\ UNCHANGED <<layoutVars, autoVars, aboutVars, processVars, mimeVars>>
       \/ /\ Grow \/ Enter
          /\ UNCHANGED allVars

Spec == Init /\ [][Next]_<<allVars, topic, input>>

-----------------------------------------------------------------------------
(* What holds of a cache and of its lock after any calls. *)
Platforms ==
    [built : SUBSET {"timeouts", "mutex", "semaphore"}, timeouts : BOOLEAN, mutex : BOOLEAN,
     mutexShared : BOOLEAN, semaphores : BOOLEAN, semaphore : BOOLEAN, semaphoreShared : BOOLEAN]

Caches(entered) ==
    /\ topic = "locks" =>
         /\ Len(entered) = 1 => \A pf \in Platforms : LockChosen(pf)
         /\ \A lk \in [kind : {"mutex", "semaphore"}, timed : BOOLEAN] \cup [kind : {"spinlock"}, timed : {TRUE}] :
               LockKept(lk, FlattenSeq(entered))
    /\ topic = "hash" => SameAnywhere([i \in 1 .. entered[1] |-> i])
    /\ topic = "wincache" =>
         \A size \in 0 .. 2 : WinCache!CachePromised({"j", "k", "l"}, size, FlattenSeq(entered))

(* What holds of a text or a value that is entered. *)

Quoting(entered) ==
    /\ topic = "shell" =>
         /\ Shell!QuotingReturns(FlattenSeq(entered))
         /\ Len(entered) < MaxText =>
               \A key \in {<<"n">>, <<"h">>, <<"b">>} : System!ReleaseReturns(key, FlattenSeq(entered))
    /\ topic = "macro" =>
         \A value \in MacroValues :
             Shell!ExpandsInPlace(FlattenSeq(entered), value) /\ Shell!ExpandsNested(FlattenSeq(entered), value)
    /\ topic = "map" =>
         \A value \in MacroValues, escaped \in BOOLEAN, of \in {"char", "word"} :
             LET map == <<"n">> :> <<value>> @@ <<"n", "b">> :> <<value, value>>
             IN /\ Shell!MapExpands(map, of, escaped, FlattenSeq(entered))
                /\ Shell!LongerWordsStay(map, FlattenSeq(entered))
    /\ topic = "commands" =>
         \A platform \in {"free", "nonfree", "windows"}, cmd \in ShellCommands \cup {[text |-> "", split |-> <<>>]} :
             CommandKept(FlattenSeq(entered), platform, cmd)
    /\ topic = "metadata" =>
         \A key, other \in {<<>>, <<"a">>, <<"@", "@", "$">>, <<"$">>} :
             /\ UrlsReturn(<<FlattenSeq(entered), key, other>>)
             /\ MetaDataReturns(<<<<key, FlattenSeq(entered)>>>>)
             /\ MetaDataReturns(<<<<FlattenSeq(entered), other>>, <<key, FlattenSeq(entered)>>>>)
    /\ topic = "win" =>
         /\ Win!JoinSplits(<<FlattenSeq(entered)>>) /\ Win!JoinSplits(<<FlattenSeq(entered), FlattenSeq(entered)>>)
         /\ \A value \in WinValues : Win!ExpandsInPlace(FlattenSeq(entered), value)

Texts(entered) ==
    /\ topic = "html" => Html!TextKept(FlattenSeq(entered), {}, 6, 7)
    /\ topic = "phones" =>
         /\ \A flags \in {Options, Options \ {"ConvertPhoneNumbers"}} : Html!TextKept(FlattenSeq(entered), flags, 6, 15)
         /\ Html!NumbersStand(FlattenSeq(entered))
    /\ topic = "emoticons" => Html!EmoticonsSound(FlattenSeq(entered))
    /\ topic = "strings" =>
         /\ Strings!WrapSound(FlattenSeq(entered))
         /\ \A n \in 0 .. 5 : Strings!SqueezeFits(FlattenSeq(entered), n)
         /\ \A sep \in {<<" ">>, <<"a">>, <<"a", "a">>}, n \in 0 .. 3 : Strings!SplitSound(sep, FlattenSeq(entered), n)
         /\ \A seps \in {{"a"}, {"a", " "}}, n \in 0 .. 3 : Strings!RunsSound(seps, FlattenSeq(entered), n)
    /\ topic = "stale" =>
         \A max \in {28, 32, 40} :
             NamesSayWhat(entered[1].url, <<"x", "F", "2", "a", "x">> \o entered[1].letters, max,
                          <<"/", "a", "b", "2", "/">>, ManagedFiles)
    /\ topic = "names" =>
         /\ \A parts \in NameBases : Strings!SuggestionIsNew(FileNamed(parts), entered[1])
         /\ \A n \in {0, 32, 33, 34, 65, 255, 32768, 65533} : Strings!ObscureReturns(n)
         /\ \A x, y \in SUBSET {"f", "g"} : Strings!FirstFileWins(<<x, y, {"g"}>>)
    /\ topic = "fuzzy" => \A pattern \in Patterns : MatchSound(pattern, FlattenSeq(entered))

Numbers(entered) ==
    /\ topic = "duration" =>
         /\ \A options \in DurationOptions : Format!DurationTold(entered[1], options)
         /\ \A places \in 0 .. 3 :
               Format!DecimalsTold(entered[1], Format!Plus(entered[1], [day |-> 0, ms |-> 500]), places)
    /\ topic = "times" =>
         \A other \in Times, here \in Zones,
            options \in SUBSET {"AddTimezoneAbbreviation", "AddTimezoneAbbreviationIfNeeded"} :
             Format!TimesTold(entered[1], other, options, here)
    /\ topic = "size" =>
         \A precision \in 0 .. 2, dialect \in {"IEC", "Metric", "JEDEC"} :
             Format!SizesAgree(entered[1], precision, dialect)
    /\ topic = "date" =>
         \A later \in Seconds, today \in {0, 43200, 86399} : Format!OrderTold(entered[1], later, today)

Releases(entered) ==
    /\ topic = "languages" => \A value \in SUBSET (Tags \cup {<<>>}) : AppStream!Preferred(value, entered[1])
    /\ topic = "titles" =>
         /\ AppStream!NamesDerived(entered[1])
         /\ \A key \in AppStream!Keys, content \in {"", "t"}, path \in {"", "file", "gone"}, copyright \in {"", "(c)"} :
               AppStream!LicenceTold([key |-> key, text |-> IF key = "Custom" THEN content ELSE "",
                                      path |-> IF key = "File" THEN path ELSE ""],
                                     copyright, AppStream!Known \cup {"file"})
    /\ topic = "licensing" =>
         \A key \in {"Unknown", "MIT"} :
             AppStream!LicencesKept([AppStream!NewMembers EXCEPT !._licenseList = <<AppStream!License(key, FALSE)>>],
                                    FlattenSeq(entered))
    /\ topic = "translators" =>
         \A emails \in {<<>>, <<",">>, <<"a">>, <<"a", ",", " ", "b">>, YourEmails},
            one \in {<<"n">>, <<" ", "n">>}, address \in {<<>>, <<"c">>, <<"c", " ">>} :
             AppStream!TranslatorsPaired(FlattenSeq(entered), emails, one, address)
    /\ topic = "accessors" =>
         \A earlier \in {<<>>} \cup {<<call>> : call \in AboutCalls} : AppStream!AccessorsAgree(earlier, entered[1])
    /\ topic = "entities" => AppStream!EntitiesReturn(FlattenSeq(entered))
    /\ topic = "appstream" =>
         \A others \in {<<>>, <<AppStreamRelease("0", <<NotePart>>), [name |-> "id", text |-> "o"]>>,
                         <<[name |-> "value", type |-> "bugtracker", text |-> "o"]>>} :
             AppStream!FileReadAgain(AppStream!KAboutData_Named(<<"n">>, "d", "v"), FlattenSeq(entered), others,
                                     <<<<"de", "AT">>>>)
    /\ topic = "notes" => \A langs \in Languages(2) : AppStream!NotesTranslated(entered[1], langs)
    /\ topic = "licences" => \A orLater \in BOOLEAN : AppStream!LicencesRoundTrip(entered[1], orLater)

Factories(entered) ==
    /\ topic = "classes" =>
         \A plugins \in UNION {[1 .. n -> Classes] : n \in 0 .. 3} :
             /\ FactorySound(entered[1], plugins)
             /\ \A foreign \in {{}, {"B"}, {"A", "B"}} :
                   InstanceRight("factory", entered[1], plugins, "A", foreign)
    /\ topic = "json" => PluginData!ReadersAgree(entered[1])
    /\ topic = "mimes" =>
         \A types \in SUBSET {"a", "b", "c"}, name \in {"", "n"} :
             PluginData!ListsAgree(SetToSeq(types), entered[1], name)
    /\ topic = "places" =>
         \A of \in 1 .. 3, static \in {"no", "none", ""}, allowEmpty \in BOOLEAN :
             /\ PluginData!SearchesAgree("x", entered[1], of, static, allowEmpty)
             /\ \A opens, parses \in BOOLEAN : PluginData!JsonFileAgrees(entered[1][of], opens, parses)
             /\ InstanceRight(PluginData!loadFactory(PluginData!ofFile(entered[1][of], allowEmpty),
                                                    entered[1][of].instance),
                              [c \in Classes |-> "QObject"], <<"A">>, "A", {})
    /\ topic = "translations" =>
         \A pf \in LocalesTold, tag \in {<<>>, <<"de">>, <<"de", "AT">>, <<"fr">>, <<"fr", "CA">>} :
             PluginData!TranslationTold(entered[1], pf, tag, <<"t">>)
    /\ topic = "constructors" =>
         \A ctor \in Constructors : PluginData!MadeWithMore(entered[1], ctor)

Accounts(entered) ==
    /\ topic = "observers" =>
         /\ Observers!TrackersTold(FlattenSeq(entered))
         /\ (\A i \in DOMAIN entered : entered[i][1].op # "finish") =>
              \A error \in {"NoError", "KilledJobError", "Error"}, emitResult \in BOOLEAN :
               Observers!ErrorShown(FlattenSeq(entered), [op |-> "finish", error |-> error, emitResult |-> emitResult])
    /\ topic = "meminfo" => System!MeminfoTold(NoMemory, entered[1])
    /\ topic = "pages" =>
         \A used \in 0 .. entered[1].swap :
             System!PagesTold(NoMemory, [entered[1] EXCEPT !.swapUsed = used])
    /\ topic = "winusers" =>
         /\ UsersWin!AccountsFound(entered[1]) /\ UsersWin!CurrentUserFound(entered[1])
         /\ \A parts \in {<<<<"u", "v">>>>, <<<<"v">>, <<>>, <<"g", "u">>>>}, maxCount \in 0 .. 3 :
               UsersWin!ListsFound(entered[1], parts, maxCount)
    /\ topic = "filesystems" => System!TypesAgree(entered[1])
    /\ topic = "processes" =>
         /\ System!ProcessTold(entered[1])
         /\ \A exiting \in SUBSET (1 .. 2) :
               System!ListTold(<<entered[1], [entered[1] EXCEPT !.pid = 2]>>, exiting)
    /\ topic = "userproxy" =>
         \A icons \in [{Users!HomeIcon, Users!AccountsIcon("a"), Users!AccountsIcon("b")} -> {0, 3}] :
             Users!ProxyCurrent([name |-> "a", icons |-> icons], FlattenSeq(entered))
    /\ topic = "users" => \A maxCount \in 0 .. 4 : Users!MembersAgree(entered[1], maxCount)
    /\ topic = "callers" =>
         \A mode \in {"UseEffectiveUID", "UseRealUserID"} :
             Users!RightUser([users |-> <<Passwd(1, 1, "a", 1), Passwd(2, 1, "b", 1), Passwd(1, 2, "c", 2)>>,
                              groups |-> <<>>], mode, entered[1])
    /\ topic = "accounts" =>
         \A caller \in [uid : {1, 2}, euid : {2, 3}, LOGNAME : {"c"}, USER : {"b"}, HOME : {"", "/h"}] :
             Users!MadeAlike(entered[1], caller)

-----------------------------------------------------------------------------
(* In the segment of a cache: the size of a page is one that every access     *)
(* accepts, the slots of a probe chain are distinct, processes that map the  *)
(* segment at different addresses agree about small pages and about the hash *)
(* of a key, and all pages but the end of the last one lie in what a process *)
(* maps, if that is no less than the cache was created with and the size did *)
(* not wrap around (AllButLastPageMapped).  The lock that is chosen is the   *)
(* same for all, and it has one holder until a process attaches while it is   *)
(* held or releases it after its lock() timed out.  Where nothing is shared   *)
(* (Windows) the cache keeps what it promises.                             *)
CachesSound ==
    /\ [](PageSizeAccepted /\ ChainsDistinct /\ AllButLastPageMapped /\ SmallPagesAgree)
    /\ [][Caches(input')]_input

(* Whatever is quoted for a shell, of Unix or of Windows, as arguments, as the *)
(* value of a macro or in the os-release file, is split into what it was; a    *)
(* process runs the words that it was given, whatever it ran before; and the   *)
(* metadata of urls is read as what was set.                               *)
QuotingSound == [][Quoting(input')]_input

(* What is shown of a text, a size or a time says what it was.  A text prepared *)
(* for wrapping is the text with marks in it, a squeezed one fits and keeps    *)
(* its ends, and one turned into HTML keeps its characters, but for two        *)
(* forms: spaces after a bracket or a quote are lost in a URL, and a number    *)
(* in the local part of an address spoils the link (ktexttohtml.cpp:534-548),  *)
(* of which nothing is said.  A name suggested for a file is new, that of *)
(* an auto-save file says which file it is for, what is highlighted is what    *)
(* matched.  A duration with decimals is told within half of its last digit    *)
(* and the longer not as the shorter, if perhaps as 60.00 seconds; other       *)
(* durations are told in their units.  Of sizes only this is checked, that the *)
(* two functions which format them agree, also on 1024.0 KiB.                *)
TextsSound == [][Texts(input') /\ Numbers(input')]_input

(* What an application says of itself is right: the texts of an AppStream file *)
(* are in the language preferred, also when the file is read again, its       *)
(* licences are those it names, with their texts, every translator has his     *)
(* own address, and its KAboutData agrees with the properties of the          *)
(* Q*Application.  The licences of the data of the application refer to no     *)
(* other object; those of another KAboutData only to one whose licence was     *)
(* handed to its addLicense(), which may be gone (kaboutdata.cpp:889-896).  *)
AboutDataSound == [][AboutSound' /\ Releases(input')]_<<aboutVars, input>>

(* The plugins that are found and what is made of them are those that are     *)
(* there, whether or not they were looked for before and whether they are     *)
(* searched by a filter or by their id, and the readers of a value of their   *)
(* metadata agree.                                                         *)
PluginsSound == CacheUnseen /\ [][Factories(input')]_input

(* What is told of the system is so: a user is who he is, whatever the         *)
(* environment says and however he was looked up, and in the groups that have *)
(* him as a member, on Unix and on Windows; what is shown of him follows the  *)
(* files; an amount of memory, a process and a file system are of their kind.  *)
(* Where a user has more groups than the buffer holds and than are wanted, but *)
(* fewer of them are found, the groups are read past the end of the buffer     *)
(* (kuser_unix.cpp:276-284), and nothing is said of what is listed.            *)
(* A job tells a tracker of every signal as often as it is registered with it, *)
(* except of its end: the slot finished() is never called, against            *)
(* kjobtrackerinterface.h:85 ("in any case"), since unregisterJob() is         *)
(* connected before it and disconnects it (kjobtrackerinterface.cpp:36-37).   *)
SystemSound == [][Accounts(input')]_input
=============================================================================
