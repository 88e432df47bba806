----------------------------- MODULE KSystemInfo ------------------------------
(***************************************************************************)
(* What is told of the system: its memory, its processes, the types of its *)
(* file systems and its name and version.                                  *)
(***************************************************************************)
EXTENDS KShell, TLC

(* The amounts of memory that KMemoryInfo tells (kmemoryinfo.cpp), on the   *)
(* systems it knows.  Amounts are unsigned 64-bit integers; here they wrap *)
(* around at Width.                                                        *)
(*                                                                         *)
(* /proc/meminfo is a sequence of lines with a name and a value, most of   *)
(* which end in the unit "kB".                                             *)

CONSTANTS
    Width,      \* where an amount wraps around, 2^64 in the code
    kB          \* 1024 in the code

Wrapped(n) == n % Width
Failure == [ok |-> FALSE, from |-> 0, value |-> 0]

(* A pattern is also found at the end of a longer name. *)
Matches(pattern, name) == name = pattern \/ (pattern = "Cached" /\ name = "SwapCached")

FirstAfter(file, from, names, units) ==
    LET lines == {i \in from + 1 .. Len(file) : file[i].name \in names /\ file[i].unit \in units}
    IN IF lines = {} THEN 0 ELSE Min(lines)

NamesLike(file, pattern) == {name \in {file[i].name : i \in DOMAIN file} : Matches(pattern, name)}

(* extractBytes(): the number between the first occurrence of the pattern after *)
(* the line from and the unit; when there is none, from the beginning.      *)
extractBytes(file, pattern, from) ==
    LET Extract(after) ==
            LET begin == FirstAfter(file, after, NamesLike(file, pattern), BOOLEAN)
                end == FirstAfter(file, begin - 1, {file[i].name : i \in DOMAIN file}, {TRUE})
            IN IF begin = 0 \/ end = 0 THEN Failure
               ELSE [ok |-> begin = end, from |-> end, value |-> Wrapped(file[begin].value * kB)]
        first == Extract(from)
    IN IF first.from = 0 /\ from # 0 THEN Extract(0) ELSE first

Patterns == <<"MemTotal", "MemFree", "MemAvailable", "Buffers", "Cached", "SwapTotal", "SwapFree",
              "Shmem", "SReclaimable">>

(* The values of all patterns, one after the other, until one is not found. *)
Extracted(file) ==
    FoldLeft(LAMBDA done, pattern :
                 LET found == extractBytes(file, pattern, done.from)
                 IN IF ~done.ok THEN done
                    ELSE [ok |-> found.ok, from |-> found.from, values |-> Append(done.values, found.value)],
             [ok |-> TRUE, from |-> 0, values |-> <<>>], Patterns)

Amounts(total, available, free, swap, freeSwap, cached, buffers) ==
    [totalPhysical |-> total, availablePhysical |-> Wrapped(available), freePhysical |-> free,
     totalSwapFile |-> swap, freeSwapFile |-> Wrapped(freeSwap), cached |-> Wrapped(cached),
     buffers |-> buffers]

(* update() on Linux. *)
update_Linux(d, file) ==
    LET e == Extracted(file)
        v == e.values
    IN IF ~e.ok THEN d
       ELSE Amounts(v[1], IF v[3] # 0 THEN Min({v[3], v[1]}) ELSE v[2], v[2], v[6], v[7],
                    v[5] + v[9] - v[8], v[4])

(* update() on the other systems; s is what the system counts, in pages but for *)
(* the totals, and s.fails says which of its calls fails.                  *)
update_Windows(d, s) ==
    IF s.fails # "none" THEN d
    ELSE Amounts(s.total, s.free, s.free, s.swap * s.page, (s.swap - s.swapUsed) * s.page,
                 s.cache * s.page, 0)

update_macOS(d, s) ==
    IF s.fails # "none" THEN d
    ELSE Amounts(s.total, s.total - (s.internal + s.compressor + s.wired) * s.page,
                 s.free * s.page, s.swap, s.swap - s.swapUsed,
                 s.cache * s.page + s.zfs, 0)

(* kvm_getswapinfo() may fail, which is no failure. *)
update_FreeBSD(d, s) ==
    LET swap == IF s.fails = "swap" THEN 0 ELSE s.swap
        used == IF s.fails = "swap" THEN 0 ELSE s.swapUsed
    IN IF s.fails \notin {"none", "swap"} THEN d
       ELSE Amounts(s.total, (s.cache + s.free + s.inactive) * s.page + s.buffers + s.zfs,
                    s.free * s.page, swap * s.page, (swap - used) * s.page,
                    s.cache * s.page + s.zfs, s.buffers)

(* Amounts in kB and bytes, and the swap space in use where the free one is     *)
(* told; what was read before a call fails stays.                          *)
update_OpenBSD(d, s) ==
    LET physical == [d EXCEPT !.availablePhysical = s.user, !.totalPhysical = s.total]
        swap == IF s.fails = "swap" THEN physical
                ELSE [physical EXCEPT !.totalSwapFile = s.swap, !.freeSwapFile = s.swapUsed]
        free == [swap EXCEPT !.freePhysical = (s.free * s.page) \div kB]
    IN CASE s.fails = "usermem" -> d
         [] s.fails = "physmem" -> [d EXCEPT !.availablePhysical = s.user]
         [] s.fails = "uvmexp" -> swap
         [] s.fails = "bcstats" -> free
         [] OTHER -> [free EXCEPT !.cached = (s.cache * s.page) \div kB]

update_Hurd(d, s) ==
    LET total == (s.free + s.active + s.inactive + s.wired) * s.page
    IN IF s.fails # "none" THEN d
       ELSE Amounts(total, total - s.free * s.page, s.free * s.page, 0, 0, s.cache * s.page, 0)

-----------------------------------------------------------------------------
(* The lines of /proc/meminfo may come in any order: as long as every one that  *)
(* is needed is there with its unit, each amount told is that of its own     *)
(* line.  Only a line whose name is also found in a longer one has to come   *)
(* before that, and after the line that is read before.                    *)
LineOf(file, name) == CHOOSE i \in DOMAIN file : file[i].name = name
Value(file, name) == Wrapped(file[LineOf(file, name)].value * kB)

MeminfoTold(d, file) ==
    LET Complete == \A k \in DOMAIN Patterns :
            /\ \E i \in DOMAIN file : file[i].name = Patterns[k] /\ file[i].unit
            /\ \A j \in DOMAIN file :
                  Matches(Patterns[k], file[j].name) /\ j # LineOf(file, Patterns[k]) =>
                    LineOf(file, Patterns[k - 1]) < LineOf(file, Patterns[k]) /\ LineOf(file, Patterns[k]) < j
        now == update_Linux(d, file)
    IN IF Complete
       THEN /\ now.totalPhysical = Value(file, "MemTotal")
            /\ now.freePhysical = Value(file, "MemFree")
            /\ now.availablePhysical <= now.totalPhysical \/ Value(file, "MemAvailable") = 0
            /\ now.buffers = Value(file, "Buffers")
            /\ now.totalSwapFile = Value(file, "SwapTotal") /\ now.freeSwapFile = Value(file, "SwapFree")
            /\ Wrapped(now.cached + Value(file, "Shmem")) =
                 Wrapped(Value(file, "Cached") + Value(file, "SReclaimable"))
       ELSE now = d \/ "SwapCached" \in {file[i].name : i \in DOMAIN file}

(* On the systems that count pages, what is free is available, what is          *)
(* available is there, and no more swap space is free than there is, as long *)
(* as the system counts no page twice; a call that fails changes nothing.   *)
(* Of OpenBSD and the Hurd, whose amounts are known to mean something else,   *)
(* only the last two, and that the free memory is there.                    *)
PagesTold(d, s) ==
    LET Plausible(now) ==
            /\ now.freePhysical <= now.availablePhysical
            /\ now.availablePhysical <= now.totalPhysical
            /\ now.freeSwapFile <= now.totalSwapFile
    IN /\ s.fails = "none" =>
             Plausible(update_Windows(d, s)) /\ Plausible(update_macOS(d, s)) /\ Plausible(update_FreeBSD(d, s))
       /\ s.fails \notin {"none", "swap"} =>
             update_Windows(d, s) = d /\ update_macOS(d, s) = d /\ update_FreeBSD(d, s) = d
       /\ update_OpenBSD(d, s).freeSwapFile <= update_OpenBSD(d, s).totalSwapFile
       /\ s.fails = "none" => update_Hurd(d, s).freePhysical <= update_Hurd(d, s).totalPhysical
       /\ s.fails # "none" => update_Hurd(d, s) = d

-----------------------------------------------------------------------------
(* The processes of the system and what they run (kprocesslist*.cpp).  A   *)
(* process has a number, an owner, the short name the kernel keeps of it   *)
(* (comm) and its arguments (argv), of which a process may make one text   *)
(* of its own (titled).  Texts are sequences of characters, where a letter *)
(* stands for a run of them and "NUL" ends an argument.                    *)

NotFound == 0
indexOf(text, c, from) ==
    LET places == {i \in DOMAIN text : i >= from /\ text[i] = c}
    IN IF places = {} THEN NotFound ELSE Min(places)
lastIndexOf(text, c, from) ==
    LET places == {i \in DOMAIN text : i <= from /\ text[i] = c}
    IN IF places = {} THEN NotFound ELSE Max(places)
Mid(text, from, to) == SubSeq(text, from, to)

(* QString::simplified(): no blanks at the ends, and one between words. *)
simplified(text) ==
    LET words == SelectSeq([i \in DOMAIN text |-> <<i, text[i]>>],
            LAMBDA e : e[2] # " " \/ (e[1] > 1 /\ text[e[1] - 1] # " "
                                      /\ \E j \in e[1] .. Len(text) : text[j] # " "))
    IN [i \in DOMAIN words |-> words[i][2]]

JoinedBy(argv, separator) ==
    FlattenSeq([i \in DOMAIN argv |-> IF i = 1 THEN argv[i] ELSE separator \o argv[i]])

KProcessInfo(pid, command, name, user) ==
    [valid |-> TRUE, pid |-> pid, command |-> command, name |-> name, user |-> user]
Invalid == [valid |-> FALSE, pid |-> 0, command |-> <<>>, name |-> <<>>, user |-> ""]

-----------------------------------------------------------------------------
(* What ps, /proc and the process itself show of it. *)
cmdline(p) == IF p.titled THEN JoinedBy(p.argv, <<" ">>)
              ELSE FlattenSeq([i \in DOMAIN p.argv |-> p.argv[i] \o <<"NUL">>])
stat(p) == <<"(">> \o p.comm \o <<")">>
psLine(p) ==
    <<"P", " ", "S", " ", "U", " ">> \o p.comm
      \o (IF p.argv = <<>> THEN <<" ", "[">> \o p.comm \o <<"]">> ELSE <<" ">> \o JoinedBy(p.argv, <<" ">>))

-----------------------------------------------------------------------------
(* One line of unixProcessListPS(): what is between the blanks; a line without  *)
(* the last of them has its command in place of the name, and all of it for   *)
(* a command.                                                              *)
fromPS(p) ==
    LET line == simplified(psLine(p))
        endOfPid == indexOf(line, " ", 1)
        endOfState == indexOf(line, " ", endOfPid + 1)
        endOfUser == indexOf(line, " ", endOfState + 1)
        endOfName == indexOf(line, " ", endOfUser + 1)
        name == IF endOfName = NotFound THEN Mid(line, endOfUser + 1, Len(line))
                ELSE Mid(line, endOfUser + 1, endOfName - 1)
    IN IF NotFound \in {endOfPid, endOfState, endOfUser} THEN Invalid
       ELSE KProcessInfo(p.pid, Mid(line, endOfName + 1, Len(line)), name, p.user)

(* getProcessInfo(), which reads /proc; the process may exit before its stat is *)
(* read, or before its cmdline is.                                         *)
isUnixProcessId(id) == id >= 0

statName(p) ==
    LET data == stat(p)
        end == indexOf(data, " ", 1)
        name == IF end = NotFound THEN data ELSE Mid(data, 1, end - 1)
    IN IF name[1] = "(" /\ Last(name) = ")" THEN Mid(name, 2, Len(name) - 1) ELSE name

(* The name in the command line: what is between the last slash and the first   *)
(* end of an argument, or the end of the text when there is none.           *)
cmdlineName(cmd) ==
    LET zeroIndex == indexOf(cmd, "NUL", 1)
        until == IF zeroIndex = NotFound THEN Len(cmd) ELSE zeroIndex
        start == lastIndexOf(cmd, "/", until) + 1
    IN Mid(cmd, start, IF zeroIndex = NotFound THEN Len(cmd) ELSE zeroIndex - 1)

trimmed(text) ==
    LET inside == {i \in DOMAIN text : text[i] # " "}
    IN IF inside = {} THEN <<>> ELSE Mid(text, Min(inside), Max(inside))
ReplaceNul(cmd) == [i \in DOMAIN cmd |-> IF cmd[i] = "NUL" THEN " " ELSE cmd[i]]

getProcessInfo(p, exits) ==
    LET cmd == IF exits = "before cmdline" THEN <<>> ELSE cmdline(p)
    IN IF ~isUnixProcessId(p.pid) \/ exits = "before stat" THEN Invalid
       ELSE IF cmd = <<>> THEN KProcessInfo(p.pid, statName(p), statName(p), p.user)
       ELSE KProcessInfo(p.pid, trimmed(ReplaceNul(cmd)), cmdlineName(cmd), p.user)

(* ProcStatProcesses::ProcessIterator, on FreeBSD. *)
fromProcStat(p) == KProcessInfo(p.pid, JoinedBy(p.argv, <<" ">>), p.comm, p.user)

(* winProcessInfo() and the loop of processInfoList() on Windows: the owner and *)
(* the path of a process that cannot be opened are unknown.                 *)
fromSnapshot(p, denied) ==
    LET fullPath == IF denied \/ p.argv = <<>> THEN <<>> ELSE p.argv[1]
    IN KProcessInfo(p.pid, IF fullPath = <<>> THEN p.comm ELSE fullPath, p.comm,
                    IF denied THEN "" ELSE p.user)

(* processInfoList() and processInfo(): /proc where it is, else ps; on Windows   *)
(* the first of the list with that number.  exits tells of each process when *)
(* it ends while it is looked at, if it does.                              *)
processInfoList(processes, hasProc, exits) ==
    SelectSeq([i \in DOMAIN processes |->
                  IF hasProc THEN getProcessInfo(processes[i], exits[i]) ELSE fromPS(processes[i])],
              LAMBDA info : info.valid)
processInfoOf(list, pid) ==
    LET places == {i \in DOMAIN list : list[i].pid = pid}
    IN IF places = {} THEN Invalid ELSE list[Min(places)]

-----------------------------------------------------------------------------
(* A process is told as what it is, by its name and its command line, and the   *)
(* same by every source as long as it has kept its arguments and its short    *)
(* name is that of the program, in one word: a process that exits meanwhile   *)
(* is left out or told by its short name, and never mixed with another.      *)
Base(path) == Mid(path, lastIndexOf(path, "/", Len(path)) + 1, Len(path))
HasBlank(text) == " " \in ToSet(text)

ProcessTold(p) ==
    LET proc == getProcessInfo(p, "no")
        exited == getProcessInfo(p, "before cmdline")
        Plain == ~HasBlank(p.comm) /\ ~p.titled
    IN /\ proc.valid /\ proc.pid = p.pid /\ ~getProcessInfo(p, "before stat").valid
       /\ p.argv # <<>> /\ ~p.titled => proc.name = Base(p.argv[1])
       /\ ~HasBlank(p.comm) => exited.name = p.comm /\ exited.command = exited.name
       /\ Plain /\ p.argv # <<>> =>
             /\ proc.command = trimmed(fromProcStat(p).command)
             /\ fromPS(p).name = p.comm /\ fromPS(p).command = simplified(proc.command)
       /\ Plain /\ p.argv # <<>> /\ Base(p.argv[1]) = p.comm =>
             /\ proc.name = fromPS(p).name /\ proc.name = fromProcStat(p).name
             /\ \A denied \in BOOLEAN : Base(fromSnapshot(p, denied).command) = proc.name

ListTold(processes, exiting) ==
    LET list == processInfoList(processes, TRUE,
                    [i \in DOMAIN processes |-> IF i \in exiting THEN "before stat" ELSE "no"])
    IN /\ Len(list) = Cardinality(DOMAIN processes \ exiting)
       /\ \A i \in DOMAIN processes :
             processInfoOf(list, processes[i].pid) =
                 IF i \in exiting THEN Invalid ELSE getProcessInfo(processes[i], "no")

-----------------------------------------------------------------------------
(* The type of the file system of a path (kfilesystemtype.cpp).  What the  *)
(* system tells of the path is a record: the name of the file system in    *)
(* the table of mounts ("" where the path is no mount point), the name and *)
(* the number statfs() gives, or that it fails, and for FUSE the device it *)
(* is on, as udev knows it.                                                *)

Types == {"Unknown", "Nfs", "Smb", "Fat", "Ramfs", "Other", "Ntfs", "Exfat", "Fuse"}

s_fsMap ==
    [n \in {"nfs", "nfs4", "autofs", "cachefs", "fuse.sshfs", "xtreemfs@", "afs"} |-> "Nfs"]
      @@ [n \in {"smb", "smbfs", "cifs"} |-> "Smb"] @@ [n \in {"fat", "vfat", "msdos"} |-> "Fat"]
      @@ [n \in {"ntfs", "ntfs3"} |-> "Ntfs"] @@ "exfat" :> "Exfat" @@ "ramfs" :> "Ramfs"
      @@ "fuseblk" :> "Fuse" @@ "other" :> "Other" @@ "unknown" :> "Unknown"

kde_typeFromName(name) == IF name \in DOMAIN s_fsMap THEN s_fsMap[name] ELSE "Other"

(* The numbers of the kernel's file systems, by the name it registers them     *)
(* under, or the one given here where there are two for a name.             *)
TypeOfMagic ==
    [n \in {"nfs", "nfs4", "autofs", "autofsng"} |-> "Nfs"] @@ [n \in {"smb", "smb2", "cifs"} |-> "Smb"]
      @@ [n \in {"msdos", "vfat"} |-> "Fat"] @@ [n \in {"ntfs", "ntfs3"} |-> "Ntfs"]
      @@ "exfat" :> "Exfat" @@ "ramfs" :> "Ramfs"

(* probeFuseBlkType(): with udev, what is not on a block device is taken for a *)
(* remote file system.                                                     *)
probeFuseBlkType(fs, udev) ==
    IF ~udev \/ fs.statFails \/ fs.device = "unknown" THEN "Fuse"
    ELSE IF fs.device = "none" THEN "Nfs" ELSE kde_typeFromName(fs.device)

(* determineFileSystemTypeImpl() on Linux: the table of mounts is asked first   *)
(* where the library for it is there.                                      *)
determineOnLinux(fs, udev, libmount) ==
    IF libmount /\ fs.mounted # ""
    THEN IF fs.mounted = "fuseblk" THEN probeFuseBlkType(fs, udev) ELSE kde_typeFromName(fs.mounted)
    ELSE IF fs.statFails THEN "Unknown"
    ELSE IF fs.magic = "fuse" THEN probeFuseBlkType(fs, udev)
    ELSE IF fs.magic \in DOMAIN TypeOfMagic THEN TypeOfMagic[fs.magic] ELSE "Other"

(* ... on the BSDs and the other Unix systems, which tell the name. *)
determineByName(fs) == IF fs.statFails THEN "Unknown" ELSE kde_typeFromName(fs.fstypename)

determineOnHurd(fs) ==
    IF fs.statFails THEN "Unknown"
    ELSE CASE fs.magic \in {"nfs", "afs"} -> "Nfs" [] fs.magic = "msdos" -> "Fat"
           [] fs.magic = "ramfs" -> "Ramfs" [] OTHER -> "Other"

(* fileSystemType(): a path that is configured as slow is not asked for. *)
fileSystemType(slow, determined) ==
    CASE "SmbPaths" \in slow -> "Smb" [] slow = {"NfsPaths"} -> "Nfs" [] OTHER -> determined

fileSystemName(type) ==
    [t \in Types |-> CASE t = "Nfs" -> "NFS" [] t = "Smb" -> "SMB" [] t = "Fat" -> "FAT"
                       [] t = "Ramfs" -> "RAMFS" [] t = "Exfat" -> "ExFAT" [] t = "Ntfs" -> "Ntfs"
                       [] t = "Fuse" -> "FUSE" [] OTHER -> t][type]

-----------------------------------------------------------------------------
(* Whatever it is built with and whichever system it runs on, a file system     *)
(* both of whose tables know it is of one type; one on the network is never   *)
(* taken for a local one by one build and not by another, nor is a path that *)
(* is configured as slow.  The exceptions are the FUSE file systems that are *)
(* in the table of mounts under a name of their own, and AFS on Linux, whose  *)
(* number is not looked for.                                               *)
Remote == {"Nfs", "Smb"}

TypesAgree(fs) ==
    LET linux == {determineOnLinux(fs, udev, libmount) : udev \in BOOLEAN, libmount \in BOOLEAN}
        withUdev == {determineOnLinux(fs, TRUE, libmount) : libmount \in BOOLEAN}
        Known == fs.magic \in DOMAIN TypeOfMagic \cup {"ext4"}
        Same == fs.mounted \in {"", fs.fstypename}
    IN /\ linux \cup {determineByName(fs), determineOnHurd(fs)} \subseteq Types
       /\ Same /\ Known /\ fs.fstypename = fs.magic /\ ~fs.statFails =>
             linux = {determineByName(fs)}
       /\ Same /\ fs.fstypename = "fuseblk" /\ fs.magic = "fuse" /\ ~fs.statFails =>
             \E type \in Types : withUdev = {type}
       /\ fs.statFails => determineByName(fs) = "Unknown" /\ determineOnHurd(fs) = "Unknown"
       /\ \A slow \in SUBSET {"SmbPaths", "NfsPaths"}, determined \in linux :
             slow # {} => fileSystemType(slow, determined) \in Remote
       /\ \A s, t \in Types : fileSystemName(s) = fileSystemName(t) => s = t
-----------------------------------------------------------------------------
(* What is read from the os-release file (kosrelease.cpp).  A line is a    *)
(* text, with its indentation; the file is a sequence of lines.  The value *)
(* of the list is never empty: its first character is looked at.           *)

CONSTANTS
    KnownKeys,      \* the keys of one value, such as NAME
    ListKey         \* ID_LIKE

Trimmed(text) ==
    LET kept == {i \in DOMAIN text : text[i] # " "}
    IN IF kept = {} THEN <<>>
       ELSE SubSeq(text, CHOOSE i \in kept : \A j \in kept : i <= j,
                         CHOOSE i \in kept : \A j \in kept : j <= i)

(* Mutant: the value ends at the next equals sign. *)
splitEntry_All(line) ==
    LET at == IndexOf(line, {"="}, 1)
        end == IndexOf(line, {"="}, at + 1)
    IN IF at > Len(line) THEN <<line>>
       ELSE <<SubSeq(line, 1, at - 1), SubSeq(line, at + 1, end - 1)>>

splitEntry(line) ==
    LET at == IndexOf(line, {"="}, 1)
    IN IF at > Len(line) THEN <<line>>
       ELSE <<SubSeq(line, 1, at - 1), SubSeq(line, at + 1, Len(line))>>

(* A value that cannot be split leaves what was there. *)
setVar(var, value) ==
    LET split == splitArgs(value, {})
        Words(args) == FoldLeft(LAMBDA t, i : t \o IF i = 1 THEN args[1] ELSE <<" ">> \o args[i],
                               <<>>, [i \in DOMAIN args |-> i])
    IN IF split.error # "NoError" THEN var ELSE Words(split.args)

setList(var, value) ==
    LET quoted == value[1] = "\"" /\ value[Len(value)] = "\""
        split == splitArgs(IF quoted THEN SubSeq(value, 2, Len(value) - 1) ELSE value, {})
    IN IF split.error # "NoError" THEN var ELSE split.args

ReadLine(release, text) ==
    LET line == Trimmed(text)
        parts == splitEntry(line)
        value == Trimmed(parts[2])
    IN CASE At(line, 1) = "#" \/ Len(parts) # 2 -> release
         [] OTHER ->
              IF parts[1] \in KnownKeys
              THEN [release EXCEPT !.vars[parts[1]] = setVar(@, value)]
              ELSE IF parts[1] = ListKey
              THEN [release EXCEPT !.idLike = setList(@, value)]
              ELSE [release EXCEPT !.extras =
                      [k \in DOMAIN @ \cup {parts[1]} |->
                          IF k = parts[1] THEN setVar(<<>>, value) ELSE @[k]]]

(* The defaults, and what the lines make of them. *)
KOSReleasePrivate(lines) ==
    FoldLeft(ReadLine, [vars |-> [k \in KnownKeys |-> <<"l">>], idLike |-> <<>>,
                        extras |-> [k \in {} |-> <<>>]], lines)

(* The accessors, of the known keys and of all others. *)
Var(release, key) == IF key = ListKey THEN release.idLike ELSE release.vars[key]
extraKeys(release) == DOMAIN release.extras
extraValue(release, key) == IF key \in extraKeys(release) THEN release.extras[key] ELSE <<>>

-----------------------------------------------------------------------------
(* A value that is written as the shell would quote it is read as it was,    *)
(* under every key, whatever it contains and however the line is indented;   *)
(* and a line that is no assignment, or whose value cannot be split, leaves  *)
(* what the lines before it made.                                          *)
ReleaseReturns(key, text) ==
    LET Written(value) == <<" ">> \o key \o <<"=">> \o value
        clean == Uncontrolled(text)
        plain == clean # <<>> /\ \A i \in DOMAIN clean : ~isSpecial(clean[i])
        read == KOSReleasePrivate(<<Written(quoteArg(text))>>)
        bad == splitArgs(Trimmed(text), {}).error # "NoError"
    IN /\ key \in KnownKeys => Var(read, key) = clean
       /\ key = ListKey /\ plain => Var(read, key) = <<clean>>
       /\ key \notin KnownKeys \cup {ListKey} => extraValue(read, key) = clean
       /\ (\A i \in DOMAIN text : text[i] # "=") =>
             KOSReleasePrivate(<<Written(quoteArg(text)), text>>) = read
       /\ key \in KnownKeys /\ bad =>
             KOSReleasePrivate(<<Written(quoteArg(text)), Written(text)>>) = read
       /\ extraKeys(read) \cap (KnownKeys \cup {ListKey}) = {}
=============================================================================
