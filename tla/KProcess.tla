------------------------------- MODULE KProcess -------------------------------
(***************************************************************************)
(* The environment of a KProcess and its synchronous execution             *)
(* (kprocess.cpp).  To QProcess an empty environment means the one of the  *)
(* calling process, so a KProcess keeps one that is meant to be empty from *)
(* being so with a dummy variable.                                         *)
(***************************************************************************)
EXTENDS Integers, SequencesExt

CONSTANTS
    Variables,      \* the variables of the environment
    Values,     \* what they can be
    ExitCodes   \* what a process can return

ASSUME ProcessAssumption ==
    /\ ExitCodes \subseteq Nat
    /\ IsFiniteSet(Variables) /\ "DUMMY" \notin Variables

VARIABLES
    system,     \* the environment of the calling process
    env,        \* QProcess::environment(), a function of the names that are set
    wanted,     \* history: the environment the calls ask for
    child,      \* the process: "none", "running" or "ended", and -1 or its code
    executing,  \* where execute() is
    code        \* what execute() has returned

processVars == <<system, env, wanted, child, executing, code>>

NoVariables == [name \in {} |-> ""]

With(e, name, value) == [n \in DOMAIN e \cup {name} |-> IF n = name THEN value ELSE e[n]]
Without(e, names) == Restrict(e, DOMAIN e \ names)

DUMMY == With(NoVariables, "DUMMY", "")

(* The variables a child gets to see, but for the dummy. *)
Effective == Without(IF env = NoVariables THEN system ELSE env, {"DUMMY"})

(* The environment that setEnv() and unsetEnv() change. *)
Base == IF env = NoVariables THEN Without(system, {"DUMMY"}) ELSE env

clearEnvironment ==
    /\ env' = DUMMY
    /\ wanted' = NoVariables
    /\ UNCHANGED <<system, child, executing, code>>

setEnv(name, value, overwrite) ==
    /\ env' = IF name \in DOMAIN Base /\ ~overwrite THEN env ELSE With(Base, name, value)
    /\ wanted' = IF name \in DOMAIN wanted /\ ~overwrite THEN wanted ELSE With(wanted, name, value)
    /\ UNCHANGED <<system, child, executing, code>>

(* Mutant: the last variable is taken out without putting the dummy in. *)
Emptied_Not(e) == e
Emptied(e) == IF e = NoVariables THEN DUMMY ELSE e

unsetEnv(name) ==
    /\ env' = IF name \in DOMAIN Base THEN Emptied(Without(Base, {name})) ELSE env
    /\ wanted' = Without(wanted, {name})
    /\ UNCHANGED <<system, child, executing, code>>

-----------------------------------------------------------------------------
(* execute(): start, wait, and when that took too long or the process could  *)
(* not be started, kill and wait for it.                                   *)
execute ==
    /\ executing \in {"no", "returned"}
    /\ \E state \in {"running", "none"} : child' = [state |-> state, code |-> 0]
    /\ executing' = "waiting"
    /\ UNCHANGED <<system, env, wanted, code>>

(* The process ends by itself, at any time. *)
ChildEnds ==
    /\ child.state = "running"
    /\ \E c \in {-1} \cup ExitCodes : child' = [state |-> "ended", code |-> c]
    /\ UNCHANGED <<system, env, wanted, executing, code>>

(* waitForFinished() returns: the process has ended, or there is none. *)
Finished ==
    /\ executing = "waiting" /\ child.state = "ended"
    /\ code' = child.code
    /\ executing' = "returned"
    /\ UNCHANGED <<system, env, wanted, child>>

NotFinished ==
    /\ executing = "waiting" /\ child.state # "ended"
    /\ executing' = "killing"
    /\ UNCHANGED <<system, env, wanted, child, code>>

(* Mutant: the killed process is not waited for. *)
Kill_NoWait ==
    /\ executing = "killing"
    /\ executing' = "returned" /\ code' = -2
    /\ UNCHANGED <<system, env, wanted, child>>

(* kill(), and waitForFinished() without a limit. *)
Kill ==
    /\ executing = "killing"
    /\ child' = IF child.state = "running" THEN [state |-> "ended", code |-> -1] ELSE child
    /\ executing' = "returned" /\ code' = -2
    /\ UNCHANGED <<system, env, wanted>>

-----------------------------------------------------------------------------
(* A process that is to run outside of the sandbox (ksandbox.cpp): its words    *)
(* follow those for flatpak-spawn, which starts them on the host.  box has     *)
(* what is known of the sandbox and the environment of the calling process.  *)
Option(name, value) == [option |-> name, value |-> value]

makeHostContext(box, words, directory, environment) ==
    LET differing == SetToSeq({v \in DOMAIN environment :
                                  v \notin DOMAIN box.env \/ box.env[v] # environment[v]})
        spawn == [i \in 1 .. 4 |-> Option(<<"--watch-bus", "--host", "--forward-fd", "--forward-fd">>[i],
                                          <<<<>>, <<>>, <<"1">>, <<"2">>>>[i])]
    IN IF ~box.isFlatpak \/ ~box.privileged THEN [onHost |-> FALSE, options |-> <<>>, words |-> words]
       ELSE [onHost |-> TRUE,
             options |-> spawn \o (IF directory = "" THEN <<>> ELSE <<Option("--directory", <<directory>>)>>)
                           \o [i \in DOMAIN differing |->
                                 Option("--env", <<differing[i], environment[differing[i]]>>)],
             words |-> IF words # <<>> /\ Head(words) = "" THEN Tail(words) ELSE words]

-----------------------------------------------------------------------------
Environments == UNION {[names -> Values] : names \in SUBSET Variables}

ProcessInit ==
    /\ \E e \in Environments : system \in {e, With(e, "DUMMY", "")}
    /\ env = NoVariables
    /\ wanted = Without(system, {"DUMMY"})
    /\ child = [state |-> "none", code |-> 0] /\ executing = "no" /\ code = 0

ProcessNext ==
    \/ /\ executing \in {"no", "returned"}
       /\ \/ clearEnvironment
          \/ \E name \in Variables, value \in Values, overwrite \in BOOLEAN :
                setEnv(name, value, overwrite)
          \/ \E name \in Variables : unsetEnv(name)
    \/ execute \/ ChildEnds \/ Finished \/ NotFinished \/ Kill

-----------------------------------------------------------------------------
(* The host of a sandbox is told of exactly the variables that the calls have   *)
(* given another value than they have in the calling process, with that value, *)
(* and of the command and directory as they are.  It is not told what was     *)
(* unset or cleared: such a variable keeps the value it has on the host, and a *)
(* process there sees it, unlike a child (ksandbox.cpp:57-62).                *)
HostTold ==
    LET box == [isFlatpak |-> TRUE, privileged |-> TRUE, env |-> system]
        context == makeHostContext(box, <<"p", "a">>, "d", env)
        told == {o.value : o \in {o \in ToSet(context.options) : o.option = "--env"}}
        Same(v) == v \in DOMAIN system /\ system[v] = wanted[v]
    IN /\ {pair \in told : pair[1] \in Variables} = {<<v, wanted[v]>> : v \in {v \in DOMAIN wanted : ~Same(v)}}
       /\ context.words = <<"p", "a">> /\ Option("--directory", <<"d">>) \in ToSet(context.options)

(* A child sees the variables that the calls so far leave, be they on the     *)
(* environment of the caller, on one that was cleared or on one whose last  *)
(* variable was taken away; a process on the host is given those that were   *)
(* set, and only those (HostTold); and when execute() returns no process of  *)
(* its is running, and a code of a process is returned for one that ended by *)
(* itself.                                                                 *)
ProcessSound ==
    /\ Effective = wanted
    /\ HostTold
    /\ executing = "returned" =>
          /\ child.state # "running"
          /\ code # -2 => child = [state |-> "ended", code |-> code]

-----------------------------------------------------------------------------
(* The command a KProcess runs (kprocess.cpp): its program, "" for none,   *)
(* its arguments and, on Windows, the native ones QProcess appends to the  *)
(* command line as they are.  A shell command is a record of its text and  *)
(* of what KShell::splitArgs() makes of it, which is Meta if it needs a    *)
(* shell or is no command at all.                                          *)

CONSTANTS
    Meta,
    Executables,    \* the programs findExecutable() knows; others give ""
    KnownShells     \* those that are installed, in the order they are tried

NoCommand == [program |-> "", arguments |-> <<>>, native |-> "", percent |-> FALSE]

-----------------------------------------------------------------------------
clearProgram(p) == [p EXCEPT !.program = "", !.arguments = <<>>, !.native = ""]

setProgram(p, exe, args) == [p EXCEPT !.program = exe, !.arguments = args, !.native = ""]

setProgram_argv(p, argv) ==
    IF argv = <<>> THEN clearProgram(p) ELSE setProgram(p, Head(argv), Tail(argv))

(* operator<<: the first word is the program. *)
Stream(p, arg) ==
    IF p.program = "" THEN [p EXCEPT !.program = arg] ELSE [p EXCEPT !.arguments = Append(@, arg)]
StreamList(p, args) ==
    IF p.program = "" THEN setProgram_argv(p, args) ELSE [p EXCEPT !.arguments = @ \o args]

program(p) == <<p.program>> \o p.arguments

findExecutable(exe) == IF exe \in Executables THEN exe ELSE ""

(* What is taken for a POSIX shell where /bin/sh might be none. *)
PosixShell(link) ==
    IF link # "" THEN link ELSE IF KnownShells # <<>> THEN Head(KnownShells) ELSE "/bin/sh"

(* setShellCommand(): a plain command is run without a shell.  Otherwise one    *)
(* runs it, which on Windows finds a percent sign in the environment.       *)
setShellCommand(p, platform, link, cmd) ==
    LET exe == IF cmd.split \in {Meta, <<>>} THEN "" ELSE findExecutable(Head(cmd.split))
        shell == CASE platform = "free" -> "/bin/sh"
                   [] platform = "nonfree" -> PosixShell(link)
                   [] platform = "windows" -> "cmd.exe"
    IN IF exe # "" THEN setProgram(p, exe, Tail(cmd.split))
       ELSE IF platform = "windows"
       THEN [p EXCEPT !.program = shell, !.arguments = <<>>, !.native = cmd.text, !.percent = TRUE]
       ELSE [p EXCEPT !.program = shell, !.arguments = <<"-c", cmd.text>>]

(* startDetached(): 0 for what was not started. *)
startDetached(p, pid) == IF findExecutable(p.program) = "" THEN 0 ELSE pid
startDetached_argv(argv, pid) ==
    IF argv = <<>> THEN 0 ELSE startDetached(setProgram_argv(NoCommand, argv), pid)

-----------------------------------------------------------------------------
Call(p, call) ==
    CASE call.op = "clearProgram" -> clearProgram(p)
      [] call.op = "setProgram" -> setProgram(p, Head(call.argv), Tail(call.argv))
      [] call.op = "setProgram_argv" -> setProgram_argv(p, call.argv)
      [] call.op = "<<" -> Stream(p, call.arg)
      [] call.op = "<< list" -> StreamList(p, call.argv)
      [] call.op = "setShellCommand" -> setShellCommand(p, call.platform, "", call.cmd)

(* The words the calls ask for: those of the last of them that sets a command, *)
(* and all that were added since.                                          *)
Words(words, call) ==
    CASE call.op = "clearProgram" -> <<>>
      [] call.op \in {"setProgram", "setProgram_argv"} -> call.argv
      [] call.op = "<<" -> Append(words, call.arg)
      [] call.op = "<< list" -> words \o call.argv
      [] OTHER -> words

Direct(cmd) == cmd.split \notin {Meta, <<>>} /\ Head(cmd.split) \in Executables

(* Whatever it ran before, a process runs the words it was given, in whichever *)
(* way, and nothing else; a shell command that needs no shell runs as its     *)
(* words, any other is given to the shell in one piece; and what is started   *)
(* without a process object is what a process object would start.           *)
CommandKept(calls, platform, cmd) ==
    LET p == FoldLeft(Call, NoCommand, calls)
        words == FoldLeft(Words, <<>>, calls)
        after == setShellCommand(p, platform, "", cmd)
        direct == Direct(cmd)
    IN /\ (\A i \in DOMAIN calls : calls[i].op # "setShellCommand") =>
             program(p) = (IF words = <<>> THEN <<"">> ELSE words) /\ p.native = ""
       /\ direct => program(after) = cmd.split /\ after.native = ""
       /\ ~direct => IF platform = "windows" THEN after.native = cmd.text /\ after.arguments = <<>>
                     ELSE after.arguments = <<"-c", cmd.text>> /\ after.program # ""
       /\ \A call \in {[op |-> "setProgram_argv", argv |-> <<"a", "b">>], [op |-> "clearProgram"]} :
             Call(after, call).native = "" /\ program(Call(after, call)) = program(Call(NoCommand, call))
       /\ words # <<>> /\ p.native = "" /\ program(p) = words =>
             startDetached(p, 1) = startDetached_argv(words, 1)
=============================================================================
