----------------------------- MODULE MCServices -----------------------------
(***************************************************************************)
(* Components that share nothing with each other, checked by one run: focus *)
(* is the one a behaviour is about, and the others stay as they are.       *)
(***************************************************************************)
EXTENDS KSignalHandler, KSystemClockSkewNotifier, KJobProgress, KBackup,
        KListOpenFilesJob, KNetworkMounts

VARIABLE focus

CONSTANTS n1, n2, Bytes, Files

(* Directories of links and links that are known, and links that there are. *)
MCMountPaths == {<<"l">>, <<"l", "x">>, <<"l", "x", "f">>, <<"l", "y", "f">>, <<"m">>, <<"m", "f">>}
MCSymlinkDirectories == {<<>>, <<<<"l">>>>, <<<<"l", "x">>, <<"l">>>>}
MCSymlinksToMounts == {<<>>, <<<<"m">>>>, <<<<"l", "x">>, <<"m">>>>}
MCSymLinks ==
    LET Link(p, t) == IF t = <<>> THEN <<>> ELSE p :> t
    IN {Link(<<"l", "x">>, s) @@ Link(<<"m">>, t) : s \in {<<"s">>}, t \in {<<>>, <<"t">>}}
         \cup {<<"m">> :> <<"t">>, <<"l", "y">> :> <<"s">> @@ <<"m">> :> <<"l", "y">>}

allVars == <<handlerVars, skewVars, progressVars, backupVars, lsofVars, mountVars, focus>>

MountsIdle ==
    /\ directories = <<>> /\ symlinks = <<>> /\ links = <<>> /\ useCache = FALSE
    /\ canonical = <<>> /\ unchanged = TRUE

Init ==
    /\ focus \in {"signals", "skew", "progress", "backup", "lsof", "mounts"}
    /\ HandlerInit /\ SkewInit /\ ProgressInit /\ BackupInit /\ LsofInit
    /\ IF focus = "mounts" THEN MountsInit ELSE MountsIdle

Next ==
    /\ UNCHANGED focus
    /\ \/ /\ focus = "signals" /\ HandlerNext
          /\ UNCHANGED <<skewVars, progressVars, backupVars, lsofVars, mountVars>>
       \/ /\ focus = "skew" /\ SkewNext
          /\ UNCHANGED <<handlerVars, progressVars, backupVars, lsofVars, mountVars>>
       \/ /\ focus = "progress" /\ ProgressNext
          /\ UNCHANGED <<handlerVars, skewVars, backupVars, lsofVars, mountVars>>
       \/ /\ focus = "backup" /\ BackupNext
          /\ UNCHANGED <<handlerVars, skewVars, progressVars, lsofVars, mountVars>>
       \/ /\ focus = "lsof" /\ LsofNext
          /\ UNCHANGED <<handlerVars, skewVars, progressVars, backupVars, mountVars>>
       \/ /\ focus = "mounts" /\ MountsNext
          /\ UNCHANGED <<handlerVars, skewVars, progressVars, backupVars, lsofVars>>

Spec ==
    /\ Init /\ [][Next]_allVars
    /\ focus = "signals" => HandlerFairness
    /\ focus = "lsof" => LsofFairness
=============================================================================
