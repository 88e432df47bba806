------------------------------- MODULE KBackup -------------------------------
(***************************************************************************)
(* Numbered backups of a file (kbackup.cpp): the backups with a number of  *)
(* maxBackups or more are removed, the others move up by one, and the file *)
(* is copied to number 1.                                                  *)
(*                                                                         *)
(* Every file operation is a step: it may fail, which is ignored, and the  *)
(* process may die after it.  QFile::rename() and QFile::copy() do not     *)
(* replace a file that exists.  The content of a file is its version.      *)
(***************************************************************************)
EXTENDS Naturals, FiniteSets, FiniteSetsExt

CONSTANTS
    MaxBackups, \* the values of maxBackups that callers use
    MaxVersion  \* bound on the versions of the file

ASSUME BackupAssumption ==
    MaxBackups \subseteq Nat /\ IsFiniteSet(MaxBackups) /\ MaxVersion \in Nat

VARIABLES
    version,    \* the content of the file
    backups,    \* the content of every numbered backup; 0: there is none
    step,       \* where the call is
    number,     \* the number renamed next
    limit       \* maxBackups of the call under way

backupVars == <<version, backups, step, number, limit>>

Numbers == 1 .. Max(MaxBackups \cup {1})

Taken == {i \in Numbers : backups[i] # 0}

(* The backups to remove, as far as that does not fail. *)
Excess(max) == {i \in Taken : i >= max}

(* numberedBackupFile(): what is too much is removed, one after the other. *)
numberedBackupFile(max) ==
    /\ step = "none"
    /\ step' = "remove"
    /\ limit' = max
    /\ UNCHANGED <<version, backups, number>>

RemoveOne ==
    /\ step = "remove"
    /\ \E i \in Excess(limit) : backups' = [backups EXCEPT ![i] = 0]
    /\ UNCHANGED <<version, step, number, limit>>

(* maxBackupFound, among those that are not too much. *)
StartRenaming ==
    /\ step = "remove"
    /\ step' = "rename"
    /\ number' = Max((Taken \ Excess(limit)) \cup {0})
    /\ UNCHANGED <<version, backups, limit>>

(* Mutant: what is in the way is replaced. *)
Rename_Replaces ==
    /\ step = "rename" /\ number > 0
    /\ number' = number - 1
    /\ \/ /\ backups[number] # 0
          /\ backups' = [backups EXCEPT ![number + 1] = backups[number], ![number] = 0]
       \/ UNCHANGED backups
    /\ UNCHANGED <<version, step, limit>>

(* The backup moves up by one, if nothing is in the way and nothing fails. *)
Rename ==
    /\ step = "rename" /\ number > 0
    /\ number' = number - 1
    /\ \/ /\ backups[number] # 0 /\ backups[number + 1] = 0
          /\ backups' = [backups EXCEPT ![number + 1] = backups[number], ![number] = 0]
       \/ UNCHANGED backups
    /\ UNCHANGED <<version, step, limit>>

(* The copy, which may fail. *)
Copy ==
    /\ step = "rename" /\ number = 0
    /\ step' = "none"
    /\ \/ backups[1] = 0 /\ backups' = [backups EXCEPT ![1] = version]
       \/ UNCHANGED backups
    /\ UNCHANGED <<version, number, limit>>

ProcessDies ==
    /\ step # "none"
    /\ step' = "none"
    /\ UNCHANGED <<version, backups, number, limit>>

Save ==
    /\ step = "none" /\ version < MaxVersion
    /\ version' = version + 1
    /\ UNCHANGED <<backups, step, number, limit>>

BackupInit ==
    /\ version = 1
    /\ backups = [i \in Numbers |-> 0]
    /\ step = "none"
    /\ number = 0
    /\ limit = 0

BackupNext ==
    \/ \E max \in MaxBackups : numberedBackupFile(max)
    \/ RemoveOne \/ StartRenaming \/ Rename \/ Copy \/ ProcessDies \/ Save

-----------------------------------------------------------------------------
(* Properties. *)

(* A higher number is never a newer backup, and a backup goes only when its   *)
(* number is too high: whatever fails and wherever the process dies, the    *)
(* others stay or move up by one.                                          *)
BackupsKept ==
    /\ [](\A i, j \in Taken : i < j => backups[i] >= backups[j])
    /\ [][\A i \in Taken : backups'[i] = backups[i]
                            \/ (step = "remove" /\ i >= limit)
                            \/ (backups'[i] = 0 /\ backups'[i + 1] = backups[i])]_backupVars
=============================================================================
