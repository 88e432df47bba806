---------------------------- MODULE MCKDirWatch ----------------------------
(* A directory, a directory in it, and a file in that. *)
EXTENDS KDirWatch

MCPaths == <<"top", "dir", "file">>
MCParent == [p \in {"dir", "file"} |-> IF p = "dir" THEN "top" ELSE "dir"]
MCNothing == {}
MCModes == {{"WatchSubDirs"}}
MCWatchable == {"dir", "file"}
=============================================================================
