---------------------------- MODULE KNetworkMounts ----------------------------
(***************************************************************************)
(* Paths that lead to network mounts through symbolic links                *)
(* (knetworkmounts.cpp): they are resolved without asking the mount, and   *)
(* remembered in a hash.  A path is the sequence of its names; what the    *)
(* slashes at its end are is left out.                                     *)
(***************************************************************************)
EXTENDS Naturals, SequencesExt

CONSTANTS
    PathNames,          \* the names in paths
    MountPaths,         \* the paths that are asked for
    SymlinkDirectories, \* what the list of directories of links can be
    SymlinksToMounts,   \* what the list of links can be
    SymLinks            \* what the links of the file system can be, path by path

ASSUME MountsAssumption ==
    /\ MountPaths \subseteq Seq(PathNames)
    /\ SymlinkDirectories \subseteq Seq(Seq(PathNames))
    /\ SymlinksToMounts \subseteq Seq(Seq(PathNames))
    /\ \A link \in SymLinks : \A path \in DOMAIN link : link[path] \in Seq(PathNames)

VARIABLES
    directories,    \* the paths of type SymlinkDirectory
    symlinks,       \* the paths of type SymlinkToNetworkMount
    useCache,       \* the option SymlinkPathsUseCache
    canonical,      \* s_canonicalLinkSpacePaths, a function of some paths
    links,          \* the symbolic links there are and their targets
    unchanged       \* history: neither links nor lists changed since clearCache()

mountVars == <<directories, symlinks, useCache, canonical, links, unchanged>>

(* getMatchingPath(): the first in the list that is the path or above it. *)
getMatchingPath(path, slowPaths) ==
    LET matching == {i \in DOMAIN slowPaths : IsPrefix(slowPaths[i], path)}
    IN IF matching = {} THEN {}
       ELSE {slowPaths[CHOOSE i \in matching : \A j \in matching : i <= j]}

(* The path with its first names, which are a link, replaced. *)
Replaced(path, link, target) == target \o SubSeq(path, Len(link) + 1, Len(path))

Target(link) == IF link \in DOMAIN links THEN links[link] ELSE link

(* The part of a path that is a link in a directory of links. *)
LinkIn(directory, path) == SubSeq(path, 1, Len(directory) + 1)

(* Mutant: what is known of a link is taken for all that is below it. *)
Through_Whole(link, path, known) ==
    IF link \in DOMAIN known THEN known[link] ELSE Replaced(path, link, Target(link))

(* A path through a link, by what is known of the link if anything is. *)
Through(link, path, known) ==
    Replaced(path, link, IF link \in DOMAIN known THEN known[link] ELSE Target(link))

(* What canonicalSymlinkPath() makes of a path, and whether it is kept. *)
Resolution(path, known) ==
    LET symlink == getMatchingPath(path, symlinks)
        directory == getMatchingPath(path, directories)
    IN IF symlink # {}
       THEN LET link == CHOOSE link \in symlink : TRUE
            IN [path |-> Replaced(path, link, Target(link)), kept |-> TRUE]
       ELSE IF directory = {} THEN [path |-> path, kept |-> FALSE]
       ELSE LET above == CHOOSE above \in directory : TRUE
            IN [path |-> IF path = above THEN path ELSE Through(LinkIn(above, path), path, known),
                kept |-> TRUE]

(* What is known, with the path. *)
Remembered(path, target) ==
    [p \in DOMAIN canonical \cup {path} |-> IF p = path THEN target ELSE canonical[p]]

canonicalSymlinkPath(path) ==
    /\ LET resolution == Resolution(path, IF useCache THEN canonical ELSE <<>>)
       IN canonical' = IF useCache /\ path \notin DOMAIN canonical /\ resolution.kept
                       THEN Remembered(path, resolution.path) ELSE canonical
    /\ UNCHANGED <<directories, symlinks, useCache, links, unchanged>>

clearCache ==
    /\ canonical' = <<>> /\ unchanged' = TRUE
    /\ UNCHANGED <<directories, symlinks, useCache, links>>

setPaths ==
    /\ \/ directories' \in SymlinkDirectories /\ UNCHANGED symlinks
       \/ symlinks' \in SymlinksToMounts /\ UNCHANGED directories
    /\ unchanged' = FALSE
    /\ UNCHANGED <<useCache, canonical, links>>

setOption ==
    /\ useCache' = ~useCache
    /\ UNCHANGED <<directories, symlinks, canonical, links, unchanged>>

(* A link is made, removed or made to lead elsewhere by somebody. *)
ChangeLinks ==
    /\ links' \in SymLinks
    /\ unchanged' = FALSE
    /\ UNCHANGED <<directories, symlinks, useCache, canonical>>

MountsInit ==
    /\ directories \in SymlinkDirectories /\ symlinks \in SymlinksToMounts
    /\ links \in SymLinks /\ useCache \in BOOLEAN
    /\ canonical = <<>> /\ unchanged = TRUE

MountsNext ==
    \/ \E path \in MountPaths : canonicalSymlinkPath(path)
    \/ clearCache \/ setPaths \/ setOption \/ ChangeLinks

(* What is remembered is what would be found without remembering, in whatever  *)
(* order the paths were asked for, as long as neither the links nor the lists *)
(* of paths have changed since the cache was last cleared: nothing else      *)
(* clears it, a change of the lists does not (knetworkmounts.h:272).        *)
CacheTransparent ==
    unchanged => \A path \in DOMAIN canonical : canonical[path] = Resolution(path, <<>>).path
=============================================================================
