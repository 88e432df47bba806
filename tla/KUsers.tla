-------------------------------- MODULE KUsers --------------------------------
(***************************************************************************)
(* Users and groups on Unix (kuser_unix.cpp).  A database is the sequence  *)
(* of the users, in the order getpwent() lists them, and of the groups;    *)
(* the ids of the caller and its environment are what a user is looked up  *)
(* from.                                                                   *)
(***************************************************************************)
EXTENDS Integers, SequencesExt

CONSTANTS
    BufferSize,     \* the groups that fit into the buffer of listGroupsForUser()
    PasswdSize,     \* os_pw_size(): how large an entry of the users is looked up
    GroupSize,      \* os_gr_size(): the first buffer for an entry of the groups
    GroupLimit      \* 256000: no buffer for such an entry is as large

NoUser == [uid |-> -1, gid |-> -1, name |-> "", home |-> "", properties |-> <<>>]
NoGroup == [gid |-> -1, name |-> ""]

First(seq, Test(_)) ==
    LET places == {i \in DOMAIN seq : Test(seq[i])}
    IN IF places = {} THEN {} ELSE {seq[CHOOSE i \in places : \A j \in places : i <= j]}

-----------------------------------------------------------------------------
(* fillPasswd(): the home directory of the environment is taken for the user *)
(* who runs the program with his own rights.                               *)
fillPasswd(found, caller) ==
    IF found = {} THEN NoUser
    ELSE LET p == CHOOSE p \in found : TRUE
             own == p.uid = caller.uid /\ p.uid = caller.euid /\ caller.HOME # ""
         IN [uid |-> p.uid, gid |-> p.gid, name |-> p.name,
             home |-> IF own THEN caller.HOME ELSE p.home,
             properties |-> [i \in 1 .. 4 |-> IF i \in DOMAIN p.gecos THEN p.gecos[i] ELSE ""]]

(* getpwnam_r() and getpwuid_r() fail when the entry does not fit; they are not *)
(* called again.                                                           *)
Fitting(found) == {p \in found : p.size <= PasswdSize}

ByName(db, name, caller) ==
    fillPasswd(Fitting(First(db.users, LAMBDA p : p.name = name)), caller)
ByUid(db, uid, caller) ==
    fillPasswd(Fitting(First(db.users, LAMBDA p : p.uid = uid)), caller)

(* KUser == KUser, and KUserGroup == KUserGroup. *)
SameUser(a, b) == a.uid # -1 /\ a.uid = b.uid
SameGroup(a, b) == a.gid # -1 /\ a.gid = b.gid

property(user, which) == IF which \in DOMAIN user.properties THEN user.properties[which] ELSE ""

(* Mutant: the name in the environment is trusted. *)
KUser_Trusting(db, mode, caller) ==
    IF mode = "UseEffectiveUID" /\ caller.euid # caller.uid THEN ByUid(db, caller.euid, caller)
    ELSE ByName(db, caller.LOGNAME, caller)

(* KUser(UIDMode): of several users with one id, the environment names one. *)
KUser(db, mode, caller) ==
    LET logname == ByName(db, caller.LOGNAME, caller)
        user == ByName(db, caller.USER, caller)
    IN IF mode = "UseEffectiveUID" /\ caller.euid # caller.uid THEN ByUid(db, caller.euid, caller)
       ELSE IF logname.uid = caller.uid THEN logname
       ELSE IF user.uid = caller.uid THEN user
       ELSE ByUid(db, caller.uid, caller)

-----------------------------------------------------------------------------
HasGroup(db, gid) == \E i \in DOMAIN db.groups : db.groups[i].gid = gid
GroupOf(db, gid) == CHOOSE g \in ToSet(db.groups) : g.gid = gid

(* getgrouplist(): the ids of all groups, of which size are stored. *)
getgrouplist(db, name, gid, size) ==
    LET others == SelectSeq(db.groups, LAMBDA g : g.gid # gid /\ name \in ToSet(g.members))
        all == <<gid>> \o [i \in DOMAIN others |-> others[i].gid]
    IN [count |-> Len(all), gids |-> SubSeq(all, 1, IF size < Len(all) THEN size ELSE Len(all))]

(* What is read from the buffer; past its end that is anything. *)
Read(list, i) == IF i <= Len(list.gids) THEN list.gids[i] ELSE -2

AtMost(seq, n) == SubSeq(seq, 1, IF n < Len(seq) THEN n ELSE Len(seq))

(* listGroupsForUser(), with a buffer that is enlarged only when all groups    *)
(* are wanted.                                                             *)
listGroupsForUser(db, name, gid, maxCount) ==
    LET first == getgrouplist(db, name, gid, BufferSize)
        list == IF first.count > BufferSize /\ first.count < maxCount
                THEN getgrouplist(db, name, gid, first.count) ELSE first
    IN AtMost(SelectSeq([i \in 1 .. list.count |-> Read(list, i)],
                        LAMBDA g : g = -2 \/ HasGroup(db, g)),
              maxCount)

(* The other implementation, where there is no getgrouplist(). *)
listGroupsForUser_getgrent(db, name, gid, maxCount) ==
    LET own == IF HasGroup(db, gid) THEN <<gid>> ELSE <<>>
        others == SelectSeq(db.groups, LAMBDA g : g.gid # gid /\ name \in ToSet(g.members))
    IN AtMost(own \o [i \in DOMAIN others |-> others[i].gid], maxCount)

(* listGroupMembers(): those the group names, then those whose own group it is. *)
listGroupMembers(db, gid, maxCount) ==
    LET named == SelectSeq(GroupOf(db, gid).members,
                           LAMBDA n : \E i \in DOMAIN db.users : db.users[i].name = n)
        added == AtMost([i \in DOMAIN named |-> CHOOSE p \in ToSet(db.users) : p.name = named[i]], maxCount)
        primary == SelectSeq(db.users,
                             LAMBDA p : p.gid = gid /\ \A i \in DOMAIN added : added[i].uid # p.uid)
    IN IF ~HasGroup(db, gid) THEN <<>> ELSE AtMost(added \o primary, maxCount)

-----------------------------------------------------------------------------
(* What is listed of all there is. *)
allUsers(db, maxCount, caller) ==
    [i \in DOMAIN AtMost(db.users, maxCount) |-> fillPasswd({db.users[i]}, caller)]
allUserNames(db, maxCount) == [i \in DOMAIN AtMost(db.users, maxCount) |-> db.users[i].name]

fillGroup(found) ==
    IF found = {} THEN NoGroup
    ELSE LET g == CHOOSE g \in found : TRUE IN [gid |-> g.gid, name |-> g.name]

allGroups(db, maxCount) == [i \in DOMAIN AtMost(db.groups, maxCount) |-> fillGroup({db.groups[i]})]
allGroupNames(db, maxCount) == [i \in DOMAIN AtMost(db.groups, maxCount) |-> db.groups[i].name]

(* The buffer is doubled while the entry does not fit, up to a limit; by name    *)
(* there is none.                                                          *)
Buffers == {size \in {GroupSize * 2 ^ n : n \in 0 .. GroupLimit} : size < GroupLimit}
GroupByGid(db, gid) ==
    fillGroup({g \in First(db.groups, LAMBDA g : g.gid = gid) : \E size \in Buffers : g.size <= size})

GroupByName(db, name) == fillGroup(First(db.groups, LAMBDA g : g.name = name))
KUserGroup(db, mode, caller) == GroupByGid(db, KUser(db, mode, caller).gid)

(* KUserId::fromName() and KGroupId::fromName(). *)
UserIdOf(db, name) ==
    IF name = "" \/ First(db.users, LAMBDA p : p.name = name) = {} THEN -1
    ELSE (CHOOSE p \in First(db.users, LAMBDA p : p.name = name) : TRUE).uid
GroupIdOf(db, name) ==
    IF name = "" \/ First(db.groups, LAMBDA g : g.name = name) = {} THEN -1
    ELSE (CHOOSE g \in First(db.groups, LAMBDA g : g.name = name) : TRUE).gid

(* groups() and groupNames(), users() and userNames(). *)
groupsOf(db, user, maxCount) ==
    LET gids == listGroupsForUser(db, user.name, user.gid, maxCount)
    IN [i \in DOMAIN gids |-> fillGroup(First(db.groups, LAMBDA g : g.gid = gids[i]))]
usersOf(db, group, maxCount, caller) ==
    LET members == listGroupMembers(db, group.gid, maxCount)
    IN [i \in DOMAIN members |-> fillPasswd({members[i]}, caller)]

-----------------------------------------------------------------------------
(* The user that is shown by an interface (kuserproxy.cpp): files tells the    *)
(* name in /etc/passwd and which picture lies where, 0 for none; a proxy    *)
(* watches paths and tells what has changed, and shown and told are what     *)
(* was read when it told.                                                 *)
AccountsIcon(name) == "AccountsService " \o name
HomeIcon == "~/.face.icon"
EtcPasswd == "/etc/passwd"

faceIconPath(name, files) ==
    IF files.icons[AccountsIcon(name)] # 0 THEN AccountsIcon(name)
    ELSE IF files.icons[HomeIcon] # 0 THEN HomeIcon ELSE ""

Icon(name, files) ==
    LET path == faceIconPath(name, files) IN IF path = "" THEN 0 ELSE files.icons[path]

KUserProxy(files) ==
    LET path == faceIconPath(files.name, files)
    IN [name |-> files.name, shown |-> Icon(files.name, files), told |-> files.name,
        watched |-> {IF path = "" THEN HomeIcon ELSE path, AccountsIcon(files.name), EtcPasswd}]

update(proxy, path, files) ==
    IF path \in {faceIconPath(proxy.name, files), HomeIcon, AccountsIcon(proxy.name)}
    THEN [proxy EXCEPT !.shown = Icon(proxy.name, files)]
    ELSE IF path = EtcPasswd THEN [proxy EXCEPT !.name = files.name, !.told = files.name]
    ELSE proxy

-----------------------------------------------------------------------------
(* The user of the process is the one with the id asked for and no other,      *)
(* whatever the environment says, and there is none only if nobody has that *)
(* id; HOME is used for nobody else.                                       *)
RightUser(db, mode, caller) ==
    LET wanted == IF mode = "UseEffectiveUID" THEN caller.euid ELSE caller.uid
        user == KUser(db, mode, caller)
        known == {p \in ToSet(db.users) : p.uid = wanted}
    IN IF known = {} THEN user = NoUser
       ELSE /\ user.uid = wanted
            /\ user.home = caller.HOME /\ caller.HOME # "" => caller.uid = caller.euid

(* Where the groups of the user are read past the end of the buffer: more       *)
(* groups than fit, not all of them wanted, but more than are found there.   *)
(* getgrouplist() is then not asked again, and its count is beyond the buffer *)
(* (kuser_unix.cpp:276-284).                                               *)
PastTheEnd(db, user, maxCount) ==
    LET list == getgrouplist(db, user.name, user.gid, BufferSize)
    IN /\ list.count > BufferSize /\ list.count >= maxCount
       /\ maxCount > Len(SelectSeq(list.gids, LAMBDA g : HasGroup(db, g)))

(* A user is a member of a group exactly if the group is one of the user's, no  *)
(* group and no user is listed twice, no more than wanted and no fewer, and  *)
(* both implementations list the same groups, unless they are PastTheEnd.  *)
MembersAgree(db, maxCount) ==
    \A user \in ToSet(db.users) :
        LET groups == listGroupsForUser(db, user.name, user.gid, maxCount)
            all == listGroupsForUser(db, user.name, user.gid, 100)
        IN /\ PastTheEnd(db, user, maxCount) \/
                /\ groups = listGroupsForUser_getgrent(db, user.name, user.gid, maxCount)
                /\ groups = AtMost(all, maxCount)
           /\ Cardinality(ToSet(all)) = Len(all)
           /\ \A g \in ToSet(db.groups) :
                 LET members == listGroupMembers(db, g.gid, maxCount)
                     every == listGroupMembers(db, g.gid, 100)
                 IN /\ (g.gid \in ToSet(all)) = (user \in ToSet(every))
                    /\ Cardinality(ToSet(every)) = Len(every)
                    /\ members = AtMost(every, maxCount)

(* However a user or a group is made - from the list, by name, by id or by the  *)
(* id of its name - it is the same one, with the same properties, as long as *)
(* the entry of a user fits the buffer and that of a group one below the      *)
(* limit; what does not fit is invalid, and equal to nothing, even when       *)
(* another user with the same id would fit.  A user is                        *)
(* among those of each of his groups, and the group of the process is that of *)
(* its user.                                                               *)
MadeAlike(db, caller) ==
    LET all == allUsers(db, Len(db.users), caller)
    IN /\ allUserNames(db, 100) = [i \in DOMAIN all |-> all[i].name]
       /\ allGroupNames(db, 100) = [i \in DOMAIN allGroups(db, 100) |-> allGroups(db, 100)[i].name]
       /\ \A i \in DOMAIN db.users :
             LET p == db.users[i]
                 byName == ByName(db, p.name, caller)
                 byUid == ByUid(db, UserIdOf(db, p.name), caller)
                 first == CHOOSE q \in First(db.users, LAMBDA q : q.uid = p.uid) : TRUE
             IN IF p.size <= PasswdSize
                THEN /\ byName = all[i]
                     /\ IF first.size <= PasswdSize THEN SameUser(byName, byUid) /\ byUid.name = first.name
                        ELSE byUid = NoUser
                     /\ \A which \in 1 .. 4 : property(byName, which) = property(all[i], which)
                     /\ \A g \in ToSet(groupsOf(db, byName, 100)) :
                           \E q \in ToSet(usersOf(db, g, 100, caller)) : SameUser(q, byName)
                ELSE byName = NoUser /\ ~SameUser(byName, byName)
       /\ \A g \in ToSet(db.groups) :
             LET byGid == GroupByGid(db, GroupIdOf(db, g.name))
             IN IF g.size < GroupLimit /\ 2 * g.size <= GroupLimit
                THEN SameGroup(byGid, GroupByName(db, g.name)) /\ byGid.name = g.name
                ELSE SameGroup(byGid, byGid) => byGid = GroupByName(db, g.name)
       /\ \A mode \in {"UseEffectiveUID", "UseRealUserID"} :
             LET user == KUser(db, mode, caller)
                 g == KUserGroup(db, mode, caller)
             IN SameGroup(g, g) => user # NoUser /\ g.gid = user.gid
       /\ UserIdOf(db, "") = -1 /\ GroupIdOf(db, "") = -1

(* After any changes of the files the name and the picture shown are those of   *)
(* the user, unless the picture in the home directory was not watched and has *)
(* changed, as when the other was the one there at first, or the user has     *)
(* another name now.                                                       *)
ProxyCurrent(first, changes) ==
    LET Change(files, c) ==
            IF c.path = EtcPasswd THEN [files EXCEPT !.name = c.value] ELSE [files EXCEPT !.icons[c.path] = c.value]
        Step(s, c) == LET files == Change(s.files, c)
                      IN [files |-> files, proxy |-> IF c.path \in s.proxy.watched
                                                     THEN update(s.proxy, c.path, files) ELSE s.proxy]
        last == FoldLeft(Step, [files |-> first, proxy |-> KUserProxy(first)], changes)
        Changed(path) == \E i \in DOMAIN changes : changes[i].path = path
    IN /\ last.proxy.told = last.files.name
       /\ \/ last.proxy.shown = Icon(last.files.name, last.files)
          \/ HomeIcon \notin last.proxy.watched /\ Changed(HomeIcon)
          \/ Changed(EtcPasswd)
=============================================================================
