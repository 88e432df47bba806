------------------------------- MODULE KUsersWin -------------------------------
(***************************************************************************)
(* Users and groups on Windows (kuser_win.cpp).  A machine has accounts,   *)
(* each with a security identifier (a domain and a number in it), a name   *)
(* and a type; an account of type user has what NetUserGetInfo() tells of *)
(* it, at the levels it answers.                                           *)
(***************************************************************************)
EXTENDS Integers, SequencesExt

NoId == [domain |-> "", rid |-> 0]
UserTypes == {"SidTypeUser", "SidTypeDeletedAccount"}
GroupTypes == {"SidTypeGroup", "SidTypeWellKnownGroup"}

FirstWith(seq, Test(_)) ==
    LET places == {i \in DOMAIN seq : Test(seq[i])}
    IN IF places = {} THEN {} ELSE {seq[Min(places)]}
The(set) == CHOOSE e \in set : TRUE

(* LookupAccountNameW(), LookupAccountSidW() and NetUserGetInfo() at a level:   *)
(* the account found, or none.                                             *)
LookupAccountName(pc, name) == FirstWith(pc.accounts, LAMBDA a : a.name = name)
LookupAccountSid(pc, sid) == FirstWith(pc.accounts, LAMBDA a : a.sid = sid)
NetUserGetInfo(pc, name, level) ==
    FirstWith(pc.accounts, LAMBDA a : a.name = name /\ a.type \in UserTypes /\ level \in a.levels)

-----------------------------------------------------------------------------
(* sidFromName(), for the users and for the groups. *)
sidFromName(pc, name, types) ==
    LET found == LookupAccountName(pc, name)
    IN IF name = "" \/ found = {} \/ The(found).type \notin types THEN NoId ELSE The(found).sid

KUserId_fromName(pc, name) == sidFromName(pc, name, UserTypes)
KGroupId_fromName(pc, name) == sidFromName(pc, name, GroupTypes)

(* KUserOrGroupId: invalid ids are equal. *)
SameId(a, b) == IF a # NoId THEN b # NoId /\ a = b ELSE b = NoId

(* netApiEnumerate(): the answers are read one after the other while there are  *)
(* more of them, those that fail are left out, and no more than maxCount     *)
(* entries are taken.                                                      *)
netApiEnumerate(answers, maxCount) ==
    LET asked == {i \in DOMAIN answers : \A j \in 1 .. i - 1 : answers[j].status = "ERROR_MORE_DATA"}
        read == [i \in 1 .. Max(asked \cup {0}) |->
                    IF answers[i].status \in {"NERR_Success", "ERROR_MORE_DATA"}
                    THEN answers[i].entries ELSE <<>>]
        all == FlattenSeq(read)
    IN SubSeq(all, 1, Min({maxCount, Len(all)}))

(* enumerateGroupsForUser(): more data is taken for success, as it would be     *)
(* asked for without end.  Only a user has groups.                          *)
enumerateGroupsForUser(pc, name, maxCount) ==
    LET found == LookupAccountName(pc, name)
        answer == IF found # {} /\ The(found).type \in UserTypes
                  THEN [status |-> "NERR_Success", entries |-> The(found).groups]
                  ELSE [status |-> "NERR_UserNotFound", entries |-> <<>>]
    IN netApiEnumerate(<<answer>>, maxCount)

-----------------------------------------------------------------------------
sharedNull == [uid |-> NoId, gid |-> NoId, loginName |-> "", homeDir |-> "", isAdmin |-> FALSE]

guessHomeDir(pc, name, uid) ==
    IF SameId(uid, pc.current) THEN "homePath"
    ELSE IF pc.profilesKnown THEN "profiles/" \o name ELSE ""

(* create(): the details are asked for by the name, without its domain, at two  *)
(* levels, of which only the first tells the primary group.                 *)
create(pc, uid) ==
    LET found == LookupAccountSid(pc, uid)
        name == The(found).name
        info4 == NetUserGetInfo(pc, name, 4)
        info == IF info4 # {} THEN info4 ELSE NetUserGetInfo(pc, name, 11)
        first == enumerateGroupsForUser(pc, name, 1)
        group == IF info4 # {} THEN [uid EXCEPT !.rid = The(info4).primaryGroup]
                 ELSE IF first = <<>> THEN NoId ELSE KGroupId_fromName(pc, first[1])
    IN IF uid = NoId \/ found = {} THEN sharedNull
       ELSE IF The(found).type \notin UserTypes \/ info = {} THEN sharedNull
       ELSE [uid |-> uid, gid |-> group, loginName |-> name, isAdmin |-> The(info).isAdmin,
             homeDir |-> IF The(info).home = "" THEN guessHomeDir(pc, name, uid) ELSE The(info).home]

(* The constructors of KUser. *)
KUserOfMode(pc, mode) ==
    IF mode \in {"UseEffectiveUID", "UseRealUserID"} THEN create(pc, pc.current) ELSE sharedNull
KUserOfName(pc, name) == create(pc, KUserId_fromName(pc, name))

KUser_isValid(user) == user.uid # NoId
KUser_equal(user, other) == KUser_isValid(user) /\ SameId(user.uid, other.uid)
shell(user) == IF KUser_isValid(user) THEN "cmd.exe" ELSE ""

(* The constructors of KUserGroup: the name is kept whether or not a group has  *)
(* it, the id is looked up unless it is given.                              *)
KUserGroupPrivate(pc, name, id) ==
    [name |-> name, gid |-> IF name # "" /\ id = NoId THEN KGroupId_fromName(pc, name) ELSE id]
nameFromGroupId(pc, gid) ==
    LET found == LookupAccountSid(pc, gid)
    IN IF gid = NoId \/ found = {} \/ The(found).type \notin GroupTypes THEN "" ELSE The(found).name

KUserGroupOfName(pc, name) == KUserGroupPrivate(pc, name, NoId)
KUserGroupOfId(pc, gid) == KUserGroupPrivate(pc, nameFromGroupId(pc, gid), gid)
KUserGroupOfMode(pc, mode) ==
    KUserGroupOfId(pc, IF mode \in {"UseEffectiveUID", "UseRealUserID"} THEN pc.currentGroup ELSE NoId)

KUserGroup_isValid(group) == group.gid # NoId /\ group.name # ""
KUserGroup_equal(group, other) ==
    KUserGroup_isValid(group) /\ SameId(group.gid, other.gid) /\ group.name = other.name

(* The lists, of objects and of names. *)
allUsers(pc, answers, maxCount) ==
    LET names == netApiEnumerate(answers, maxCount) IN [i \in DOMAIN names |-> KUserOfName(pc, names[i])]
allGroups(pc, answers, maxCount) ==
    LET names == netApiEnumerate(answers, maxCount) IN [i \in DOMAIN names |-> KUserGroupOfName(pc, names[i])]
groupNames(pc, user, maxCount) ==
    IF KUser_isValid(user) THEN enumerateGroupsForUser(pc, user.loginName, maxCount) ELSE <<>>
groups(pc, user, maxCount) ==
    LET names == groupNames(pc, user, maxCount) IN [i \in DOMAIN names |-> KUserGroupOfName(pc, names[i])]

(* userNames() asks for the groups of a user who is called like the group. *)
userNames(pc, group, maxCount) ==
    IF KUserGroup_isValid(group) THEN enumerateGroupsForUser(pc, group.name, maxCount) ELSE <<>>

-----------------------------------------------------------------------------
(* A user or a group that is valid is what it was made of, and the same one      *)
(* whether it is made of the name or of the id; an id of the other kind makes *)
(* none.  The user has the rights and the home directory of his own account, *)
(* all this as long as no two accounts share a name.  A home directory is    *)
(* missing only where no profiles are known, and the group of a user who is   *)
(* not told with his primary group is the first of his groups.             *)
AccountsFound(pc) ==
    LET Unique == \A i, j \in DOMAIN pc.accounts : pc.accounts[i].name = pc.accounts[j].name => i = j
    IN \A i \in DOMAIN pc.accounts :
         LET a == pc.accounts[i]
             user == create(pc, a.sid)
             group == KUserGroupOfId(pc, a.sid)
         IN /\ KUser_isValid(user) => a.type \in UserTypes /\ user.loginName = a.name /\ shell(user) # ""
            /\ KUserGroup_isValid(group) = (a.type \in GroupTypes)
            /\ ~(KUser_isValid(user) /\ KUserGroup_isValid(group))
            /\ KUser_isValid(user) => user.homeDir # "" \/ ~pc.profilesKnown
            /\ Unique =>
                 /\ KUserOfName(pc, a.name) = user
                 /\ KUserGroup_isValid(group) => KUserGroup_equal(KUserGroupOfName(pc, a.name), group)
                 /\ a.type \in GroupTypes => ~KUser_isValid(KUserOfName(pc, a.name))
                 /\ a.type \in UserTypes => ~KUserGroup_isValid(KUserGroupOfName(pc, a.name))
                 /\ KUser_isValid(user) =>
                      /\ user.isAdmin = a.isAdmin
                      /\ a.home # "" => user.homeDir = a.home
                      /\ 4 \notin a.levels /\ a.groups # <<>> =>
                            SameId(user.gid, groups(pc, user, 1)[1].gid)
                      /\ 4 \in a.levels => user.gid.domain = a.sid.domain

(* The user of the process is the one KUser tells, effective or real, and no     *)
(* other user is equal to him.                                             *)
CurrentUserFound(pc) ==
    LET me == KUserOfMode(pc, "UseEffectiveUID")
    IN /\ me = KUserOfMode(pc, "UseRealUserID")
       /\ SameId(me.uid, pc.current) \/ me = sharedNull
       /\ \A i \in DOMAIN pc.accounts :
             KUser_equal(me, create(pc, pc.accounts[i].sid)) =>
                 pc.accounts[i].sid = pc.current /\ KUser_isValid(me)
       /\ KUserGroup_isValid(KUserGroupOfMode(pc, "UseRealUserID")) =>
             KUserGroupOfMode(pc, "UseRealUserID").gid = pc.currentGroup

(* In however many parts the names are told, those that are listed are the      *)
(* first maxCount of them, and each is listed as the object of that name.   *)
ListsFound(pc, parts, maxCount) ==
    LET answers == [i \in DOMAIN parts |->
                       [entries |-> parts[i],
                        status |-> IF i < Len(parts) THEN "ERROR_MORE_DATA" ELSE "NERR_Success"]]
        names == FlattenSeq(parts)
        users == allUsers(pc, answers, maxCount)
        all == allGroups(pc, answers, maxCount)
    IN /\ Len(users) = Min({maxCount, Len(names)}) /\ Len(all) = Len(users)
       /\ \A i \in DOMAIN users :
             /\ KUser_isValid(users[i]) => users[i].loginName = names[i]
             /\ all[i].name = names[i]
       /\ \A i \in DOMAIN pc.accounts :
             LET user == create(pc, pc.accounts[i].sid)
             IN /\ Len(groupNames(pc, user, maxCount)) <= maxCount
                /\ \A n \in DOMAIN groups(pc, user, maxCount) :
                      groups(pc, user, maxCount)[n].name = groupNames(pc, user, maxCount)[n]
=============================================================================
