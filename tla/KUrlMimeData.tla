----------------------------- MODULE KUrlMimeData -----------------------------
(***************************************************************************)
(* Urls that are dragged or copied to another application by way of the    *)
(* documents portal (kurlmimedata.cpp).  The one that offers them opens    *)
(* the files and adds them to a transfer, batch by batch, and the portal   *)
(* gives the other one paths for them, once; the portal and the service    *)
(* that mounts remote urls are external.                                   *)
(*                                                                         *)
(* A url is a record of its name and whether it is a local one and a link. *)
(***************************************************************************)
EXTENDS Naturals, SequencesExt

CONSTANTS
    Mimes,          \* the mime data objects that are made
    UrlLists,       \* the urls they can hold
    Readers,        \* the applications; Source is the one that offers
    Source,
    BatchSize,      \* maximumBatchSize
    MaxTransfers    \* bound on the transfers of the portal

ASSUME PortalAssumption ==
    /\ BatchSize \in Nat \ {0} /\ MaxTransfers \in Nat /\ Source \in Readers
    /\ \A urls \in UrlLists : urls \in Seq(ToSet(urls))

VARIABLES
    mimes,      \* the state of every object: its urls and its transfer
    transfers,  \* the transfers of the portal, by number; whose they are, and
                \* whether the interface object lives that is to stop them
    cache,      \* of every application, the transfer and urls it has read last
    got         \* what every application was given last, and from which object

mimeVars == <<mimes, transfers, cache, got>>

NoMime == [state |-> "none", urls |-> <<>>, portal |-> 0]
Nothing == [mime |-> "none", uris |-> <<>>]

LocalFile(url) == [file |-> url.name]
Mounted(url) == [fuse |-> url.name]

-----------------------------------------------------------------------------
(* The requests to mount: the places of the remote urls, from the first on. *)
Requests(urls) ==
    FoldLeftDomain(LAMBDA rs, i : IF urls[i].local THEN rs ELSE Append(rs, i), <<>>, urls)

(* Mutant: the answers are taken for the urls from the first one on. *)
fuseRedirect_FirstUrls(urls) ==
    FoldLeft(LAMBDA paths, n : [paths EXCEPT ![n] = Mounted(urls[Requests(urls)[n]])],
             [i \in DOMAIN urls |-> LocalFile(urls[i])], [n \in DOMAIN Requests(urls) |-> n])

(* fuseRedirect(): a request for every remote url, and the answer goes where   *)
(* that url was.                                                           *)
fuseRedirect(urls) ==
    FoldLeft(LAMBDA paths, i : [paths EXCEPT ![i] = Mounted(urls[i])],
             [i \in DOMAIN urls |-> LocalFile(urls[i])], Requests(urls))

(* A file is opened: the files that are pending are added when they make a   *)
(* whole batch.                                                            *)
Batched(t, path) ==
    LET pending == Append(t.pending, path)
    IN IF Len(pending) >= BatchSize
       THEN [files |-> t.files \o pending, pending |-> <<>>]
       ELSE [t EXCEPT !.pending = pending]

(* What is left is added at the end; when one of the files does not open,     *)
(* those before it may have been added.                                    *)
Added(paths, opened) ==
    LET s == FoldLeft(Batched, [files |-> <<>>, pending |-> <<>>], SubSeq(paths, 1, opened))
    IN IF opened = Len(paths) THEN s.files \o s.pending ELSE s.files

(* The urls are refused when one of them is remote and cannot be mounted, or a *)
(* symbolic link.                                                          *)
Exportable(urls, fuse) == \A i \in DOMAIN urls : IF urls[i].local THEN ~urls[i].link ELSE fuse

(* Mutant: the transfer stays when the last batch is not added. *)
Kept_LastBatch(mounts, opened, all) == mounts /\ opened + BatchSize > all

(* Does the transfer stay: if all was mounted, opened and added. *)
Kept(mounts, opened, all) == mounts /\ opened = all

(* exportUrlsToPortal(): the transfer is stopped when a step fails, and        *)
(* otherwise when the mime data is destroyed.  The portal is there; mounts     *)
(* tells whether all is mounted, and opened how many files are opened and     *)
(* added without a failure.                                                *)
exportUrlsToPortal(m, fuse, mounts, opened) ==
    LET urls == mimes[m].urls
        kept == Kept(mounts, opened, Len(urls))
        transfer == [state |-> IF kept THEN "open" ELSE "stopped", owner |-> m,
                     iface |-> kept, files |-> Added(fuseRedirect(urls), opened)]
    IN /\ mimes[m].state = "alive" /\ Len(transfers) < MaxTransfers
       /\ Exportable(urls, fuse) /\ opened <= Len(urls)
       /\ transfers' = Append(transfers, transfer)
       /\ mimes' = IF kept THEN [mimes EXCEPT ![m].portal = Len(transfers) + 1] ELSE mimes
       /\ UNCHANGED <<cache, got>>

(* setUrls() on a new object. *)
NewMimeData(m, urls) ==
    /\ mimes[m].state = "none"
    /\ mimes' = [mimes EXCEPT ![m] = [state |-> "alive", urls |-> urls, portal |-> 0]]
    /\ UNCHANGED <<transfers, cache, got>>

(* Mutant: the transfers are left to the portal. *)
MimeDestroyed_StopsNone(m) ==
    /\ mimes[m].state = "alive"
    /\ mimes' = [mimes EXCEPT ![m].state = "destroyed"]
    /\ UNCHANGED <<transfers, cache, got>>

(* The interface objects that live stop the transfers of an object when it ends. *)
MimeDestroyed(m) ==
    /\ mimes[m].state = "alive"
    /\ mimes' = [mimes EXCEPT ![m].state = "destroyed"]
    /\ transfers' = [id \in DOMAIN transfers |->
                        IF transfers[id].owner = m /\ transfers[id].iface
                        THEN [transfers[id] EXCEPT !.iface = FALSE,
                                !.state = IF @ = "open" THEN "stopped" ELSE @]
                        ELSE transfers[id]]
    /\ UNCHANGED <<cache, got>>

(* The portal ends a transfer. *)
PortalStops(id) ==
    /\ transfers[id].state = "open"
    /\ transfers' = [transfers EXCEPT ![id].state = "stopped"]
    /\ UNCHANGED <<mimes, cache, got>>

(* The signal that a transfer has ended comes to the interface object of every *)
(* transfer, and every one whose object is alive deletes itself.            *)
TransferClosed(id) ==
    /\ transfers[id].state = "stopped"
    /\ transfers' = [i \in DOMAIN transfers |->
                        [transfers[i] EXCEPT !.state = IF i = id THEN "closed" ELSE @,
                           !.iface = @ /\ mimes[transfers[i].owner].state # "alive"]]
    /\ UNCHANGED <<mimes, cache, got>>

(* The urls of an object are one's own if it says so. *)
hasSameSourceId(r) == r = Source

(* Mutant: what was read last is given for every transfer. *)
Cached_Any(r, id) == cache[r].id # 0

Cached(r, id) == cache[r].id = id

(* extractPortalUriList(): a transfer gives its files once, and they are kept  *)
(* until another one is read.  An answer may be lost.                       *)
extractPortalUriList(r, id, answered) ==
    IF Cached(r, id) THEN cache[r].uris
    ELSE IF answered /\ transfers[id].state = "open" THEN transfers[id].files ELSE <<>>

(* urlsFromMimeData(): from the portal, unless the urls are one's own; when    *)
(* that gives none, from the object.                                       *)
urlsFromMimeData(r, m, answered) ==
    LET id == mimes[m].portal
        own == hasSameSourceId(r) \/ id = 0
        uris == IF own THEN <<>> ELSE extractPortalUriList(r, id, answered)
    IN /\ mimes[m].state = "alive"
       /\ got' = [got EXCEPT ![r] = [mime |-> m, uris |-> IF uris = <<>> THEN mimes[m].urls ELSE uris]]
       /\ cache' = IF ~own /\ ~Cached(r, id) /\ answered /\ transfers[id].state = "open"
                   THEN [cache EXCEPT ![r] = [id |-> id, uris |-> uris]] ELSE cache
       /\ UNCHANGED <<mimes, transfers>>

(* The urls of an object as a text, each with the end of its line, a sequence of *)
(* characters.                                                             *)
uriListData(urls) == FlattenSeq([i \in DOMAIN urls |-> urls[i] \o <<"CR", "LF">>])

(* The lines of a text, without the blanks at their ends. *)
extractKdeUriList(data) ==
    LET ends == <<0>> \o SetToSortSeq({i \in DOMAIN data : data[i] = "LF"}, <) \o <<Len(data) + 1>>
        trimmed == [n \in 1 .. Len(ends) - 1 |->
                      SelectSeq(SubSeq(data, ends[n] + 1, ends[n + 1] - 1), LAMBDA c : c # "CR")]
    IN SelectSeq(trimmed, LAMBDA url : url # <<>>)

(* setMetaData(): a map of texts, each a sequence of characters, is one text in *)
(* which every key and value ends with the separator.                       *)
Separator == <<"$", "@", "@", "$">>

setMetaData(pairs) ==
    FlattenSeq([i \in DOMAIN pairs |-> pairs[i][1] \o Separator \o pairs[i][2] \o Separator])

(* Where a text has the separator. *)
SeparatorsIn(text) == {i \in 1 .. Len(text) - 3 : SubSeq(text, i, i + 3) = Separator}

(* Mutant: the last separator is not taken away first. *)
metaData_Unchopped(text) ==
    LET Split(r, i) == IF i <= r.done THEN r
                       ELSE [done |-> i + 3, list |-> Append(r.list, SubSeq(text, r.done + 1, i - 1))]
        r == FoldLeft(Split, [done |-> 0, list |-> <<>>], SetToSortSeq(SeparatorsIn(text), <))
        list == Append(r.list, SubSeq(text, r.done + 1, Len(text)))
    IN IF text = <<>> THEN <<>>
       ELSE [n \in 1 .. (Len(list) + 1) \div 2 |-> <<list[2 * n - 1], IF 2 * n <= Len(list) THEN list[2 * n] ELSE <<>>>>]

(* What urlsFromMimeData() makes of that text: the last separator is taken away *)
(* and the rest is split at the others, found from the left.                *)
metaData(text) ==
    LET chopped == SubSeq(text, 1, Len(text) - 4)
        Split(r, i) == IF i <= r.done THEN r
                       ELSE [done |-> i + 3, list |-> Append(r.list, SubSeq(chopped, r.done + 1, i - 1))]
        r == FoldLeft(Split, [done |-> 0, list |-> <<>>], SetToSortSeq(SeparatorsIn(chopped), <))
        list == Append(r.list, SubSeq(chopped, r.done + 1, Len(chopped)))
    IN IF text = <<>> THEN <<>>
       ELSE [n \in 1 .. Len(list) \div 2 |-> <<list[2 * n - 1], list[2 * n]>>]

-----------------------------------------------------------------------------
MimeInit ==
    /\ mimes = [m \in Mimes |-> NoMime]
    /\ transfers = <<>>
    /\ cache = [r \in Readers |-> [id |-> 0, uris |-> <<>>]]
    /\ got = [r \in Readers |-> Nothing]

MimeNext ==
    \/ \E m \in Mimes :
          \/ MimeDestroyed(m)
          \/ \E urls \in UrlLists : NewMimeData(m, urls)
          \/ \E fuse, mounts \in BOOLEAN, opened \in 0 .. Len(mimes[m].urls) :
                exportUrlsToPortal(m, fuse, mounts, opened)
          \/ \E r \in Readers, answered \in BOOLEAN : urlsFromMimeData(r, m, answered)
    \/ \E id \in DOMAIN transfers : PortalStops(id) \/ TransferClosed(id)

MimeSpec == MimeInit /\ [][MimeNext]_mimeVars

(* The least there is to offer. *)
OneLocalFile == {<<[name |-> 1, local |-> TRUE, link |-> FALSE]>>}

-----------------------------------------------------------------------------
(* A reader gets back the metadata that was set, empty texts included, unless  *)
(* one of the texts and the start of what follows it make up a separator.    *)
MetaDataReturns(pairs) ==
    (\A i \in DOMAIN pairs, of \in 1 .. 2 : SeparatorsIn(pairs[i][of] \o SubSeq(Separator, 1, 3)) = {}) =>
        metaData(setMetaData(pairs)) = pairs

(* The urls that are read back from an object are those that were put there; one  *)
(* that is empty is left out.                                              *)
UrlsReturn(urls) ==
    extractKdeUriList(uriListData(urls)) = SelectSeq(urls, LAMBDA url : url # <<>>)

IsOpen(id) == transfers[id].state = "open"
IsAlive(id) == mimes[transfers[id].owner].state = "alive"

(* "we'll stop once our mimedata disappears (i.e. the drag operation has     *)
(* finished)" (kurlmimedata.cpp:323): no transfer is open whose object is    *)
(* gone.                                                                   *)
StopsWithMimeData == \A id \in DOMAIN transfers : IsOpen(id) => IsAlive(id)

(* What a list is for the other application: files, and mounted ones. *)
Paths(urls) ==
    [i \in DOMAIN urls |-> IF urls[i].local THEN LocalFile(urls[i]) ELSE Mounted(urls[i])]

(* What fails half way stops the transfer, and so does the end of the drag, as *)
(* long as the signal of no other transfer has come: an open transfer is     *)
(* complete.  And whoever reads the urls gets all of the object he reads, in *)
(* order, as files or as urls, never a part of them or those of another      *)
(* transfer that he has read before.                                       *)
PortalSound ==
    /\ \A id \in DOMAIN transfers :
          IsOpen(id) =>
            /\ transfers[id].files = Paths(mimes[transfers[id].owner].urls)
            /\ IsAlive(id) \/ \E i \in DOMAIN transfers : transfers[i].state = "closed"
    /\ \A r \in Readers : got[r].mime # "none" =>
          got[r].uris \in {mimes[got[r].mime].urls, Paths(mimes[got[r].mime].urls)}
=============================================================================
