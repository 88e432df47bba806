------------------------------ MODULE KAppStream ------------------------------
(***************************************************************************)
(* Reading licences and translated texts for a KAboutData                  *)
(* (kaboutdata.cpp).  A language is a tuple of subtags, and <<>> is no     *)
(* language; a licence keyword is a tuple of the words it is made of.      *)
(*                                                                         *)
(* A part of a description is an element: a record of its name, language   *)
(* and content, a sequence of parts.  A piece of text is a part that has   *)
(* the name "text" and no language.                                        *)
(***************************************************************************)
EXTENDS Integers, SequencesExt

(* The part of a tag before the first dash. *)
Generic(tag) == <<Head(tag)>>

(* Mutant: the generic language is tried at once. *)
GenericNow_Always(langs, i) == Len(langs[i]) > 1

(* Is it time to try the generic language: not before the next of the        *)
(* languages when that is a variant of the same one.                       *)
GenericNow(langs, i) ==
    /\ Len(langs[i]) > 1
    /\ ~ (i < Len(langs) /\ Head(langs[i + 1]) = Head(langs[i]))

(* resolveLanguage(): the languages of the translation found, or <<>> for the *)
(* text without a language.                                                *)
resolveLanguage(value, langs) ==
    LET Hit(i) == IF langs[i] \in value THEN langs[i]
                  ELSE IF GenericNow(langs, i) /\ Generic(langs[i]) \in value
                  THEN Generic(langs[i]) ELSE <<>>
        hits == {i \in DOMAIN langs : Hit(i) # <<>>}
    IN IF hits = {} THEN <<>> ELSE Hit(CHOOSE i \in hits : \A j \in hits : i <= j)

(* A translation in a language the user prefers less is never taken while    *)
(* there is one for a language he prefers more, and the untranslated text    *)
(* only when there is none for any of them (kaboutdata.cpp:1385).          *)
Preferred(value, langs) ==
    LET For(i) == {langs[i], Generic(langs[i])} \cap value
        served == {i \in DOMAIN langs : For(i) # {}}
        found == resolveLanguage(value, langs)
    IN IF served = {} THEN found = <<>>
       ELSE LET first == CHOOSE i \in served : \A j \in served : i <= j
            IN found # <<>> /\ Head(found) = Head(langs[first]) /\ found \in value

-----------------------------------------------------------------------------
(* What readAppStreamDescription() has of a description: the translated and *)
(* the untranslated elements, the translations of an element that are kept  *)
(* until the last of them was read, and whether any was translated.        *)
NoDesc == [desc |-> <<>>, raw |-> <<>>, name |-> "", buffer |-> {}, isTranslated |-> FALSE]

TextIn(buffer, lang) == (CHOOSE b \in buffer : b.lang = lang).content

Resolved(buffer, langs) ==
    LET lang == resolveLanguage({b.lang : b \in buffer}, langs)
    IN IF \E b \in buffer : b.lang = lang THEN TextIn(buffer, lang) ELSE <<>>

Element(name, content) == <<name, content>>

(* Mutant: the translations of the last element are kept. *)
Flush_Keeps(d, langs) ==
    IF d.buffer = {} THEN d
    ELSE [d EXCEPT !.desc = Append(@, Element(d.name, Resolved(d.buffer, langs)))]

Flush(d, langs) ==
    IF d.buffer = {} THEN d
    ELSE [d EXCEPT !.desc = Append(@, Element(d.name, Resolved(d.buffer, langs))),
                   !.buffer = {}]

RECURSIVE readAppStreamDescription(_, _)

(* An element: what was kept of another one is written out, and its own      *)
(* translations are kept, unless it has translated elements of its own.    *)
StartElement(before, e, langs) ==
    LET ready == IF e.lang = <<>> \/ before.name # e.name THEN Flush(before, langs) ELSE before
        d == [ready EXCEPT !.name = e.name,
                           !.isTranslated = @ \/ e.lang # <<>>]
        sub == readAppStreamDescription(e.content, langs)
        kept == {b \in d.buffer : b.lang # e.lang} \cup {[lang |-> e.lang, content |-> sub.desc]}
    IN IF sub.isTranslated
       THEN [d EXCEPT !.desc = Append(@, Element(e.name, sub.desc)),
                      !.raw = Append(@, Element(e.name, sub.raw)),
                      !.isTranslated = TRUE]
       ELSE [d EXCEPT !.buffer = kept,
                      !.raw = IF e.lang = <<>>
                              THEN Append(@, Element(e.name, Resolved(kept, <<>>))) ELSE @]

(* readAppStreamDescription(): part by part; a text ends the translations too. *)
readAppStreamDescription(content, langs) ==
    Flush(FoldLeft(LAMBDA d, part :
                       IF part.name # "text" THEN StartElement(d, part, langs)
                       ELSE LET done == Flush(d, langs)
                                again == IF d.buffer = {} THEN <<>>
                                         ELSE <<Element(d.name, Resolved(d.buffer, <<>>))>>
                            IN [done EXCEPT !.desc = @ \o part.content,
                                            !.raw = @ \o again \o part.content],
                   NoDesc, content), langs)

-----------------------------------------------------------------------------
(* What a description says, element by element: of those that follow one     *)
(* without a language, and are its translations, the one preferred.        *)
RECURSIVE Shown(_, _)
Shown(content, langs) ==
    LET starts == {i \in DOMAIN content : content[i].lang = <<>>}
        Group(i) == {j \in i .. Len(content) : \A k \in starts : ~ (i < k /\ k <= j)}
        Chosen(i) == CHOOSE j \in Group(i) :
            content[j].lang = resolveLanguage({content[k].lang : k \in Group(i)}, langs)
        order == SetToSortSeq(starts, <)
    IN FlattenSeq([n \in DOMAIN order |->
            IF content[order[n]].name = "text" THEN content[order[n]].content
            ELSE <<Element(content[order[n]].name, Shown(content[Chosen(order[n])].content, langs))>>])

(* The release notes hold every element once, in the language preferred, and   *)
(* the untranslated notes, by which a change of the notes is noticed, do not  *)
(* depend on the languages (kaboutdata.cpp:1434).                          *)
NotesTranslated(content, langs) ==
    LET d == readAppStreamDescription(content, langs)
    IN d.desc = Shown(content, langs) /\ d.raw = Shown(content, <<>>)

-----------------------------------------------------------------------------
(* Licences.  A name of a licence is a sequence of the parts it is written    *)
(* from: letters in upper or lower case, numbers and punctuation.          *)
KnownKeys == {"GPL_V2", "LGPL_V2", "GPL_V3", "LGPL_V3", "LGPL_V2_1",
              "BSD_2_Clause", "BSD_3_Clause", "Artistic", "MIT", "Apache_V2"}
LaterKeys == {"GPL_V2", "LGPL_V2", "GPL_V3", "LGPL_V3", "LGPL_V2_1"}

License(key, orLater) == [key |-> key, orLater |-> orLater, text |-> "", path |-> ""]

spdxID(key) ==
    CASE key = "GPL_V2" -> <<"GPL", "-", "2", ".", "0">>
      [] key = "LGPL_V2" -> <<"LGPL", "-", "2", ".", "0">>
      [] key = "GPL_V3" -> <<"GPL", "-", "3", ".", "0">>
      [] key = "LGPL_V3" -> <<"LGPL", "-", "3", ".", "0">>
      [] key = "LGPL_V2_1" -> <<"LGPL", "-", "2", ".", "1">>
      [] key = "BSD_2_Clause" -> <<"BSD", "-", "2", "-", "Clause">>
      [] key = "BSD_3_Clause" -> <<"BSD", "-", "3", "-", "Clause">>
      [] key = "Artistic" -> <<"Artistic", "-", "1", ".", "0">>
      [] key = "MIT" -> <<"MIT">>
      [] key = "FTL" -> <<"FTL">>
      [] key = "ODbL_V1" -> <<"ODbL", "-", "1", ".", "0">>
      [] key = "BSL_V1" -> <<"BSL", "-", "1", ".", "0">>
      [] key = "CC0_V1" -> <<"CC0", "-", "1", ".", "0">>
      [] key = "Apache_V2" -> <<"Apache", "-", "2", ".", "0">>
      [] key = "MPL_V2" -> <<"MPL", "-", "2", ".", "0">>
      [] key \in {"Custom", "File", "Unknown"} -> <<>>

spdx(license) ==
    LET id == spdxID(license.key)
    IN IF license.orLater /\ id # <<>> THEN Append(id, "+") ELSE id

toLower(part) ==
    CASE part = "GPL" -> "gpl" [] part = "LGPL" -> "lgpl" [] part = "BSD" -> "bsd"
      [] part = "Clause" -> "clause" [] part = "Artistic" -> "artistic" [] part = "MIT" -> "mit"
      [] part = "Apache" -> "apache" [] OTHER -> part

(* Mutant: the plus is not one of the characters of a keyword. *)
Normalized_DropsPlus(keyword) ==
    SelectSeq([i \in DOMAIN keyword |-> toLower(keyword[i])],
              LAMBDA c : c \notin {" ", ".", "-", "+", "-or-later"})

Normalized(keyword) ==
    SelectSeq([i \in DOMAIN keyword |-> IF keyword[i] = "-or-later" THEN "+" ELSE toLower(keyword[i])],
              LAMBDA c : c \notin {" ", ".", "-"})

Version(family, digits) == {<<family>> \o v : v \in {<<"v">> \o digits, digits}}
Later(names) == names \cup {Append(n, "+") : n \in names}

(* The keywords of a licence; no other keyword has a plus. *)
licenseDict ==
    [key \in KnownKeys |->
        CASE key = "GPL_V2" -> {<<"gpl">>} \cup Later({<<"gpl", "v", "2">>, <<"gpl", "2", "0">>})
          [] key = "LGPL_V2" -> {<<"lgpl">>} \cup Later({<<"lgpl", "v", "2">>, <<"lgpl", "2", "0">>})
          [] key = "GPL_V3" -> Later({<<"gpl", "v", "3">>, <<"gpl", "3", "0">>})
          [] key = "LGPL_V3" -> Later({<<"lgpl", "v", "3">>, <<"lgpl", "3", "0">>})
          [] key = "LGPL_V2_1" -> Later(Version("lgpl", <<"2", "1">>))
          [] key = "BSD_2_Clause" -> {<<"bsd">>, <<"bsd", "2", "clause">>}
          [] key = "BSD_3_Clause" -> {<<"bsd", "3", "clause">>}
          [] key = "Artistic" -> {<<"artistic">>, <<"artistic", "1", "0">>}
          [] key = "MIT" -> {<<"mit">>}
          [] key = "Apache_V2" -> {<<"apache">>}]

byKeyword(keyword) ==
    LET name == Normalized(keyword)
        keys == {key \in KnownKeys : name \in licenseDict[key]}
    IN License(IF keys = {} THEN "Custom" ELSE CHOOSE key \in keys : TRUE,
               name # <<>> /\ Last(name) = "+")

(* The SPDX name of a licence of the dictionary, in the form spdx() gives it    *)
(* and in that with -or-later, is read back as the same licence.  No licence  *)
(* is taken for another: the name of one that the dictionary does not have by *)
(* that name is that of a custom licence.                                    *)
LicencesRoundTrip(key, orLater) ==
    LET license == License(key, orLater)
        read == byKeyword(spdx(license))
    IN /\ read.key \in {key, "Custom"}
       /\ key \in KnownKeys \ {"Apache_V2"} /\ (orLater => key \in LaterKeys) => read = license
       /\ orLater /\ spdxID(key) # <<>> => byKeyword(Append(spdxID(key), "-or-later")) = read
       /\ \A k, other \in KnownKeys : k # other => licenseDict[k] \cap licenseDict[other] = {}

-----------------------------------------------------------------------------
(* What a KAboutData holds and tells (kaboutdata.cpp): the names derived   *)
(* from its home page, its licences and their texts, its translators, and  *)
(* what an AppStream file says of the application.                         *)
(*                                                                         *)
(* A component name is the tuple of its parts between slashes, a host that *)
(* of its parts between dots (and <<>> for a home page without one).  The  *)
(* text of a licence is the tuple of what it says, in order.               *)

CONSTANTS
    YourNames, YourEmails   \* the texts that stand for no translators yet

Person(name, task, email, web, avatar) ==
    [name |-> name, task |-> task, emailAddress |-> email, webAddress |-> web, avatarUrl |-> avatar]

(* One who translates has a name and an address only. *)
Translator(name, email) == Person(name, "", email, "", "")

(* The file of a licence is named after it; the others are named only. *)
Known == {"GPL_V2", "LGPL_V2", "BSD_2_Clause", "Artistic", "GPL_V3", "LGPL_V3", "LGPL_V2_1", "MIT"}
Linked == {"ODbL_V1", "Apache_V2", "FTL", "BSL_V1", "BSD_3_Clause", "CC0_V1", "MPL_V2"}
Keys == Known \cup Linked \cup {"Custom", "File", "Unknown"}

FromPath(path) == [License("File", FALSE) EXCEPT !.path = path]
FromText(text) == [License("Custom", FALSE) EXCEPT !.text = text]

(* A component is under a known licence or that of a file; no KAboutData, and  *)
(* so no copyright statement, belongs to it.                               *)
Component(name, description, version, web, license) ==
    [name |-> name, description |-> description, version |-> version, webAddress |-> web, license |-> license]

Release(version, date, description, untranslated, url) ==
    [version |-> version, date |-> date, description |-> description,
     untranslatedDescription |-> untranslated, url |-> url]

-----------------------------------------------------------------------------
(* The members of a KAboutDataPrivate: what each setter writes, and to which a *)
(* call appends.                                                             *)
Written ==
    [setComponentName |-> {"_componentName"}, setVersion |-> {"_version"},
     setDisplayName |-> {"_displayName", "_internalProgramName"},
     setShortDescription |-> {"_shortDescription"}, setOtherText |-> {"_otherText"},
     setCopyrightStatement |-> {"_copyrightStatement"}, setBugAddress |-> {"_bugAddress"},
     setOrganizationDomain |-> {"organizationDomain"}, setProductName |-> {"productName"}]

Appended ==
    [addAuthor |-> "_authorList", addCredit |-> "_creditList", addComponent |-> "_componentList"]

CustomTexts == {"customAuthorPlainText", "customAuthorRichText"}

NewMembers ==
    [m \in UNION Range(Written) \cup CustomTexts \cup {"programLogo", "desktopFileName"} |-> ""]
      @@ [m \in Range(Appended) \cup {"_translatorList", "_licenseList", "_releaseList", "_urls"} |-> <<>>]
      @@ [customAuthorTextEnabled |-> FALSE]

-----------------------------------------------------------------------------
(* The constructors.  What they are given has a name and a host of its own. *)
AfterSlash(name) == IF Len(name) > 1 THEN Tail(name) ELSE name

(* The first part of a host is left out, unless two are left or fewer. *)
OrganizationDomain(host) ==
    LET hostComponents == IF host = <<>> THEN <<"kde", "org">> ELSE host
    IN IF Len(hostComponents) > 2 THEN Tail(hostComponents) ELSE hostComponents

KAboutData_Full(given) ==
    [NewMembers EXCEPT
      !._componentName = AfterSlash(given.componentName), !._displayName = given.displayName,
      !._internalProgramName = given.displayName, !._version = given.version,
      !._shortDescription = given.shortDescription, !._licenseList = <<License(given.license, FALSE)>>,
      !._copyrightStatement = given.copyright, !._otherText = given.text,
      !._urls = [homepage |-> given.homepage], !._bugAddress = given.bugAddress,
      !.organizationDomain = OrganizationDomain(given.homepage),
      !.desktopFileName = Reverse(OrganizationDomain(given.homepage)) \o given.componentName]

KAboutData_Named(name, displayName, version) ==
    [NewMembers EXCEPT
      !._componentName = AfterSlash(name), !._displayName = displayName,
      !._internalProgramName = displayName, !._version = version,
      !._licenseList = <<License("Unknown", FALSE)>>, !._bugAddress = "submit@bugs.kde.org",
      !.organizationDomain = <<"kde", "org">>, !.desktopFileName = <<"org", "kde">> \o AfterSlash(name)]

productName(data) == IF data.productName # "" THEN data.productName ELSE data._componentName

(* An application without a home page has the same names whichever way its    *)
(* data is made, and a name without a path is in that of the desktop file,   *)
(* after its domain from the end to the beginning.                          *)
NamesDerived(given) ==
    LET full == KAboutData_Full(given)
        named == KAboutData_Named(given.componentName, given.displayName, given.version)
        host == given.homepage
    IN /\ host = <<>> /\ Len(given.componentName) = 1 => [full EXCEPT !._urls = <<>>] = named
       /\ Len(given.componentName) = 1 =>
            full.desktopFileName = Append(Reverse(full.organizationDomain), productName(full)[1])
       /\ Len(full.organizationDomain) \in 1 .. Len(host) \cup {2}
       /\ IsSuffix(full.organizationDomain, host) \/ host = <<>>

-----------------------------------------------------------------------------
(* KAboutLicense::name() *)
name(license, format) ==
    IF format \notin {"ShortName", "FullName"} THEN ""
    ELSE CASE license.key \in {"Custom", "File"} -> "Custom"
           [] license.key = "Unknown" -> "Not specified"
           [] OTHER -> license.key

(* Those that tell who has the copyright. *)
Attributed == {"BSD_2_Clause", "BSD_3_Clause", "MIT", "Artistic"}

(* KAboutLicense::text(), where files are those that can be read. *)
text(license, copyright, files) ==
    LET statement == IF copyright # "" /\ license.key \in Attributed THEN <<copyright>> ELSE <<>>
        path == CASE license.key = "File" -> license.path
                  [] license.key \in Known -> license.key
                  [] OTHER -> ""
        terms == CASE license.key \in Linked -> <<"terms", name(license, "ShortName"), "link", license.key>>
                   [] license.key \in Known -> <<"terms", name(license, "ShortName")>>
                   [] license.key = "Custom" /\ license.text # "" -> <<license.text>>
                   [] license.key = "File" -> <<>>
                   [] OTHER -> <<"No licensing terms">>
    IN statement \o terms \o (IF path # "" /\ path \in files THEN <<"contents", path>> ELSE <<>>)

(* The text of a licence says something unless it is a file that cannot be     *)
(* read, begins with the copyright statement of its data exactly if the        *)
(* licence asks for one, names no other licence, and is that of the file or *)
(* the text given where one is.                                            *)
LicenceTold(license, copyright, files) ==
    LET told == text(license, copyright, files)
        others == Keys \ {license.key, "Custom"}
    IN /\ told = <<>> => license.key = "File" /\ license.path \notin files
       /\ copyright # "" => (copyright \in ToSet(told)) = (license.key \in Attributed)
       /\ \A i \in DOMAIN told : told[i] = copyright => i = 1
       /\ ToSet(told) \cap others = {}
       /\ license.text # "" => told = <<license.text>>
       /\ license.path \in files \ {""} => told = <<"contents", license.path>>

-----------------------------------------------------------------------------
(* setLicense...() and addLicense...(): an unknown licence is overwritten. *)
setLicense(data, license) == [data EXCEPT !._licenseList[1] = license]
addLicense(data, license) ==
    IF Len(data._licenseList) = 1 /\ data._licenseList[1].key = "Unknown" THEN setLicense(data, license)
    ELSE [data EXCEPT !._licenseList = Append(@, license)]

setLicenseText(data, licenseText) == setLicense(data, FromText(licenseText))
addLicenseText(data, licenseText) == addLicense(data, FromText(licenseText))
setLicenseTextFile(data, path) == setLicense(data, FromPath(path))
addLicenseTextFile(data, path) == addLicense(data, FromPath(path))

Call(data, call) ==
    CASE call.op = "set" -> setLicense(data, License(call.arg, call.orLater))
      [] call.op = "add" -> addLicense(data, License(call.arg, call.orLater))
      [] call.op = "setText" -> setLicenseText(data, call.arg)
      [] call.op = "addText" -> addLicenseText(data, call.arg)
      [] call.op = "setFile" -> setLicenseTextFile(data, call.arg)
      [] call.op = "addFile" -> addLicenseTextFile(data, call.arg)

(* A licence that was added stays until one is set, those that were added     *)
(* after that keep their order, and no application is told to be under an    *)
(* unknown licence besides others unless that was asked for.               *)
LicencesKept(data, calls) ==
    LET after == FoldLeft(Call, data, calls)
        Added(i) == calls[i].op \in {"add", "addText", "addFile"}
        Alone(i) == Call([data EXCEPT !._licenseList = <<License("Unknown", FALSE)>>], calls[i])._licenseList[1]
        since == {i \in DOMAIN calls : \A j \in i .. Len(calls) : Added(j) /\ calls[j].arg # "Unknown"}
        from == Len(calls) - Cardinality(since)
        added == [i \in 1 .. Cardinality(since) |-> Alone(from + i)]
    IN /\ IsSuffix(added, after._licenseList)
       /\ \A i \in DOMAIN after._licenseList : after._licenseList[i].key = "Unknown" =>
             Len(after._licenseList) = 1 \/ \E j \in DOMAIN calls : calls[j].arg = "Unknown"

-----------------------------------------------------------------------------
(* A text split at a mark, and without the blanks around it. *)
PartsBetween(text_, mark) ==
    FoldLeft(LAMBDA fields, c : IF c = mark THEN Append(fields, <<>>)
                                ELSE [fields EXCEPT ![Len(fields)] = Append(@, c)],
             <<<<>>>>, text_)
Trimmed(text_) ==
    LET marks == {i \in DOMAIN text_ : text_[i] # " "}
    IN IF marks = {} THEN <<>>
       ELSE SubSeq(text_, CHOOSE i \in marks : \A j \in marks : i <= j, CHOOSE i \in marks : \A j \in marks : i >= j)

(* A name has the e-mail address at the same place of the other list, if any. *)
parseTranslators(names, emails) ==
    LET nameList == IF names \in {<<>>, YourNames} THEN <<>> ELSE PartsBetween(names, ",")
        emailList == IF emails \in {<<>>, YourEmails} THEN <<>> ELSE PartsBetween(emails, ",")
    IN [i \in DOMAIN nameList |->
            Translator(Trimmed(nameList[i]), IF i \in DOMAIN emailList THEN Trimmed(emailList[i]) ELSE <<>>)]

(* One who translates an application after others is added at the end of both  *)
(* lists, with an address or without; the others keep theirs.                *)
TranslatorsPaired(names, emails, one, address) ==
    LET before == parseTranslators(names, emails)
        after == parseTranslators(names \o <<",">> \o one, emails \o <<",">> \o address)
    IN names \notin {<<>>, YourNames} /\ emails # YourEmails
         /\ Len(PartsBetween(names, ",")) = Len(PartsBetween(emails, ",")) =>
         after = Append(before, Translator(Trimmed(one), Trimmed(address)))

-----------------------------------------------------------------------------
(* What the setters write and the getters tell.  Of a name or an address that  *)
(* crash handlers ask for, they are told when there is none.                 *)
Assign(members, names, value) ==
    [m \in DOMAIN members |-> IF m \in names THEN value ELSE members[m]]

setCustomAuthorText(members, given, enabled) ==
    [Assign(members, CustomTexts, given) EXCEPT !.customAuthorTextEnabled = enabled]

addRelease(members, release) == [members EXCEPT !._releaseList = Append(@, release)]

Change(members, call) ==
    CASE call.op \in DOMAIN Written -> Assign(members, Written[call.op], call.arg)
      [] call.op \in DOMAIN Appended -> [members EXCEPT ![Appended[call.op]] = Append(@, call.arg)]
      [] call.op \in {"programLogo", "desktopFileName"} -> Assign(members, {call.op}, call.arg)
      [] call.op = "setHomepage" -> [members EXCEPT !._urls = ("homepage" :> call.arg) @@ @]
      [] call.op = "setUrl" -> [members EXCEPT !._urls = (call.type :> call.arg) @@ @]
      [] call.op = "setTranslator" -> [members EXCEPT !._translatorList = parseTranslators(call.arg, <<>>)]
      [] call.op = "addRelease" -> addRelease(members, call.arg)
      [] call.op = "setCustomAuthorText" -> setCustomAuthorText(members, call.arg, TRUE)
      [] call.op = "unsetCustomAuthorText" -> setCustomAuthorText(members, "", FALSE)

url(members, type) == IF type \in DOMAIN members._urls THEN members._urls[type] ELSE ""

(* NoText: the null pointer that crash handlers are given. *)
NoText == "(null)"

OrNone(text_) == IF text_ = "" THEN NoText ELSE text_

Told(members) ==
    [componentName |-> members._componentName, productName |-> productName(members),
     internalProductName |-> OrNone(members.productName),
     displayName |-> members._displayName, internalProgramName |-> members._internalProgramName,
     programLogo |-> members.programLogo, version |-> members._version,
     internalVersion |-> members._version,
     shortDescription |-> members._shortDescription, homepage |-> url(members, "homepage"),
     bugAddress |-> members._bugAddress, organizationDomain |-> members.organizationDomain,
     internalBugAddress |-> OrNone(members._bugAddress),
     authors |-> members._authorList, credits |-> members._creditList]

ToldAfterThese(members) ==
    [translators |-> members._translatorList, otherText |-> members._otherText,
     components |-> members._componentList, licenses |-> members._licenseList,
     copyrightStatement |-> members._copyrightStatement,
     customAuthorPlainText |-> members.customAuthorPlainText,
     customAuthorRichText |-> members.customAuthorRichText,
     customAuthorTextEnabled |-> members.customAuthorTextEnabled,
     desktopFileName |-> members.desktopFileName, releases |-> members._releaseList,
     bugtracker |-> url(members, "bugtracker")]

(* After any calls, one more changes what the getters tell of what it is about *)
(* and nothing else: a value is the one given, a list has one more at its end. *)
(* The product is the component until it has a name of its own.              *)
AccessorsAgree(calls, call) ==
    LET members == FoldLeft(Change, NewMembers, calls)
        All(of) == Told(of) @@ ToldAfterThese(of)
        Given(getter) ==
            CASE getter \in {"authors", "credits", "components", "releases"} ->
                   Append(All(members)[getter], call.arg)
              [] getter = "translators" -> <<Translator(call.arg, <<>>)>>
              [] getter = "customAuthorTextEnabled" -> call.arg # ""
              [] OTHER -> call.arg
        told == [getter \in DOMAIN All(members) |->
                    IF getter \in call.about THEN Given(getter) ELSE All(members)[getter]]
    IN All(Change(members, call)) =
         [told EXCEPT !.productName = IF told.internalProductName = NoText THEN told.componentName ELSE @]

-----------------------------------------------------------------------------
(* The entities the reader of a file resolves are made of the characters again. *)
entity_map ==
    [c \in {"<", ">", "&", "'", "\""} |->
        CASE c = "<" -> <<"l", "t">> [] c = ">" -> <<"g", "t">> [] c = "&" -> <<"a", "m", "p">>
          [] c = "'" -> <<"a", "p", "o", "s">> [] c = "\"" -> <<"q", "u", "o", "t">>]
Entity(c) == <<"&">> \o entity_map[c] \o <<";">>
quoteEntities(s) ==
    FoldLeft(LAMBDA out, c : out \o (IF c \in DOMAIN entity_map THEN Entity(c) ELSE <<c>>), <<>>, s)

(* No mark of the text is one in the rich text it becomes, and reading that     *)
(* gives the text.                                                         *)
EntitiesReturn(s) ==
    LET parts == PartsBetween(quoteEntities(s), "&")
        Entities(part) ==
            {c \in DOMAIN entity_map : IsPrefix(Append(entity_map[c], ";"), part)}
        Resolve(part) ==
            LET c == CHOOSE c \in Entities(part) : TRUE
            IN <<c>> \o SubSeq(part, Len(entity_map[c]) + 2, Len(part))
    IN /\ ToSet(quoteEntities(s)) \cap {"<", ">", "'", "\""} = {}
       /\ \A i \in 2 .. Len(parts) : Cardinality(Entities(parts[i])) = 1
       /\ s = parts[1] \o FlattenSeq([i \in 1 .. Len(parts) - 1 |-> Resolve(parts[i + 1])])

-----------------------------------------------------------------------------
(* An AppStream file is the sequence of its elements: what is inside of the     *)
(* component, the custom values and the releases is read like that beside.   *)
url_type_map == {"homepage", "bugtracker", "KDE::matrix"}

readAppStreamBinaries(provided) == SelectSeq(provided, LAMBDA e : e.name = "binary")

SetUrl(data, type, address) == Change(data, [op |-> "setUrl", type |-> type, arg |-> address])

(* A release has an empty address if it names none. *)
ReadRelease(data, e, langs) ==
    LET said == readAppStreamDescription(e.content, langs)
    IN IF e.version # "" /\ said.desc # <<>>
       THEN addRelease(data, Release(e.version, e.date, said.desc, said.raw, e.url)) ELSE data

ReadElement(data, e, langs) ==
    CASE e.name = "releases" -> [data EXCEPT !._releaseList = <<>>]
      [] e.name = "id" -> Change(data, [op |-> "desktopFileName", arg |-> <<e.text>>])
      [] e.name = "project_license" -> addLicense(data, byKeyword(e.keyword))
      [] e.name = "developer" -> Change(data, [op |-> "setOrganizationDomain", arg |-> <<e.text>>])
      [] e.name = "provides" ->
           LET binaries == readAppStreamBinaries(e.content)
           IN IF Len(binaries) # 1 THEN data
              ELSE Change(data, [op |-> "setComponentName", arg |-> <<binaries[1].text>>])
      [] e.name = "url" /\ e.type = "bugtracker" ->
           Change(SetUrl(data, e.type, e.text), [op |-> "setBugAddress", arg |-> e.text])
      [] e.name \in {"url", "value"} /\ e.type \in url_type_map /\ (e.name = "url" => e.type # "bugtracker") ->
           SetUrl(data, e.type, e.text)
      [] e.name = "release" -> ReadRelease(data, e, langs)
      [] OTHER -> data

(* The texts of one name, by language: the last one of each. *)
Texts(elements, kind) ==
    FoldLeft(LAMBDA texts, e : IF e.name = kind THEN (e.lang :> e.text) @@ texts ELSE texts, <<>>, elements)

Localized(texts, langs) ==
    LET lang == resolveLanguage(DOMAIN texts, langs)
    IN IF lang \in DOMAIN texts THEN texts[lang] ELSE ""

fromAppStreamFile(data, elements, langs) ==
    LET said == FoldLeft(LAMBDA read, e : ReadElement(read, e, langs), data, elements)
        named == Change(said, [op |-> "setDisplayName", arg |-> Localized(Texts(elements, "name"), langs)])
    IN Change(named, [op |-> "setShortDescription", arg |-> Localized(Texts(elements, "summary"), langs)])

(* fromAppStreamId(): the old name of the file is tried last. *)
AppStreamFile(installed) ==
    CASE "metainfo" \in installed -> "metainfo"
      [] "metainfo" \notin installed /\ "appdata" \in installed -> "appdata"
      [] OTHER -> "none"

(* A file that is read again changes nothing but the licences, which are there  *)
(* again; it leaves nothing of another file that was read before but what it *)
(* does not say, and its name and summary in any case; bugs are reported to  *)
(* the last bugtracker it names; and a name is told if it has one at all in  *)
(* a language of the user, or in none.                                      *)
FileReadAgain(data, elements, others, langs) ==
    LET once == fromAppStreamFile(data, elements, langs)
        again == fromAppStreamFile(once, elements, langs)
        between == fromAppStreamFile(fromAppStreamFile(data, others, langs), elements, langs)
        Said(found) == [found EXCEPT !._licenseList = <<>>]
        complete == \A i \in DOMAIN elements : elements[i].name = "release" =>
                        \E j \in 1 .. i - 1 : elements[j].name = "releases"
        trackers == SelectSeq(elements, LAMBDA e : e.name = "url" /\ e.type = "bugtracker")
        spoken == {<<>>} \cup UNION {{langs[i], Generic(langs[i])} : i \in DOMAIN langs}
        Kept(licenses) == IsPrefix(once._licenseList, licenses) \/ once._licenseList = data._licenseList
    IN /\ complete => Said(again) = Said(once)
       /\ Kept(again._licenseList)
       /\ trackers # <<>> => once._bugAddress = Last(trackers).text
       /\ \A member \in {"_displayName", "_internalProgramName", "_shortDescription"} :
             between[member] = once[member]
       /\ \A member \in {"desktopFileName", "organizationDomain", "_componentName", "_bugAddress", "_releaseList"} :
             once[member] # data[member] /\ complete => between[member] = once[member]
       /\ once._displayName = "" => \A i \in DOMAIN elements : elements[i].name = "name" => elements[i].lang \notin spoken
=============================================================================
