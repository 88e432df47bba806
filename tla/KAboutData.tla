------------------------------ MODULE KAboutData ------------------------------
(***************************************************************************)
(* The about data of the application (kaboutdata.cpp): the registry keeps  *)
(* one KAboutData, callers work on copies of it, and some of its fields    *)
(* are properties of the Q*Application as well.                            *)
(*                                                                         *)
(* A licence refers to the data whose copyright statement its text begins  *)
(* with; copies of a KAboutData share their licences until they detach     *)
(* them.  An AppStream file is the fields and the licence it gives.        *)
(***************************************************************************)
EXTENDS Naturals, Sequences

CONSTANTS
    Fields,         \* fields that are properties of the Q*Application as well
    StaticFields,   \* those that can be set without an instance of it
    FieldValues,          \* what the fields can be; "" is among them
    AppStreamFiles, \* the files that can be read: records of fields and licence
    MaxLicenses     \* bound on the licences of one KAboutData

ASSUME AboutAssumption ==
    /\ StaticFields \subseteq Fields /\ "" \in FieldValues
    /\ {"componentName", "displayName"} \subseteq Fields
    /\ "componentName" \in StaticFields
    /\ MaxLicenses \in Nat
    /\ \A file \in AppStreamFiles : \A f \in DOMAIN file.fields : file.fields[f] \in FieldValues

VARIABLES
    appData,    \* the KAboutData of the registry, or NoData
    mine,       \* the copy a caller works on, or NoData
    app,        \* the properties of the Q*Application
    instance,   \* a Q*Application exists
    synced      \* history: nothing was set since both were made the same

aboutVars == <<appData, mine, app, instance, synced>>

NoData == [fields |-> <<>>, licenses |-> <<>>]

(* A licence of owner: "appData", "mine", "none", or "other", another KAboutData *)
(* of the caller, which may be gone by now.                                *)
License(key, owner) == [key |-> key, aboutData |-> owner]

-----------------------------------------------------------------------------
(* The constructor with a name only.  It takes what follows the first "/" of   *)
(* it; the names here have none.                                           *)
WithName(name, owner) ==
    [fields |-> [f \in Fields |-> IF f = "componentName" THEN name ELSE ""],
     licenses |-> <<License("Unknown", owner)>>]

(* Mutant: the licences still refer to the object they are copied from. *)
Copied_Shared(data, owner) == data

(* The copy constructor and the assignment. *)
Copied(data, owner) ==
    [data EXCEPT !.licenses =
        [i \in DOMAIN data.licenses |-> License(data.licenses[i].key, owner)]]

Set(data, field, name) == [data EXCEPT !.fields[field] = name]

setLicense(data, license, owner) ==
    [data EXCEPT !.licenses[1] = License(license.key, owner)]

(* addLicense(): the unknown licence of a new object is overwritten.  One that *)
(* is appended keeps the KAboutData it refers to (kaboutdata.cpp:894).       *)
addLicense(data, license, owner) ==
    IF Len(data.licenses) = 1 /\ data.licenses[1].key = "Unknown"
    THEN setLicense(data, license, owner)
    ELSE [data EXCEPT !.licenses = Append(@, license)]

(* What the data of the registry is, once it is asked for: it is made from  *)
(* what the Q*Application knows, or from the name alone.                   *)
FromApplication ==
    [WithName(app["componentName"], "appData") EXCEPT
        !.fields = [f \in Fields |->
                        IF f = "componentName" \/ instance THEN app[f] ELSE ""]]

-----------------------------------------------------------------------------
applicationData ==
    /\ appData' = IF appData = NoData THEN FromApplication ELSE appData
    /\ mine' = Copied(appData', "mine")
    /\ synced' = IF appData = NoData THEN instance ELSE synced
    /\ UNCHANGED <<app, instance>>

(* Mutant: the display name is left out. *)
SetProperties_NotDisplayName(data) ==
    IF instance
    THEN app' = [data.fields EXCEPT !["displayName"] = app["displayName"]] ELSE UNCHANGED app

(* All the properties of the Q*Application are set, or none. *)
SetProperties(data) ==
    IF instance THEN app' = data.fields ELSE UNCHANGED app

setApplicationData(data) ==
    /\ appData' = Copied(data, "appData")
    /\ SetProperties(data)
    /\ synced' = instance

Publish ==
    /\ mine # NoData
    /\ setApplicationData(mine)
    /\ UNCHANGED <<mine, instance>>

(* processCommandLine() with --desktopfile. *)
processCommandLine(name) ==
    /\ mine # NoData /\ "desktopFileName" \in Fields
    /\ mine' = Set(mine, "desktopFileName", name)
    /\ setApplicationData(mine')
    /\ UNCHANGED instance

(* The caller has an object of its own, changes it, or destroys it. *)
NewAboutData(name) ==
    /\ mine = NoData
    /\ mine' = WithName(name, "mine")
    /\ UNCHANGED <<appData, app, instance, synced>>

ChangeMine(data) ==
    /\ mine # NoData
    /\ mine' = data /\ Len(data.licenses) <= MaxLicenses
    /\ UNCHANGED <<appData, app, instance, synced>>

AboutDestroyed ==
    /\ mine # NoData
    /\ mine' = NoData
    /\ UNCHANGED <<appData, app, instance, synced>>

-----------------------------------------------------------------------------
(* fromAppStreamFile(): what the file gives goes into the data of the       *)
(* registry, and the name is set whether the file gives one or not.  The   *)
(* properties of the Q*Application stay.                                   *)
ReadInto(data, file) ==
    LET licensed == IF file.license = "none" THEN data
                    ELSE addLicense(data, License(file.license, "none"), "appData")
        named == [licensed EXCEPT !.fields = [f \in Fields |->
                    IF f \in DOMAIN file.fields THEN file.fields[f] ELSE @[f]]]
    IN Set(named, "displayName",
           IF "displayName" \in DOMAIN file.fields THEN file.fields["displayName"] ELSE "")

fromAppStreamFile(data, file, opened) ==
    /\ LET read == IF opened THEN ReadInto(data, file) ELSE data
       IN /\ Len(read.licenses) <= MaxLicenses
          /\ appData' = read
          /\ mine' = Copied(read, "mine")
    /\ synced' = FALSE
    /\ UNCHANGED <<app, instance>>

(* fromAppStreamFile() itself does not ask the Q*Application for more than  *)
(* the name, fromAppStreamForApplication() does.                           *)
FromFile(file, opened) ==
    fromAppStreamFile(IF appData = NoData THEN WithName(app["componentName"], "appData")
                      ELSE appData, file, opened)

fromAppStreamForApplication(file, opened) ==
    /\ instance
    /\ fromAppStreamFile(IF appData = NoData THEN FromApplication ELSE appData, file, opened)

-----------------------------------------------------------------------------
(* The application sets a property of the Q*Application itself, or makes    *)
(* the instance.                                                           *)
SetApplication(field, name) ==
    /\ instance \/ field \in StaticFields
    /\ app' = [app EXCEPT ![field] = name]
    /\ synced' = FALSE
    /\ UNCHANGED <<appData, mine, instance>>

CreateApplication ==
    /\ ~instance
    /\ instance' = TRUE
    /\ UNCHANGED <<appData, mine, app, synced>>

AboutInit ==
    /\ appData = NoData /\ mine = NoData
    /\ app = [f \in Fields |-> ""]
    /\ instance = FALSE /\ synced = FALSE

AboutNext ==
    \/ applicationData \/ Publish \/ AboutDestroyed \/ CreateApplication
    \/ \E name \in FieldValues : NewAboutData(name) \/ processCommandLine(name)
    \/ \E field \in Fields, name \in FieldValues :
          \/ SetApplication(field, name)
          \/ mine # NoData /\ ChangeMine(Set(mine, field, name))
    \/ \E key \in {"Unknown", "GPL_V3"}, owner \in {"mine", "none", "other"} :
          mine # NoData /\ \/ ChangeMine(setLicense(mine, License(key, owner), "mine"))
                           \/ ChangeMine(addLicense(mine, License(key, owner), "mine"))
    \/ \E file \in AppStreamFiles, opened \in BOOLEAN :
          FromFile(file, opened) \/ fromAppStreamForApplication(file, opened)

-----------------------------------------------------------------------------
(* Properties. *)

(* What the licences of an object can refer to. *)
References(owner) == {owner, "none"} \cup (IF owner = "mine" THEN {"other"} ELSE {})

Owned(data, owner) ==
    /\ data.licenses # <<>>
    /\ \A i \in DOMAIN data.licenses : data.licenses[i].aboutData \in References(owner)

(* A KAboutData always has a first licence, which the setters overwrite        *)
(* without looking.  The licences of the registry's data never refer to       *)
(* another object, which may be gone when their text is asked for, whatever   *)
(* was published; those of a caller's object refer to no object it was copied *)
(* from, but may refer to one whose licence the caller itself has handed to   *)
(* addLicense(), since that does not make it its own (kaboutdata.cpp:889-896). *)
(* And as long as nobody sets a property of the Q*Application or reads an     *)
(* AppStream file, applicationData() finds the fields and the properties the  *)
(* same.                                                                   *)
AboutSound ==
    /\ appData # NoData => Owned(appData, "appData")
    /\ mine # NoData => Owned(mine, "mine")
    /\ synced => appData # NoData /\ appData.fields = app
=============================================================================
