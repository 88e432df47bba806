----------------------------- MODULE KPluginData -----------------------------
(***************************************************************************)
(* The metadata of a plugin (kpluginmetadata.cpp): what its values are read *)
(* as, the persons and MIME types it names, the plugin findPluginById()     *)
(* finds and the factory that loadFactory() makes of it; the language its   *)
(* texts are in (kjsonutils.cpp), and how a factory makes an instance of a  *)
(* class (kpluginfactory.h).                                               *)
(*                                                                         *)
(* A JSON value is a record with a type and a value v.  A text is the       *)
(* sequence of its words, which commas join.                               *)
(***************************************************************************)
EXTENDS Integers, SequencesExt

Undefined == [type |-> "undefined", v |-> <<>>]

(* QString::number() and QString::toInt() of the numbers there are. *)
Numbers == -1 .. 2
Numeral(n) == <<ToString(n)>>

Told(boolean) == IF boolean THEN <<"true">> ELSE <<"false">>

(* value(QStringView, QString) *)
asString(value, default) ==
    CASE value.type = "string" -> value.v
      [] value.type = "array" -> FlattenSeq(value.v)
      [] value.type = "bool" -> Told(value.v)
      [] OTHER -> default

(* Mutant: any string that is not "false" is true. *)
asBool_NotFalse(value, default) ==
    CASE value.type = "bool" -> value.v
      [] value.type = "string" -> value.v # <<"false">>
      [] OTHER -> default

(* value(QStringView, bool) *)
asBool(value, default) ==
    CASE value.type = "bool" -> value.v
      [] value.type = "string" -> value.v = <<"true">>
      [] OTHER -> default

(* value(QStringView, int) *)
asInt(value, default) ==
    CASE value.type = "double" -> value.v
      [] value.type = "string" /\ (\E n \in Numbers : value.v = Numeral(n)) ->
           CHOOSE n \in Numbers : value.v = Numeral(n)
      [] OTHER -> default

(* value(QStringView, QStringList) *)
asList(value, default) ==
    LET text == CASE value.type = "string" -> value.v
                  [] value.type = "bool" -> Told(value.v)
                  [] value.type = "double" -> Numeral(value.v)
    IN CASE value.type \in {"undefined", "null", "object"} -> default
         [] value.type = "array" -> value.v
         [] OTHER -> IF text = <<>> THEN default ELSE <<text>>

isEnabledByDefault(value) ==
    CASE value.type = "bool" -> value.v
      [] value.type = "string" -> value.v = <<"true">>
      [] OTHER -> FALSE

(* authors(), translators() and otherContributors(): one person or several, *)
(* those without a name left out; a person is the name or "".               *)
aboutPersonFromJSON(people) ==
    CASE people.type = "object" -> SelectSeq(<<people.v>>, LAMBDA name : name # "")
      [] people.type = "array" ->
           LET objects == SelectSeq(people.v, LAMBDA p : p.type = "object")
               names == [i \in DOMAIN objects |-> objects[i].v]
           IN SelectSeq(names, LAMBDA name : name # "")
      [] OTHER -> <<>>

(* QMimeType::inherits(); parent[m] is the type m inherits from, or "". *)
inherits(parent, mime, from) ==
    LET up[n \in 0 .. Cardinality(DOMAIN parent)] ==
            IF n = 0 THEN mime ELSE IF up[n - 1] = "" THEN "" ELSE parent[up[n - 1]]
    IN \E n \in DOMAIN up : up[n] = from

supportsMimeType(mimes, parent, mime) ==
    \/ mime \in ToSet(mimes)
    \/ mime \in DOMAIN parent /\ \E m \in ToSet(mimes) : inherits(parent, mime, m)

-----------------------------------------------------------------------------
(* A KPluginMetaData.  A file is where it is, the base of its name, the id its *)
(* metadata gives ("none" if it has no metadata), and what loading it gives: *)
(* "nothing", an "object" or a "factory".                                  *)
Invalid == [fileName |-> "", pluginId |-> "", metaData |-> "none", static |-> FALSE,
            allowEmpty |-> FALSE]
NoFile == [fileName |-> "", base |-> "", metaData |-> "none", instance |-> "nothing"]

(* KPluginMetaData(const QString &) and KPluginMetaData(const QPluginLoader &): *)
(* the id is that of the file, also when the metadata gives another.       *)
ofFile(file, allowEmpty) ==
    [Invalid EXCEPT !.fileName = file.fileName, !.metaData = file.metaData,
                    !.pluginId = IF file.fileName = "" THEN "" ELSE file.base,
                    !.allowEmpty = allowEmpty]

ofStaticPlugin(id, metaData, allowEmpty) ==
    [fileName |-> id, pluginId |-> id, metaData |-> metaData, static |-> TRUE,
     allowEmpty |-> allowEmpty]

isValid(data) == data.pluginId # "" /\ (data.metaData # "none" \/ data.allowEmpty)

FirstOf(files, dirs) ==
    LET found == SelectSeq(dirs, LAMBDA i : files[i] # NoFile)
    IN IF found = <<>> THEN NoFile ELSE files[found[1]]

(* The file of an id is looked for in the application's directory, which is   *)
(* the place app of files, and then in the order of the library paths.      *)
pluginLoaderForPath(files, app) ==
    IF files[app] # NoFile THEN files[app]
    ELSE FirstOf(files, [i \in DOMAIN files |-> i])

(* It has to load, or else there is the static plugin, valid or not. *)
findPluginById(id, files, app, static, allowEmpty) ==
    LET file == pluginLoaderForPath(files, app)
        data == ofFile(file, allowEmpty)
    IN CASE file.instance # "nothing" /\ isValid(data) -> data
         [] ~(file.instance # "nothing" /\ isValid(data)) /\ static # "no" ->
              ofStaticPlugin(id, static, allowEmpty)
         [] OTHER -> Invalid

(* KPluginMetaData(const QJsonObject &, const QString &): here the metadata has    *)
(* its say.                                                                *)
FromJson(file) ==
    [Invalid EXCEPT !.fileName = file.fileName, !.metaData = file.metaData,
                    !.pluginId = IF file.metaData \in {"none", ""} THEN file.base ELSE file.metaData]

(* A file that is not JSON has no metadata. *)
fromJsonFile(file, opens, parses) ==
    IF ~opens THEN Invalid ELSE FromJson([file EXCEPT !.metaData = IF parses THEN @ ELSE "none"])

(* What findPlugins() lists under an id: a valid static plugin and the first    *)
(* valid file, of the application's directory first.                       *)
found(id, files, app, static, allowEmpty) ==
    LET valid == [i \in DOMAIN files |->
                    IF isValid(ofFile(files[i], allowEmpty)) THEN files[i] ELSE NoFile]
        file == FirstOf(valid, <<app>> \o [i \in DOMAIN files |-> i])
    IN {data \in {ofStaticPlugin(id, static, allowEmpty), ofFile(file, allowEmpty)} :
          isValid(data) /\ (data.static => static # "no")}

(* loadFactory(): what it is made of, or why there is none. *)
loadFactory(data, instance) ==
    CASE ~data.static /\ (data.fileName = "" \/ instance = "nothing") -> "INVALID_PLUGIN"
      [] (data.static \/ (data.fileName # "" /\ instance # "nothing")) /\ instance # "factory" ->
           "INVALID_FACTORY"
      [] OTHER -> "factory"

-----------------------------------------------------------------------------
(* Texts in several languages.  A locale, and what a key is translated to, is    *)
(* the sequence of a language and, it may be, a country; <<>> is untranslated. *)

(* Windows and macOS have a display language beside the locale of the system. *)
getDefaultLocaleName(pf) ==
    LET languages == SelectSeq(pf.LANGUAGE, LAMBDA l : l # <<>>)
    IN Head(IF pf.own THEN <<pf.name>> ELSE languages \o pf.uiLanguages \o <<pf.name>>)

readTranslatedValue(texts, locale, default) ==
    LET tags == SelectSeq(<<locale, SubSeq(locale, 1, 1), <<>>>>, LAMBDA tag : tag \in DOMAIN texts)
    IN IF tags = <<>> THEN default ELSE texts[Head(tags)]

readTranslatedString(texts, locale, default) ==
    LET value == readTranslatedValue(texts, locale, [type |-> "string", v |-> default])
    IN IF value.type = "string" THEN value.v ELSE default

(* The texts a plugin tells of itself, of which some are translated. *)
TextKeys ==
    {"Category", "Description", "Icon", "License", "Name", "Copyright", "Version", "Website",
     "BugReportUrl"}

TextsTold(root, locale) ==
    LET Plain(key) == IF <<>> \in DOMAIN root[key] /\ root[key][<<>>].type = "string"
                      THEN root[key][<<>>].v ELSE <<>>
        Translated(key) == readTranslatedString(root[key], locale, <<>>)
    IN [category |-> Plain("Category"), description |-> Translated("Description"),
        iconName |-> Plain("Icon"), license |-> Plain("License"), name |-> Translated("Name"),
        copyrightText |-> Translated("Copyright"), version |-> Plain("Version"),
        website |-> Plain("Website"), bugReportUrl |-> Plain("BugReportUrl")]

-----------------------------------------------------------------------------
(* A class that is registered: what it is (a part, a widget or another object)    *)
(* and the parameters of each of its constructors; one that has default      *)
(* arguments is several.                                                   *)

(* std::is_constructible: a widget will do where an object is asked for. *)
is_constructible(class, given) ==
    \E ctor \in class.ctors :
        /\ Len(ctor) = Len(given)
        /\ \A i \in DOMAIN given : given[i] = ctor[i] \/ (given[i] = "widget" /\ ctor[i] = "object")

WithMetaData ==
    {before \o <<"metadata">> \o after :
        before \in {<<"widget", "object">>, <<"widget">>, <<"object">>}, after \in {<<>>, <<"args">>}}
WithoutMetaData == {<<p>> \o after : p \in {"widget", "object"}, after \in {<<>>, <<"args">>}}

(* InheritanceWithMetaDataChecker and InheritanceChecker: which registerPlugin()  *)
(* there is for a class, if any.                                           *)
TakesMetaData(class) == \E given \in WithMetaData : is_constructible(class, given)
TakesNoMetaData(class) ==
    (\E given \in WithoutMetaData : is_constructible(class, given)) /\ ~TakesMetaData(class)

(* The parameters that the instance function passes whatever the constructors. *)
createInstanceFunction(class) ==
    LET own == IF class.is = "widget" THEN "widget" ELSE "object"
    IN CASE TakesMetaData(class) /\ class.is = "part" -> <<"widget", "object", "metadata">>
         [] TakesMetaData(class) /\ class.is # "part" -> <<own, "metadata">>
         [] OTHER -> <<own>>

(* createInstance() and its kin: with the arguments, if a constructor takes them. *)
createInstance(class) ==
    LET least == createInstanceFunction(class)
    IN IF is_constructible(class, Append(least, "args")) THEN Append(least, "args") ELSE least

(* There is a registerPlugin() for the class, and it compiles. *)
registerPluginCompiles(class) ==
    (TakesMetaData(class) \/ TakesNoMetaData(class)) /\ is_constructible(class, createInstance(class))

-----------------------------------------------------------------------------
(* The readers of a value agree with each other: what one of them writes is     *)
(* read by the others as the same, and none gives a default where another    *)
(* can tell the value, except for the number that is asked for as a text.    *)
ReadersAgree(value) ==
    LET text == [type |-> "string", v |-> asString(value, <<"default">>)]
        list == asList(value, <<>>)
    IN /\ value.type = "bool" => \A default \in BOOLEAN : asBool(text, default) = asBool(value, ~default)
       /\ value.type = "string" => asBool(value, TRUE) = isEnabledByDefault(value)
       /\ value.type = "bool" => isEnabledByDefault(value) = isEnabledByDefault(text)
       /\ value.type \in {"string", "array", "bool"} =>
             asString(value, <<"default">>) = FlattenSeq(list)
       /\ value.type = "double" =>
             asInt([type |-> "string", v |-> list[1]], 5) = asInt(value, 6)

(* Persons are read the same alone and in a list, and what handles a type      *)
(* handles those that inherit from it.                                     *)
ListsAgree(mimes, parent, name) ==
    /\ aboutPersonFromJSON([type |-> "object", v |-> name]) =
         aboutPersonFromJSON([type |-> "array", v |-> <<[type |-> "object", v |-> name], Undefined>>])
    /\ \A mime \in DOMAIN parent :
          supportsMimeType(mimes, parent, parent[mime]) => supportsMimeType(mimes, parent, mime)

(* A valid plugin that is found by its id is one that findPlugins() lists under *)
(* that id, and it has that id; when its file has a factory, it can be        *)
(* loaded from what was found.                                             *)
SearchesAgree(id, files, app, static, allowEmpty) ==
    LET data == findPluginById(id, files, app, static, allowEmpty)
    IN isValid(data) =>
         /\ data.pluginId = id
         /\ data \in found(id, files, app, static, allowEmpty)
         /\ ~data.static => loadFactory(data, pluginLoaderForPath(files, app).instance) # "INVALID_PLUGIN"

(* A JSON file tells the same of a plugin as the file of the plugin does, unless  *)
(* its metadata gives another id; what cannot be read or parsed is invalid.   *)
JsonFileAgrees(file, opens, parses) ==
    LET data == fromJsonFile(file, opens, parses)
    IN /\ isValid(data) => opens /\ parses /\ isValid(ofFile(file, FALSE))
       /\ opens /\ parses /\ file.metaData \in {"none", "", file.base} => data = ofFile(file, FALSE)

(* A text is told in the language of the locale where there is one for it, for   *)
(* the country before others, and translations to other languages or for     *)
(* other countries change nothing; only a translation that is no text hides   *)
(* the text that there is.  Those that are not translated are the same        *)
(* everywhere.                                                             *)
TranslationTold(texts, pf, tag, text) ==
    LET locale == getDefaultLocaleName(pf)
        Mine(t) == t \in {locale, SubSeq(locale, 1, 1)}
        more == (tag :> [type |-> "string", v |-> text]) @@ texts
        before == TextsTold([key \in TextKeys |-> texts], locale)
        after == TextsTold([key \in TextKeys |-> more], locale)
        Hidden == \E t \in DOMAIN more : (Mine(t) \/ t = <<>>) /\ more[t].type # "string"
    IN /\ ~Mine(tag) /\ tag # <<>> => after = before
       /\ tag # <<>> => after.version = before.version
       /\ Mine(tag) /\ (tag = locale \/ locale \notin DOMAIN texts) => after.name = text
       /\ tag = <<>> /\ after.name = <<>> => Hidden

(* What a class is made with does not become less when it is given one more      *)
(* constructor: the metadata is passed to every class that takes it, and so    *)
(* are the arguments if one takes them beside the rest; they are kept unless   *)
(* the new constructor is the first to take the metadata and does without     *)
(* them.                                                                   *)
MadeWithMore(class, ctor) ==
    LET more == [class EXCEPT !.ctors = @ \cup {ctor}]
        before == createInstance(class)
        after == createInstance(more)
    IN registerPluginCompiles(class) /\ registerPluginCompiles(more) =>
         /\ "metadata" \in ToSet(before) => ToSet(before) \subseteq ToSet(after)
         /\ ToSet(before) \subseteq ToSet(after) \/ (TakesMetaData(more) /\ ~TakesMetaData(class))
         /\ TakesMetaData(more) <=> "metadata" \in ToSet(after)
         /\ (\E c \in more.ctors : ToSet(c) = ToSet(after) \cup {"args"}) => "args" \in ToSet(after)
=============================================================================
